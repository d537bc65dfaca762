--------------------------- MODULE LiveTailProofs ---------------------------
(***************************************************************************)
(* The type invariant of LiveTail, that every tail that runs is one that   *)
(* the page will stop, that no batch in the view of a running tail is      *)
(* reported as missing, and that the page lets go of a tail only when      *)
(* everything it captured is in the view or reported: for every set of     *)
(* channels and every number of starts, batches and turns.                 *)
(***************************************************************************)
EXTENDS LiveTail, FiniteSetTheorems, TLAPS

----------------------------------------------------------------------------
(* The inductive invariant *)

\* The type invariant, what else is written down, and why its counters stay within bounds: each
\* number taken was an arrival, each source a turn, and a channel is cleared only where its tail can
\* be started again.
Halt == [tail : TailId, received : UNION {[D -> SUBSET Numbers] : D \in SUBSET Channels},
         out : UNION {[D -> {"wait", "ok", "err"}] : D \in SUBSET Channels}]
Clear == [step : {"stop", "ok", "err", "clear"}, channel : Channels, tail : 0..(MaxTail - 1),
          source : Nat, tailing : BOOLEAN, received : SUBSET Numbers]
Called ==
  /\ halting = NoHalt \/ halting \in Halt
  /\ clearing # NoClear => /\ clearing \in Clear /\ (clearing.tailing => clearing.tail # 0)
                           /\ clearing.tailing \/ clearing.step = "clear"
Types ==
  /\ TailTypeOK
  /\ snapshot \in [Key -> SUBSET SUBSET Numbers]
  /\ source + turns <= MaxTurn
  /\ \A k \in Key : native[k].number + batches <= MaxBatch
  /\ \A k \in Key : native[k].waits => native[k].number + batches < MaxBatch
  /\ shown.tail <= tails /\ (shown.tail = 0 => shown.channels = {})
  /\ Called

\* The parts of the types that the steps of the page are about.
Views == [tail : 0..MaxTail, channels : SUBSET Channels]
Wired ==
  /\ start \in [Key -> {"none", "asked", "ok", "err"}]
  /\ stop \in [Key -> {"none", "asked", "closing", "ok", "err"}]
  /\ events \in Seq([key : Key, number : Numbers, lost : SUBSET Numbers])
Counted == source \in Nat /\ turns \in Nat /\ source + turns <= MaxTurn
Viewed ==
  /\ tails \in 0..MaxTail /\ active \in Views /\ shown \in Views
  /\ active.tail # 0 => active.tail = tails
  /\ shown.tail <= tails /\ (shown.tail = 0 => shown.channels = {})
Listed ==
  /\ loaded \subseteq Channels /\ starting \subseteq TailId /\ answered \subseteq Key
  /\ pending \subseteq Key
Seen ==
  /\ received \in [Key -> SUBSET Numbers] /\ applied \in [Key -> SUBSET Numbers]
  /\ \A k \in Key : received[k] \subseteq applied[k]
Snapped ==
  /\ snapshot \in [Key -> SUBSET SUBSET Numbers]
  /\ \A k \in Key : Cardinality(snapshot[k]) < 2
Reported == told \subseteq Channels \X Numbers

\* How the answers that the page has had, the answers on their way and the stages of the tails go
\* together.
Stages ==
  \A k \in Key :
    /\ start[k] = "none" => native[k].stage = "none"
    /\ start[k] = "err" => native[k].stage = "none"
    /\ start[k] # "none" => k[1] <= tails
    /\ k \in answered => start[k] \in {"ok", "err"}
    /\ k \in Unanswered => k[1] \in starting
    /\ stop[k] = "ok" => native[k].stage = "closed"

\* A tail that runs is of a start that is not through, or will be stopped, or is one that the page
\* both has and shows.  What stopLiveTail and clearChannel are about is of no start that is not
\* through, and is among the stops to be made.
Runs(k) == native[k].stage \in Running
Owned(k) ==
  \/ k[1] \in starting
  \/ k \in pending
  \/ /\ active.tail = k[1] /\ k[2] \in active.channels
     /\ shown.tail = k[1] /\ k[2] \in shown.channels
Halted ==
  halting # NoHalt =>
    /\ halting.tail \notin starting /\ halting.tail <= tails
    /\ shown.tail = halting.tail =>
         \A k \in Keys(shown.tail, shown.channels) : Runs(k) => k \in pending
Cleared ==
  clearing # NoClear =>
    /\ clearing.tail \notin starting /\ clearing.tail <= tails
    /\ \A k \in Keys(clearing.tail, {clearing.channel}) : Runs(k) => k \in pending
Owners == (\A k \in Key : Runs(k) => Owned(k)) /\ Halted /\ Cleared

TailInv == Types /\ Stages /\ Owners

----------------------------------------------------------------------------
(* Every step keeps it *)

\* What is remembered of a tail is remembered once.
LEMMA OnceRemembered == Cardinality({}) < 2 /\ \A x : Cardinality({x}) < 2
<1>1. Cardinality({}) = 0
  BY FS_EmptySet
<1>2. \A x : Cardinality({x}) = 1
  BY FS_Singleton
<1>3. 0 < 2 /\ 1 < 2
  OBVIOUS
<1> QED BY <1>1, <1>2, <1>3, Zenon

\* The stages of the native side: one case per step of a command or of a callback.
LEMMA NativeStages ==
  ASSUME Types, Stages, NEW k \in Key,
         \/ Subscribe(k) \/ Register(k) \/ Capture(k) \/ Take(k) \/ Emit(k) \/ StopRuns(k)
         \/ Closed(k)
  PROVE  /\ Stages'
         /\ \A l \in Key : Runs(l)' => Runs(l) \/ l[1] \in starting
<1>0. /\ native \in [Key -> [stage : Stage, waits : BOOLEAN, number : Numbers,
                            lost : SUBSET Numbers]]
      /\ start \in [Key -> {"none", "asked", "ok", "err"}]
      /\ stop \in [Key -> {"none", "asked", "closing", "ok", "err"}]
  BY DEF Types, TailTypeOK
<1>1. CASE Subscribe(k)
  BY <1>0, <1>1 DEF Subscribe, Stages, Unanswered, page, Runs, Running
<1>2. CASE Register(k)
  BY <1>0, <1>2 DEF Register, Stages, Unanswered, page, Runs, Running
<1>3. CASE Capture(k)
  BY <1>0, <1>3 DEF Capture, Stages, Unanswered, page, wires, Runs, Running
<1>4. CASE Take(k)
  BY <1>0, <1>4 DEF Take, Stages, Unanswered, page, wires, Runs, Running
<1>5. CASE Emit(k)
  <2>1. /\ \A l \in Key : native'[l].stage = native[l].stage
        /\ UNCHANGED <<start, stop, answered, starting, tails>>
    BY <1>0, <1>5 DEF Emit, page
  <2> QED BY <2>1 DEF Stages, Unanswered, Runs
<1>6. CASE StopRuns(k)
  BY <1>0, <1>6, SMTT(30) DEF StopRuns, Stages, Unanswered, page, Runs, Running
<1>7. CASE Closed(k)
  BY <1>0, <1>7 DEF Closed, Stages, Unanswered, page, Runs, Running
<1> QED
  BY <1>1, <1>2, <1>3, <1>4, <1>5, <1>6, <1>7

\* What the owners of a tail depend on, when the page takes no step.
LEMMA NativeOwners ==
  ASSUME Owners, UNCHANGED page,
         \A l \in Key : Runs(l)' => Runs(l) \/ l[1] \in starting
  PROVE  Owners'
<1>1. UNCHANGED <<active, shown, starting, pending, halting, clearing, tails>>
  BY DEF page
<1>2. \A k \in Key : Runs(k)' => Owned(k)'
  BY <1>1 DEF Owners, Owned
<1>3. Halted'
  BY <1>1 DEF Owners, Halted, Keys, NoHalt
<1>4. Cleared'
  BY <1>1 DEF Owners, Cleared, Keys, NoClear
<1> QED BY <1>2, <1>3, <1>4 DEF Owners

\* The stages and the owners when the page takes a step: it is the page that starts, and that asks
\* for stops.
LEMMA PageStages ==
  ASSUME Types, Stages, NEW more \in SUBSET Key,
         UNCHANGED <<native, start, answered>>, starting \subseteq starting', tails <= tails',
         tails' \in Nat,
         stop' = stop \/ AskStops(more)
  PROVE  Stages' /\ \A k \in Key : Runs(k)' <=> Runs(k)
<1>0. /\ stop \in [Key -> {"none", "asked", "closing", "ok", "err"}]
      /\ tails \in Nat /\ \A k \in Key : k[1] \in Nat
  BY TailAssumption, SMTT(30) DEF Types, TailTypeOK, Key, TailId
<1>1. \A k \in Key : stop'[k] = "ok" => stop[k] = "ok"
  BY <1>0 DEF AskStops
<1> QED BY <1>0, <1>1 DEF Stages, Unanswered, Runs

\* A stop asked for anew changes no more than the answers that stopLiveTail has had.
LEMMA OutdatedKeeps ==
  ASSUME Called, NEW k \in Key, NEW answer \in {"ok", "err"}, NEW halt,
         \/ halt = halting
         \/ /\ k \in Keys(halting.tail, DOMAIN halting.out)
            /\ halt = [halting EXCEPT !.out[k[2]] = answer]
  PROVE  \/ halting = NoHalt /\ halt = NoHalt
         \/ /\ halting \in Halt /\ halt \in Halt /\ halting # NoHalt /\ halt # NoHalt
            /\ halt.tail = halting.tail
            /\ halt.received = halting.received /\ DOMAIN halt.out = DOMAIN halting.out
            /\ \A c \in DOMAIN halting.out :
                 halt.out[c] = halting.out[c] \/ (k = <<halting.tail, c>> /\ halt.out[c] = answer)
<1>0. \A h \in Halt : h # NoHalt
  BY DEF Halt, NoHalt, TailId
<1>1. CASE halt = halting
  BY <1>0, <1>1 DEF Called
<1>2. CASE /\ k \in Keys(halting.tail, DOMAIN halting.out)
           /\ halt = [halting EXCEPT !.out[k[2]] = answer]
  <2>1. halting # NoHalt
    BY <1>2 DEF Keys, NoHalt, Key, TailId
  <2>2. halting \in Halt
    BY <2>1 DEF Called
  <2> PICK D \in SUBSET Channels : halting.out \in [D -> {"wait", "ok", "err"}]
    BY <2>2 DEF Halt
  <2>3. [halting.out EXCEPT ![k[2]] = answer] \in [D -> {"wait", "ok", "err"}]
    OBVIOUS
  <2>4. halt = [tail |-> halting.tail, received |-> halting.received,
                out |-> [halting.out EXCEPT ![k[2]] = answer]]
    BY <1>2, <2>2 DEF Halt
  <2>5. halt \in Halt
    BY <2>2, <2>3, <2>4 DEF Halt
  <2>6. k = <<halting.tail, k[2]>>
    BY <1>2 DEF Keys, Key
  <2>7. \A c \in DOMAIN halting.out :
          halt.out[c] = halting.out[c] \/ (k = <<halting.tail, c>> /\ halt.out[c] = answer)
    BY <2>4, <2>6
  <2> QED BY <1>0, <2>1, <2>2, <2>4, <2>5, <2>7
<1> QED BY <1>1, <1>2

\* A new start is of a new tail, whose number no command has used.
LEMMA StartStages ==
  ASSUME Types, Stages, startLiveTail, UNCHANGED <<native, answered>>
  PROVE  Stages' /\ \A k \in Key : Runs(k)' <=> Runs(k)
<1>0. /\ stop \in [Key -> {"none", "asked", "closing", "ok", "err"}]
      /\ start \in [Key -> {"none", "asked", "ok", "err"}]
      /\ tails \in Nat /\ \A k \in Key : k[1] \in Nat
  BY TailAssumption DEF Types, TailTypeOK, Key, TailId
<1>1. /\ tails' = tails + 1 /\ starting' = starting \cup {tails'}
      /\ start' = [k \in Key |-> IF k \in Keys(tails', loaded) THEN "asked" ELSE start[k]]
      /\ \A k \in Key : stop'[k] = "ok" => stop[k] = "ok"
  BY <1>0 DEF startLiveTail, AskStops
<1>2. \A k \in Keys(tails', loaded) : k[1] = tails + 1
  BY <1>1 DEF Keys
<1>3. \A k \in Key : start'[k] = start[k] \/ (k[1] = tails + 1 /\ start'[k] = "asked")
  BY <1>1, <1>2
<1>4. \A k \in Key : start[k] # "none" => k[1] # tails + 1
  BY <1>0 DEF Stages
<1>5. ASSUME NEW k \in Key
      PROVE  /\ start'[k] = "none" => native'[k].stage = "none"
             /\ start'[k] = "err" => native'[k].stage = "none"
             /\ start'[k] # "none" => k[1] <= tails'
             /\ k \in answered' => start'[k] \in {"ok", "err"}
             /\ k \in Unanswered' => k[1] \in starting'
             /\ stop'[k] = "ok" => native'[k].stage = "closed"
  BY <1>0, <1>1, <1>3, <1>4 DEF Stages, Unanswered
<1> QED BY <1>5 DEF Stages, Runs

\* A start of the page leaves every tail that runs with an owner: what it supersedes is stopped, or
\* is of a start that is not through.
LEMMA StartOwners ==
  ASSUME Types, Stages, Owners, startLiveTail, UNCHANGED <<native, answered, shown>>,
         UNCHANGED halting, clearing' \in {clearing, NoClear}
  PROVE  Owners'
<1>0. /\ tails \in Nat /\ \A k \in Key : k[1] \in Nat
      /\ starting \subseteq TailId
  BY TailAssumption DEF Types, TailTypeOK, Key, TailId
<1> DEFINE superseded == Keys(active.tail, active.channels) \ Unanswered
<1>1. /\ tails' = tails + 1 /\ starting' = starting \cup {tails + 1}
      /\ pending' = pending \cup (superseded \cup pending)
  BY DEF startLiveTail, AskStops
<1>2. \A k \in Key : Runs(k)' <=> Runs(k)
  BY DEF Runs
<1>3. ASSUME NEW k \in Key, Runs(k)
      PROVE  k[1] \in starting' \/ k \in pending'
  <2>1. Owned(k)
    BY <1>3 DEF Owners
  <2>2. CASE active.tail = k[1] /\ k[2] \in active.channels
    <3>1. k \in superseded \/ k \in Unanswered
      BY <2>2 DEF Keys
    <3> QED BY <1>1, <3>1 DEF Stages
  <2> HIDE DEF superseded
  <2> QED BY <1>1, <2>1, <2>2 DEF Owned
<1>4. \A k \in Key : Runs(k)' => Owned(k)'
  BY <1>2, <1>3 DEF Owned
<1>5. halting \in Halt => halting.tail \in Nat
  BY TailAssumption DEF Halt, TailId
<1>6. clearing \in Clear => clearing.tail \in Nat
  BY DEF Clear
<1>7. Halted'
  BY <1>0, <1>1, <1>2, <1>5 DEF Types, Owners, Halted, Called, Keys
<1>8. Cleared'
  BY <1>0, <1>1, <1>2, <1>6 DEF Types, Owners, Cleared, Called, Keys
<1> QED BY <1>4, <1>7, <1>8 DEF Owners

\* The stages and the owners, when the page or the user takes a step and no tail is stopped before
\* its start is through.
LEMMA PageKept ==
  ASSUME ~Early, Types, Stages, Owners,
         \/ StartLive \/ StopLive \/ NewSource \/ (\E c \in Channels : ClearChannel(c))
         \/ Continuations \/ Listen \/ ChannelCleared \/ ClearFails
         \/ \E k \in Key : StartAnswered(k) \/ StopAnswered(k)
  PROVE  Stages' /\ Owners'
<1>0. /\ stop \in [Key -> {"none", "asked", "closing", "ok", "err"}]
      /\ start \in [Key -> {"none", "asked", "ok", "err"}]
      /\ tails \in Nat /\ \A k \in Key : k[1] \in Nat
      /\ starting \subseteq TailId /\ 0 \notin TailId /\ pending \subseteq Key
  BY TailAssumption, SMTT(30) DEF Types, TailTypeOK, Key, TailId
<1>a. /\ active \in [tail : 0..MaxTail, channels : SUBSET Channels]
      /\ shown \in [tail : 0..MaxTail, channels : SUBSET Channels]
  BY DEF Types, TailTypeOK
<1>1. ASSUME UNCHANGED <<native, start, answered, tails, starting>>, NEW more \in SUBSET Key,
             stop' = stop \/ AskStops(more)
      PROVE  Stages' /\ \A k \in Key : Runs(k)' <=> Runs(k)
  BY <1>0, <1>1, PageStages
<1>2. ASSUME StartLive
      PROVE  Stages' /\ Owners'
  BY <1>2, StartStages, StartOwners DEF StartLive, nativeVars
<1>3. ASSUME StopLive
      PROVE  Stages' /\ Owners'
  <2>1. Stages' /\ \A k \in Key : Runs(k)' <=> Runs(k)
    BY <1>1, <1>3 DEF StopLive, nativeVars, Keys
  <2>2. /\ pending' = pending \cup Keys(shown.tail, shown.channels)
        /\ halting'.tail = shown.tail /\ shown.tail \notin starting
        /\ UNCHANGED <<shown, starting, active, clearing, tails>>
    BY <1>3 DEF StopLive, AskStops, MayPress
  <2>3. \A k \in Key : Runs(k)' => Owned(k)'
    BY <2>1, <2>2 DEF Owners, Owned
  <2>4. shown.tail <= tails
    BY DEF Types
  <2>5. Halted'
    BY <2>1, <2>2, <2>4 DEF Halted, Keys
  <2>6. Cleared'
    BY <2>1, <2>2 DEF Owners, Cleared, Keys
  <2> QED BY <2>1, <2>3, <2>5, <2>6 DEF Owners
<1>4. ASSUME NewSource
      PROVE  Stages' /\ Owners'
  <2> DEFINE stale == Keys(active.tail, active.channels)
  <2>1. Stages' /\ \A k \in Key : Runs(k)' <=> Runs(k)
    <3>1. (stale \ Unanswered) \cup pending \in SUBSET Key
      BY <1>0 DEF Keys
    <3> HIDE DEF stale
    <3> QED BY <1>1, <1>4, <3>1 DEF NewSource, stale
  <2>2. /\ pending' = pending \cup ((stale \ Unanswered) \cup pending)
        /\ shown'.tail = 0 /\ shown'.channels = {}
        /\ UNCHANGED <<starting, halting, clearing, tails>>
    BY <1>4 DEF NewSource, AskStops, NoTail
  <2>3. ASSUME NEW k \in Key, Runs(k)
        PROVE  k[1] \in starting \/ k \in pending'
    BY <2>2, <2>3 DEF Owners, Owned, Stages, Keys
  <2> HIDE DEF stale
  <2>4. Halted' /\ Cleared'
    BY <2>1, <2>2, <2>3 DEF Owners, Halted, Cleared, Keys
  <2> QED BY <2>1, <2>2, <2>3, <2>4 DEF Owners, Owned
<1>5. ASSUME NEW c \in Channels, ClearChannel(c)
      PROVE  Stages' /\ Owners'
  <2>1. clearing'.tail = shown.tail /\ clearing'.channel = c /\ shown.tail \notin starting
        /\ clearing' # NoClear
        /\ UNCHANGED <<native, start, answered, shown, starting, tails>>
    BY <1>5 DEF ClearChannel, MayPress, NoClear
  <2>2. CASE c \in shown.channels
    <3> DEFINE k == <<shown.tail, c>>
    <3>1. /\ active' = (IF active.tail = shown.tail
                        THEN [active EXCEPT !.channels = @ \ {c}] ELSE active)
          /\ AskStops({k}) /\ halting' = Outdated(k)
      BY <1>5, <2>2 DEF ClearChannel
    <3>2. k \in Key /\ Keys(shown.tail, {c}) = {k}
      BY <1>a, <2>2 DEF Types, Key, TailId, Keys
    <3>3. Stages' /\ \A l \in Key : Runs(l)' <=> Runs(l)
      BY <1>1, <2>1, <3>1, <3>2
    <3>4. pending' = pending \cup {k}
      BY <3>1 DEF AskStops
    <3>5. \A l \in Key : Runs(l)' => Owned(l)'
      <4> SUFFICES ASSUME NEW l \in Key, Runs(l) PROVE Owned(l)'
        BY <3>3
      <4>1. Owned(l)
        BY DEF Owners
      <4>2. l # k /\ l[1] = shown.tail => l[2] # c
        BY DEF Key
      <4> HIDE DEF k
      <4> QED BY <1>a, <2>1, <3>1, <3>4, <4>1, <4>2 DEF Owned
    <3>6. halting' # NoHalt => halting # NoHalt /\ halting'.tail = halting.tail
      BY <3>1, <3>2, OutdatedKeeps DEF Types, Outdated
    <3>7. Halted' /\ Cleared'
      <4> HIDE DEF k
      <4> QED BY <2>1, <3>2, <3>3, <3>4, <3>6 DEF Owners, Halted, Cleared, Keys, Types
    <3> QED BY <3>3, <3>5, <3>7 DEF Owners
  <2>3. CASE c \notin shown.channels
    <3>1. UNCHANGED <<active, pending, stop, halting>>
      BY <1>5, <2>3 DEF ClearChannel
    <3>2. Stages' /\ \A l \in Key : Runs(l)' <=> Runs(l)
      BY <1>1, <2>1, <3>1
    <3>3. \A l \in Keys(shown.tail, {c}) : Runs(l) => l \in pending
      BY <2>1, <2>3 DEF Owners, Owned, Keys
    <3> QED BY <2>1, <3>1, <3>2, <3>3 DEF Owners, Owned, Halted, Cleared, Keys, Types
  <2> QED BY <2>2, <2>3
<1>6. ASSUME HaltResumes
      PROVE  Stages' /\ Owners'
  <2>1. Stages' /\ \A k \in Key : Runs(k)' <=> Runs(k)
    BY <1>1, <1>6 DEF HaltResumes, nativeVars, wires
  <2>2. UNCHANGED <<starting, pending, clearing, tails>> /\ halting' = NoHalt /\ halting # NoHalt
    BY <1>6 DEF HaltResumes, HaltReady
  <2>3. \A k \in Key : Runs(k) => Owned(k)'
    <3>1. CASE UNCHANGED <<active, shown>>
      BY <2>2, <3>1 DEF Owners, Owned
    <3>2. CASE ~UNCHANGED <<active, shown>>
      <4>1. shown.tail = halting.tail
        BY <1>6, <3>2 DEF HaltResumes
      <4>2. \A k \in Keys(shown.tail, shown.channels) : Runs(k) => k \in pending
        BY <2>2, <4>1 DEF Owners, Halted
      <4> QED BY <2>2, <4>2 DEF Owners, Owned, Keys
    <3> QED BY <3>1, <3>2
  <2>4. Halted' /\ Cleared'
    BY <2>1, <2>2 DEF Owners, Halted, Cleared, Keys
  <2> QED BY <2>1, <2>3, <2>4 DEF Owners
<1>7. ASSUME ClearResumes
      PROVE  Stages' /\ Owners'
  <2>1. Stages' /\ \A k \in Key : Runs(k)' <=> Runs(k)
    BY <1>1, <1>7 DEF ClearResumes, nativeVars, wires
  <2>2. /\ UNCHANGED <<starting, pending, shown, halting, tails>>
        /\ active'.tail = active.tail /\ active.channels \subseteq active'.channels
    BY <1>7, <1>a DEF ClearResumes
  <2>3. clearing # NoClear /\ (clearing' # NoClear => /\ clearing'.tail = clearing.tail
                                                       /\ clearing'.channel = clearing.channel)
    <3>1. clearing # NoClear
      BY <1>7 DEF ClearResumes, ClearReady, NoClear
    <3> QED BY <1>7, <3>1 DEF ClearResumes, Types, Clear, Called
  <2>4. \A k \in Key : Runs(k)' => Owned(k)'
    BY <2>1, <2>2 DEF Owners, Owned
  <2>5. Halted' /\ Cleared'
    BY <2>1, <2>2, <2>3 DEF Owners, Halted, Cleared, Keys
  <2> QED BY <2>1, <2>4, <2>5 DEF Owners
<1>8. ASSUME NEW t \in TailId, StartResumes(t)
      PROVE  Stages' /\ Owners'
  <2> DEFINE started == {c \in Channels : start[<<t, c>>] = "ok"}
  <2>1. /\ starting' = starting \ {t} /\ t \in starting
        /\ UNCHANGED <<native, start, answered, halting, clearing, tails>>
        /\ \/ /\ active' = [tail |-> t, channels |-> started] /\ shown' = active'
              /\ active.tail = t
              /\ UNCHANGED <<stop, pending>>
           \/ AskStops(Keys(t, started)) /\ UNCHANGED <<active, shown>>
    BY <1>8 DEF StartResumes, nativeVars, cleanupStaleTailStart
  <2>2. \A k \in Key : k[1] = t /\ start[k] # "none" => k \in answered /\ start[k] \in {"ok", "err"}
    BY <1>8 DEF StartResumes, AllAnswered, Unanswered, Stages
  <2>3. Stages' /\ \A k \in Key : Runs(k)' <=> Runs(k)
    <3>1. \A k \in Key : stop'[k] = "ok" => stop[k] = "ok"
      BY <1>0, <2>1 DEF AskStops
    <3>2. \A k \in Key : k \in Unanswered' => k[1] \in starting'
      BY <2>1, <2>2 DEF Unanswered, Stages
    <3> QED BY <2>1, <3>1, <3>2 DEF Stages, Runs
  <2>4. pending \subseteq pending'
    BY <2>1 DEF AskStops
  <2>5. ASSUME NEW k \in Key, Runs(k)
        PROVE  Owned(k)'
    <3>1. CASE k[1] # t
      BY <2>1, <2>4, <2>5, <3>1 DEF Owners, Owned
    <3>2. CASE k[1] = t
      <4>1. start[k] = "ok"
        BY <2>2, <2>5, <3>2 DEF Stages, Runs, Running
      <4>2. k = <<t, k[2]>> /\ k[2] \in started
        BY <3>2, <4>1 DEF Key
      <4>3. k \in Keys(t, started)
        BY <3>2, <4>2 DEF Keys
      <4> HIDE DEF started
      <4> QED BY <2>1, <3>2, <4>2, <4>3 DEF Owned, AskStops
    <3> QED BY <3>1, <3>2
  <2>6. Halted'
    <3>1. halting # NoHalt => halting.tail # t
      BY <2>1 DEF Owners, Halted
    <3> QED BY <2>1, <2>3, <2>4, <3>1 DEF Owners, Halted, Keys
  <2>7. Cleared'
    BY <2>1, <2>3, <2>4 DEF Owners, Cleared, Keys
  <2> QED BY <2>3, <2>5, <2>6, <2>7 DEF Owners
<1>9. ASSUME Listen
      PROVE  Stages' /\ Owners'
  <2>1. Stages' /\ \A k \in Key : Runs(k)' <=> Runs(k)
    BY <1>1, <1>9 DEF Listen, nativeVars
  <2>2. UNCHANGED <<starting, pending, active, halting, clearing, tails>>
    BY <1>9 DEF Listen
  <2>3. CASE UNCHANGED shown
    BY <2>1, <2>2, <2>3 DEF Owners, Owned, Halted, Cleared, Keys
  <2>4. CASE ~UNCHANGED shown
    <3>1. PICK c : /\ c \in active.channels
                   /\ shown' = [tail |-> active.tail, channels |-> shown.channels \cup {c}]
      BY <1>9, <2>4 DEF Listen
    <3>2. \A k \in Key : Runs(k) => Owned(k)'
      BY <2>2, <3>1 DEF Owners, Owned
    <3>3. Halted'
      <4> SUFFICES ASSUME halting # NoHalt, active.tail = halting.tail,
                          NEW k \in Keys(active.tail, shown.channels \cup {c}), Runs(k)
                   PROVE  k \in pending
        BY <2>1, <2>2, <3>1 DEF Owners, Halted, Keys
      <4>1. Owned(k) /\ k[1] \notin starting
        BY DEF Owners, Halted, Keys
      <4> QED BY <4>1 DEF Owners, Owned, Halted, Keys
    <3>4. Cleared'
      BY <2>1, <2>2 DEF Owners, Cleared, Keys
    <3> QED BY <2>1, <3>2, <3>3, <3>4 DEF Owners
  <2> QED BY <2>3, <2>4
<1>10. ASSUME ChannelCleared
       PROVE  Stages' /\ Owners'
  <2>1. Stages' /\ \A k \in Key : Runs(k)' <=> Runs(k)
    BY <1>1, <1>10 DEF ChannelCleared, nativeVars, wires
  <2>2. UNCHANGED <<starting, pending, halting, tails>> /\ clearing' = NoClear /\ clearing # NoClear
    BY <1>10 DEF ChannelCleared, NoClear
  <2>3. CASE UNCHANGED <<active, shown>>
    BY <2>1, <2>2, <2>3 DEF Owners, Owned, Halted, Cleared, Keys
  <2>4. CASE ~UNCHANGED <<active, shown>>
    <3> DEFINE remaining == shown.channels \ {clearing.channel}
    <3>1. /\ shown.tail = clearing.tail
          /\ \/ active' = active /\ remaining # {}
             \/ remaining = {}
          /\ shown' = IF remaining = {} THEN NoTail ELSE [shown EXCEPT !.channels = remaining]
      BY <1>10, <2>4 DEF ChannelCleared, StillClearing
    <3>2. \A k \in Keys(shown.tail, {clearing.channel}) : Runs(k) => k \in pending
      BY <2>2, <3>1 DEF Owners, Cleared
    <3>3. \A k \in Key : Runs(k) => Owned(k)'
      BY <1>a, <2>2, <3>1, <3>2 DEF Owners, Owned, Keys
    <3>4. Keys(shown'.tail, shown'.channels) \subseteq Keys(shown.tail, shown.channels)
      BY <1>0, <1>a, <3>1 DEF Keys, NoTail
    <3>5. Halted'
      <4>1. CASE remaining = {}
        <5>1. Keys(shown'.tail, shown'.channels) = {}
          BY <3>1, <4>1 DEF NoTail, Keys
        <5>2. halting' # NoHalt => /\ halting.tail \notin starting /\ halting.tail <= tails
                                   /\ halting' = halting
          BY <2>2 DEF Owners, Halted
        <5> QED BY <2>2, <5>1, <5>2 DEF Halted
      <4>2. CASE remaining # {}
        <5>1. shown'.tail = shown.tail
          BY <1>a, <3>1, <4>2
        <5>2. halting' # NoHalt /\ shown'.tail = halting'.tail =>
                \A k \in Keys(shown'.tail, shown'.channels) : Runs(k) => k \in pending
          BY <2>2, <3>4, <5>1 DEF Owners, Halted
        <5>3. \A k \in Keys(shown'.tail, shown'.channels) : k \in Key
          BY DEF Keys
        <5>4. halting' # NoHalt => /\ halting.tail \notin starting /\ halting.tail <= tails
                                   /\ halting' = halting
          BY <2>2 DEF Owners, Halted
        <5> QED BY <2>1, <2>2, <5>2, <5>3, <5>4 DEF Halted
      <4> QED BY <4>1, <4>2
    <3>6. Cleared'
      BY <2>2 DEF Cleared
    <3> QED BY <2>1, <3>3, <3>5, <3>6 DEF Owners
  <2> QED BY <2>3, <2>4
<1>11. ASSUME ClearFails
       PROVE  Stages' /\ Owners'
  <2>1. /\ UNCHANGED <<native, answered, shown, halting>>
        /\ clearing' = NoClear
        /\ startLiveTail \/ UNCHANGED <<start, stop, pending, active, starting, tails>>
    BY <1>11 DEF ClearFails, nativeVars
  <2>2. CASE startLiveTail
    BY <2>1, <2>2, StartStages, StartOwners
  <2>3. CASE UNCHANGED <<start, stop, pending, active, starting, tails>>
    <3>1. Stages' /\ \A k \in Key : Runs(k)' <=> Runs(k)
      BY <1>1, <2>1, <2>3
    <3> QED BY <2>1, <2>3, <3>1 DEF Owners, Owned, Halted, Cleared, Keys
  <2> QED BY <2>1, <2>2, <2>3
<1>12. ASSUME NEW k \in Key, StartAnswered(k)
       PROVE  Stages' /\ Owners'
  <2>1. /\ UNCHANGED <<native, start, active, shown, starting, halting, clearing, tails>>
        /\ answered' = answered \cup {k} /\ start[k] \in {"ok", "err"}
        /\ \E more \in SUBSET Key : AskStops(more)
    <3>1. (IF start[k] = "ok" /\ active.tail # k[1] THEN {k} ELSE {}) \in SUBSET Key
      OBVIOUS
    <3> QED BY <1>12, <3>1 DEF StartAnswered, nativeVars, cleanupStaleTailStart
  <2>2. pending \subseteq pending' /\ \A l \in Key : stop'[l] = "ok" => stop[l] = "ok"
    BY <1>0, <2>1 DEF AskStops
  <2>3. Stages' /\ \A l \in Key : Runs(l)' <=> Runs(l)
    BY <2>1, <2>2 DEF Stages, Unanswered, Runs
  <2> QED BY <2>1, <2>2, <2>3 DEF Owners, Owned, Halted, Cleared, Keys
<1>13. ASSUME NEW k \in Key, StopAnswered(k)
       PROVE  Stages' /\ Owners'
  <2>1. UNCHANGED <<native, start, answered, active, shown, starting, tails>>
    BY <1>13 DEF StopAnswered, nativeVars
  <2>2. \A l \in Key : stop'[l] = "ok" => stop[l] = "ok"
    BY <1>0, <1>13 DEF StopAnswered
  <2>3. Stages' /\ \A l \in Key : Runs(l)' <=> Runs(l)
    BY <2>1, <2>2 DEF Stages, Unanswered, Runs
  <2>4. \A l \in Key : Runs(l) /\ l \in pending => l \in pending'
    BY <1>13 DEF StopAnswered, Stages, Runs, Running
  <2>5. /\ halting' = NoHalt <=> halting = NoHalt
        /\ halting # NoHalt => halting'.tail = halting.tail
    <3>1. \/ halting' = halting
          \/ /\ k \in Keys(halting.tail, DOMAIN halting.out)
             /\ halting' = [halting EXCEPT !.out[k[2]] = stop[k]]
      BY <1>13 DEF StopAnswered, Keys
    <3>2. stop[k] \in {"ok", "err"}
      BY <1>13 DEF StopAnswered
    <3> QED BY <3>1, <3>2, OutdatedKeeps DEF Types
  <2>6. /\ clearing' = NoClear <=> clearing = NoClear
        /\ clearing # NoClear => /\ clearing'.tail = clearing.tail
                                 /\ clearing'.channel = clearing.channel
    BY <1>13 DEF StopAnswered, Types, Clear, NoClear, Called
  <2> QED BY <2>1, <2>3, <2>4, <2>5, <2>6 DEF Owners, Owned, Halted, Cleared, Keys
<1> QED
  BY <1>2, <1>3, <1>4, <1>5, <1>6, <1>7, <1>8, <1>9, <1>10, <1>11, <1>12, <1>13 DEF Continuations

\* The type of what a stop remembers.
LEMMA KnownType ==
  ASSUME Types, NEW k \in Key
  PROVE  Known(k) \in SUBSET Numbers
  BY DEF Types, TailTypeOK, Known

\* The steps of the native side keep the types: a number is taken only for an arrival.
LEMMA NativeTypes ==
  ASSUME Types, NEW k \in Key,
         \/ Subscribe(k) \/ Register(k) \/ Capture(k) \/ Take(k) \/ Emit(k) \/ StopRuns(k)
         \/ Closed(k)
  PROVE  Types'
<1>0. /\ native \in [Key -> [stage : Stage, waits : BOOLEAN, number : Numbers,
                            lost : SUBSET Numbers]]
      /\ emitting \in [Key -> SUBSET Numbers]
      /\ start \in [Key -> {"none", "asked", "ok", "err"}]
      /\ stop \in [Key -> {"none", "asked", "closing", "ok", "err"}]
      /\ events \in Seq([key : Key, number : Numbers, lost : SUBSET Numbers])
      /\ batches \in Nat /\ batches <= MaxBatch /\ turns \in Nat /\ turns <= MaxTurn
      /\ MaxBatch \in Nat /\ MaxTurn \in Nat
  BY TailAssumption DEF Types, TailTypeOK
<1>n. native \in [Key -> [stage : Stage, waits : BOOLEAN, number : Numbers, lost : SUBSET Numbers]]
  BY <1>0
<1>t. turns \in Nat /\ turns <= MaxTurn /\ MaxTurn \in Nat
  BY <1>0
<1>m. emitting \in [Key -> SUBSET Numbers]
  BY <1>0
<1>1. ASSUME UNCHANGED page,
             native' \in [Key -> [stage : Stage, waits : BOOLEAN, number : Numbers,
                                  lost : SUBSET Numbers]],
             emitting' \in [Key -> SUBSET Numbers],
             start' \in [Key -> {"none", "asked", "ok", "err"}],
             stop' \in [Key -> {"none", "asked", "closing", "ok", "err"}],
             events' \in Seq([key : Key, number : Numbers, lost : SUBSET Numbers]),
             batches' \in 0..MaxBatch, turns' \in 0..MaxTurn, turns' <= turns,
             \A l \in Key : /\ native'[l].number + batches' <= MaxBatch
                            /\ native'[l].waits => native'[l].number + batches' < MaxBatch
      PROVE  Types'
  <2>1. UNCHANGED <<source, active, shown, loaded, starting, answered, pending, received, snapshot,
                    told, halting, clearing, tails, applied>>
    BY <1>1 DEF page
  <2>2. source' + turns' <= MaxTurn
    <3>1. source' = source /\ source + turns <= MaxTurn /\ source \in Nat
      BY <1>0, <2>1 DEF Types, TailTypeOK
    <3>2. turns' \in Nat /\ turns' <= turns
      BY <1>t, <1>1
    <3>3. \A a, b, c, d \in Nat : a + b <= d /\ c <= b => a + c <= d
      OBVIOUS
    <3>4. source' + turns' <= MaxTurn
      BY <1>t, <3>1, <3>2, <3>3
    <3> QED BY <3>4
  <2>3. TailTypeOK'
    BY <1>1, <2>1 DEF Types, TailTypeOK
  <2> QED BY <1>1, <2>1, <2>2, <2>3 DEF Types, Called
<1>2. \A l \in Key : /\ native[l].number + batches <= MaxBatch
                     /\ native[l].waits => native[l].number + batches < MaxBatch
                     /\ native[l].number \in Nat /\ native[l].number \in Numbers
  BY <1>0 DEF Types, Numbers
<1>a. turns' = turns \/ (turns > 0 /\ turns' = turns - 1) => /\ turns' \in 0..MaxTurn
                                                             /\ turns' <= turns
  BY <1>0
<1>b. ASSUME UNCHANGED <<page, events, emitting, batches>>, NEW stage \in Stage,
             \/ native' = native \/ native' = [native EXCEPT ![k].stage = stage],
             start' \in [Key -> {"none", "asked", "ok", "err"}],
             stop' \in [Key -> {"none", "asked", "closing", "ok", "err"}],
             turns' = turns \/ (turns > 0 /\ turns' = turns - 1)
      PROVE  Types'
  <2>1. native' \in [Key -> [stage : Stage, waits : BOOLEAN, number : Numbers,
                            lost : SUBSET Numbers]]
    BY <1>n, <1>b
  <2>2. \A l \in Key : native'[l].number = native[l].number /\ native'[l].waits = native[l].waits
    BY <1>0, <1>b, SMTT(30)
  <2>3. batches' \in 0..MaxBatch /\ batches' = batches
    BY <1>0, <1>b
  <2>4. UNCHANGED page /\ emitting' = emitting /\ events' = events
    BY <1>b
  <2>5. \A l \in Key : /\ native'[l].number + batches' <= MaxBatch
                       /\ native'[l].waits => native'[l].number + batches' < MaxBatch
    BY <1>2, <2>2, <2>3
  <2> QED BY <1>0, <1>1, <1>a, <1>b, <2>1, <2>3, <2>4, <2>5
<1>3. CASE Subscribe(k)
  <2>1. /\ UNCHANGED <<page, events, emitting, batches, stop>>
        /\ native' = native \/ native' = [native EXCEPT ![k].stage = "subscribed"]
        /\ start' = start \/ start' = [start EXCEPT ![k] = "err"]
        /\ turns' = turns \/ (turns > 0 /\ turns' = turns - 1)
    BY <1>3 DEF Subscribe
  <2>2. start' \in [Key -> {"none", "asked", "ok", "err"}]
    BY <1>0, <2>1
  <2> QED BY <1>0, <1>b, <2>1, <2>2 DEF Stage
<1>4. CASE Register(k)
  <2>1. /\ UNCHANGED <<page, events, emitting, batches, stop, turns>>
        /\ native' = [native EXCEPT ![k].stage = "registered"]
        /\ start' = [start EXCEPT ![k] = "ok"]
    BY <1>4 DEF Register
  <2>2. start' \in [Key -> {"none", "asked", "ok", "err"}]
    BY <1>0, <2>1
  <2> QED BY <1>0, <1>b, <2>1, <2>2 DEF Stage
<1>5. CASE Capture(k)
  <2>1. /\ UNCHANGED <<page, emitting, turns, start, stop, events>>
        /\ native' = [native EXCEPT ![k].waits = TRUE]
        /\ batches > 0 /\ batches' = batches - 1
    BY <1>5 DEF Capture, wires
  <2>2. native' \in [Key -> [stage : Stage, waits : BOOLEAN, number : Numbers,
                            lost : SUBSET Numbers]]
    BY <1>0, <2>1, ZenonT(60)
  <2>3. \A l \in Key : native'[l].number = native[l].number
    BY <1>0, <2>1
  <2>4. batches' \in 0..MaxBatch /\ turns' \in 0..MaxTurn /\ turns' <= turns
    BY <1>0, <2>1
  <2>5. \A l \in Key : native[l].number + batches' < MaxBatch
    BY <1>0, <1>2, <2>1
  <2>6. \A l \in Key : native'[l].number + batches' < MaxBatch
    BY <2>3, <2>5, Zenon
  <2>7. \A l \in Key : /\ native'[l].number + batches' <= MaxBatch
                       /\ native'[l].waits => native'[l].number + batches' < MaxBatch
    <3>1. \A l \in Key : native'[l].number \in Nat
      BY <1>2, <2>3
    <3>2. batches' \in Nat
      BY <2>4
    <3> QED BY <1>0, <2>6, <3>1, <3>2
  <2> QED BY <1>0, <1>1, <2>1, <2>2, <2>4, <2>7
<1>6. CASE Take(k)
  <2>1. /\ UNCHANGED <<page, batches, turns, start, stop, events>>
        /\ native[k].waits
        /\ native' = [native EXCEPT ![k].waits = FALSE, ![k].number = @ + 1]
        /\ emitting' = [emitting EXCEPT ![k] = {native[k].number}]
    BY <1>6 DEF Take, wires
  <2>2. native[k].number + 1 \in Numbers /\ native[k].number + 1 + batches <= MaxBatch
    BY <1>0, <1>2, <2>1 DEF Numbers
  <2>3. native' \in [Key -> [stage : Stage, waits : BOOLEAN, number : Numbers,
                            lost : SUBSET Numbers]]
    BY <1>n, <2>1, <2>2
  <2>4. emitting' \in [Key -> SUBSET Numbers]
    BY <1>0, <1>2, <2>1
  <2>5. batches' \in 0..MaxBatch /\ turns' \in 0..MaxTurn /\ turns' <= turns
    BY <1>0, <2>1
  <2>6. ASSUME NEW l \in Key
        PROVE  /\ native'[l].number + batches' <= MaxBatch
               /\ native'[l].waits => native'[l].number + batches' < MaxBatch
    <3>1. CASE l = k
      <4>1. native'[l].number = native[k].number + 1 /\ ~native'[l].waits
        BY <1>0, <2>1, <3>1
      <4> QED BY <2>1, <2>2, <4>1
    <3>2. CASE l # k
      <4>1. native'[l] = native[l]
        BY <1>0, <2>1, <3>2
      <4> QED BY <1>2, <2>1, <4>1
    <3> QED BY <3>1, <3>2
  <2> QED BY <1>0, <1>1, <2>1, <2>3, <2>4, <2>5, <2>6
<1>7. CASE Emit(k)
  <2> PICK n \in emitting[k] :
        /\ emitting' = [emitting EXCEPT ![k] = @ \ {n}]
        /\ \/ /\ events' = Append(events, [key |-> k, number |-> n, lost |-> native[k].lost])
              /\ native' = [native EXCEPT ![k].lost = {}]
              /\ UNCHANGED turns
           \/ /\ turns > 0 /\ turns' = turns - 1
              /\ native' = [native EXCEPT ![k].lost = @ \cup {n}]
              /\ UNCHANGED events
        /\ UNCHANGED <<batches, start, stop, page>>
    BY <1>7 DEF Emit
  <2>1. n \in Numbers
    BY <1>m
  <2>2. native' \in [Key -> [stage : Stage, waits : BOOLEAN, number : Numbers,
                            lost : SUBSET Numbers]]
    BY <1>n, <2>1
  <2>3. emitting' \in [Key -> SUBSET Numbers]
    BY <1>m
  <2>4. events' \in Seq([key : Key, number : Numbers, lost : SUBSET Numbers])
    <3> DEFINE batch == [key |-> k, number |-> n, lost |-> native[k].lost]
    <3>1. batch \in [key : Key, number : Numbers, lost : SUBSET Numbers]
      BY <1>n, <2>1
    <3>2. events \in Seq([key : Key, number : Numbers, lost : SUBSET Numbers])
      BY <1>0
    <3>3. events' = events \/ events' = Append(events, batch)
      OBVIOUS
    <3>4. \A B : events \in Seq(B) /\ batch \in B => Append(events, batch) \in Seq(B)
      OBVIOUS
    <3> HIDE DEF batch
    <3> QED BY <3>1, <3>2, <3>3, <3>4, Zenon
  <2>5. \A l \in Key : native'[l].number = native[l].number /\ native'[l].waits = native[l].waits
    BY <1>0
  <2>6. batches' \in 0..MaxBatch /\ batches' = batches /\ turns' \in 0..MaxTurn /\ turns' <= turns
    BY <1>0
  <2>7. \A l \in Key : /\ native'[l].number + batches' <= MaxBatch
                       /\ native'[l].waits => native'[l].number + batches' < MaxBatch
    BY <1>2, <2>5, <2>6
  <2> QED BY <1>0, <1>1, <2>2, <2>3, <2>4, <2>6, <2>7
<1>8. CASE StopRuns(k)
  <2>1. /\ UNCHANGED <<page, events, emitting, batches, start, turns>>
        /\ native' = native \/ native' = [native EXCEPT ![k].stage = "closing"]
        /\ \E answer \in {"closing", "err"} : stop' = [stop EXCEPT ![k] = answer]
    BY <1>8 DEF StopRuns
  <2>2. stop' \in [Key -> {"none", "asked", "closing", "ok", "err"}]
    BY <1>0, <2>1
  <2> QED BY <1>0, <1>b, <2>1, <2>2 DEF Stage
<1>9. CASE Closed(k)
  <2>1. /\ UNCHANGED <<page, events, emitting, batches, start, turns>>
        /\ native' = [native EXCEPT ![k].stage = "closed"]
        /\ stop' = [stop EXCEPT ![k] = "ok"]
    BY <1>9 DEF Closed
  <2>2. stop' \in [Key -> {"none", "asked", "closing", "ok", "err"}]
    BY <1>0, <2>1
  <2> QED BY <1>0, <1>b, <2>1, <2>2 DEF Stage
<1> QED
  BY <1>3, <1>4, <1>5, <1>6, <1>7, <1>8, <1>9

\* The types are those parts, and those of the native side.
LEMMA PartsOf ==
  ASSUME Types
  PROVE  Wired /\ Counted /\ Viewed /\ Listed /\ Seen /\ Snapped /\ Reported /\ Called
<1>1. Wired /\ Listed /\ Seen /\ Snapped /\ Reported
  BY DEF Types, TailTypeOK, Wired, Listed, Seen, Snapped, Reported
<1>2. Counted
  BY TailAssumption DEF Types, TailTypeOK, Counted
<1>3. Viewed
  BY DEF Types, TailTypeOK, Viewed, Views
<1>4. Called
  BY DEF Types
<1> QED BY <1>1, <1>2, <1>3, <1>4

\* A step of the page keeps the types if it keeps its parts.
LEMMA PartsMake ==
  ASSUME Types, UNCHANGED <<native, emitting, batches>>,
         Wired', Counted', Viewed', Listed', Seen', Snapped', Reported', Called'
  PROVE  Types'
<1>1. source' \in 0..MaxTurn /\ turns' \in 0..MaxTurn
  <2>1. \A a, b, c \in Nat : a + b <= c => a \in 0..c /\ b \in 0..c
    OBVIOUS
  <2> QED BY <2>1, TailAssumption DEF Counted
<1>2. shown'.tail \in {0} \cup TailId
  BY TailAssumption DEF Viewed, Views, TailId
<1>3. TailTypeOK'
  BY <1>1, <1>2 DEF Types, TailTypeOK, Wired, Viewed, Views, Listed, Seen, Snapped, Reported
<1> QED BY <1>3 DEF Types, Counted, Viewed, Snapped, Called

\* What a step of the page leaves alone keeps its types.
LEMMA PartsKept ==
  /\ Wired /\ UNCHANGED wires => Wired'
  /\ Counted /\ UNCHANGED <<source, turns>> => Counted'
  /\ Viewed /\ UNCHANGED <<tails, active, shown>> => Viewed'
  /\ Listed /\ UNCHANGED <<loaded, starting, answered, pending>> => Listed'
  /\ Seen /\ UNCHANGED <<received, applied>> => Seen'
  /\ Snapped /\ UNCHANGED snapshot => Snapped'
  /\ Reported /\ UNCHANGED told => Reported'
  /\ Called /\ UNCHANGED <<halting, clearing>> => Called'
BY DEF Wired, Counted, Viewed, Listed, Seen, Snapped, Reported, Called, wires

\* A stop asked for is of a tail, and so is what is remembered to be stopped.
LEMMA AskTypes ==
  ASSUME Wired, Listed, NEW keys \in SUBSET Key, AskStops(keys)
  PROVE  /\ stop' \in [Key -> {"none", "asked", "closing", "ok", "err"}]
         /\ pending' \subseteq Key
  BY DEF Wired, Listed, AskStops

\* Of each tail none or one set of numbers is remembered.
LEMMA SnapTypes ==
  ASSUME Snapped, NEW had \in [Key -> SUBSET Numbers], NEW keys,
         snapshot' = [k \in Key |-> IF k \in keys THEN {had[k]} ELSE snapshot[k]]
  PROVE  Snapped'
<1>1. \A k \in Key : snapshot'[k] = {had[k]} \/ snapshot'[k] = snapshot[k]
  OBVIOUS
<1>2. \A k \in Key : Cardinality(snapshot'[k]) < 2
  BY <1>1, OnceRemembered DEF Snapped
<1>3. snapshot' \in [Key -> SUBSET SUBSET Numbers]
  BY DEF Snapped
<1> QED BY <1>2, <1>3 DEF Snapped

\* What is forgotten is nothing.
LEMMA ForgetTypes ==
  ASSUME NEW keys
  PROVE  /\ Snapped /\ snapshot' = Forgotten(snapshot, keys) => Snapped'
         /\ Seen /\ received' = Forgotten(received, keys) /\ UNCHANGED applied => Seen'
<1>1. ASSUME Snapped, snapshot' = Forgotten(snapshot, keys)
      PROVE  Snapped'
  <2>1. \A k \in Key : snapshot'[k] = {} \/ snapshot'[k] = snapshot[k]
    BY <1>1 DEF Forgotten
  <2>2. \A k \in Key : Cardinality(snapshot'[k]) < 2
    BY <1>1, <2>1, OnceRemembered DEF Snapped
  <2>3. snapshot' \in [Key -> SUBSET SUBSET Numbers]
    BY <1>1 DEF Snapped, Forgotten
  <2> QED BY <2>2, <2>3 DEF Snapped
<1>2. ASSUME Seen, received' = Forgotten(received, keys), UNCHANGED applied
      PROVE  Seen'
  BY <1>2 DEF Seen, Forgotten
<1> QED BY <1>1, <1>2

\* What the answer of a stop reports are numbers of batches.
LEMMA GapTypes ==
  ASSUME Types, NEW k \in Key, NEW had
  PROVE  /\ FinalGaps(k, had) \subseteq Channels \X Numbers
         /\ \A n \in Numbers : Missing(k, n) \subseteq Numbers
<1>1. native[k].number \in Numbers /\ native[k].lost \subseteq Numbers
  BY DEF Types, TailTypeOK
<1>2. \A n \in Numbers : Upto(n) \subseteq Numbers
  BY TailAssumption DEF Upto, Numbers
<1>3. k[2] \in Channels
  BY DEF Key
<1> QED BY <1>1, <1>2, <1>3 DEF FinalGaps, Gaps, Missing

\* A start of the page: the tail it has is the last one started.
LEMMA StartTypes ==
  ASSUME Types, startLiveTail, tails < MaxTail
  PROVE  /\ start' \in [Key -> {"none", "asked", "ok", "err"}]
         /\ stop' \in [Key -> {"none", "asked", "closing", "ok", "err"}]
         /\ tails' \in 0..MaxTail /\ tails <= tails'
         /\ active' \in Views /\ active'.tail = tails'
         /\ starting' \subseteq TailId /\ pending' \subseteq Key
         /\ Snapped' /\ Reported'
<1> DEFINE superseded == Keys(active.tail, active.channels) \ Unanswered
<1>0. Wired /\ Viewed /\ Listed /\ Seen /\ Snapped
  BY PartsOf
<1>1. superseded \cup pending \in SUBSET Key
  BY <1>0 DEF Listed, Keys
<1>2. /\ tails' = tails + 1 /\ told' = {}
      /\ snapshot' = [k \in Key |-> IF k \in superseded THEN {received[k]} ELSE snapshot[k]]
      /\ AskStops(superseded \cup pending)
      /\ active' = [tail |-> tails', channels |-> loaded] /\ starting' = starting \cup {tails'}
      /\ start' = [k \in Key |-> IF k \in Keys(tails', loaded) THEN "asked" ELSE start[k]]
  BY DEF startLiveTail, captureTailSequenceSnapshot
<1> HIDE DEF superseded
<1>3. tails' \in 0..MaxTail /\ tails <= tails' /\ tails' \in TailId
  BY <1>0, <1>2, TailAssumption DEF Viewed, TailId
<1>4. active' \in Views /\ active'.tail = tails' /\ starting' \subseteq TailId /\ Reported'
  BY <1>0, <1>2, <1>3 DEF Listed, Views, Reported
<1>5. start' \in [Key -> {"none", "asked", "ok", "err"}]
  BY <1>0, <1>2 DEF Wired
<1>6. Snapped'
  BY <1>0, <1>2, SnapTypes DEF Seen
<1> QED BY <1>0, <1>1, <1>2, <1>3, <1>4, <1>5, <1>6, AskTypes

\* The steps of the page keep the types: one case per call, answer and batch.
LEMMA PageTypes ==
  ASSUME Types,
         \/ StartLive \/ StopLive \/ NewSource \/ (\E c \in Channels : ClearChannel(c))
         \/ Continuations \/ Listen \/ ChannelCleared \/ ClearFails
         \/ \E k \in Key : StartAnswered(k) \/ StopAnswered(k)
  PROVE  Types'
<1>0. Wired /\ Counted /\ Viewed /\ Listed /\ Seen /\ Snapped /\ Reported /\ Called
  BY PartsOf
<1>a. active \in Views /\ shown \in Views /\ tails \in Nat /\ MaxTail \in Nat /\ tails <= MaxTail
  BY <1>0, TailAssumption DEF Viewed
<1>k. [k \in Key |-> Known(k)] \in [Key -> SUBSET Numbers]
  BY KnownType
<1>1. ASSUME StartLive
      PROVE  Types'
  <2>1. /\ startLiveTail /\ tails < MaxTail
        /\ UNCHANGED <<nativeVars, events, source, shown, loaded, answered, received, halting,
                       clearing, applied>>
    BY <1>1 DEF StartLive
  <2>2. Wired'
    BY <1>0, <2>1, StartTypes DEF Wired
  <2>3. Viewed'
    <3>1. /\ tails' \in 0..MaxTail /\ tails <= tails' /\ active' \in Views
          /\ active'.tail = tails'
      BY <2>1, StartTypes
    <3>2. shown'.tail <= tails'
      BY <1>0, <1>a, <2>1, <3>1 DEF Viewed, Views
    <3> QED BY <1>0, <2>1, <3>1, <3>2 DEF Viewed
  <2>4. Listed'
    BY <1>0, <2>1, StartTypes DEF Listed
  <2>5. Snapped' /\ Reported'
    BY <2>1, StartTypes
  <2> QED BY <1>0, <2>1, <2>2, <2>3, <2>4, <2>5, PartsKept, PartsMake DEF nativeVars
<1>2. ASSUME StopLive
      PROVE  Types'
  <2> DEFINE t == shown.tail  keys == Keys(t, shown.channels)
  <2>1. /\ t # 0 /\ keys \in SUBSET Key
        /\ snapshot' = [k \in Key |-> IF k \in keys THEN {Known(k)} ELSE snapshot[k]]
        /\ AskStops(keys)
        /\ halting' = [tail |-> t, received |-> [c \in shown.channels |-> Known(<<t, c>>)],
                       out |-> [c \in shown.channels |-> "wait"]]
        /\ UNCHANGED <<nativeVars, start, events, source, active, shown, loaded, starting,
                       answered, received, told, clearing, tails, applied>>
    BY <1>2 DEF StopLive, Keys
  <2>2. t \in TailId /\ shown.channels \subseteq Channels
    BY <1>0, <1>a, <2>1 DEF Views, TailId
  <2>3. \A c \in shown.channels : Known(<<t, c>>) \in SUBSET Numbers
    BY <2>2, KnownType DEF Key
  <2>4. halting' \in Halt
    BY <2>1, <2>2, <2>3 DEF Halt
  <2>5. Called'
    BY <1>0, <2>1, <2>4 DEF Called
  <2> HIDE DEF keys
  <2>6. Snapped'
    <3>1. snapshot' = [k \in Key |-> IF k \in keys THEN {[l \in Key |-> Known(l)][k]}
                                     ELSE snapshot[k]]
      BY <2>1
    <3> QED BY <1>0, <1>k, <3>1, SnapTypes
  <2>7. Wired' /\ Listed'
    BY <1>0, <2>1, AskTypes DEF Wired, Listed
  <2> QED BY <1>0, <2>1, <2>5, <2>6, <2>7, PartsKept, PartsMake DEF nativeVars
<1>3. ASSUME NewSource
      PROVE  Types'
  <2> DEFINE stale == Keys(active.tail, active.channels)
  <2>1. /\ turns > 0 /\ turns' = turns - 1 /\ source' = source + 1
        /\ snapshot' = [k \in Key |-> IF k \in stale THEN {received[k]} ELSE snapshot[k]]
        /\ AskStops((stale \ Unanswered) \cup pending)
        /\ active' = NoTail /\ shown' = NoTail /\ told' = {} /\ loaded' = Channels
        /\ received' = [k \in Key |-> {}]
        /\ UNCHANGED <<native, emitting, batches, start, events, starting, answered, halting,
                       clearing, tails, applied>>
    BY <1>3 DEF NewSource, captureTailSequenceSnapshot
  <2>2. (stale \ Unanswered) \cup pending \in SUBSET Key
    BY <1>0 DEF Listed, Keys
  <2> HIDE DEF stale
  <2>3. Wired' /\ Listed'
    BY <1>0, <2>1, <2>2, AskTypes DEF Wired, Listed
  <2>4. Counted'
    BY <1>0, <2>1, TailAssumption DEF Counted
  <2>5. Viewed'
    BY <1>0, <1>a, <2>1 DEF Viewed, Views, NoTail
  <2>6. Seen' /\ Reported'
    BY <1>0, <2>1 DEF Seen, Reported
  <2>7. Snapped'
    BY <1>0, <2>1, SnapTypes DEF Seen
  <2> QED BY <1>0, <2>1, <2>3, <2>4, <2>5, <2>6, <2>7, PartsKept, PartsMake
<1>4. ASSUME NEW c \in Channels, ClearChannel(c)
      PROVE  Types'
  <2> DEFINE k == <<shown.tail, c>>
  <2>1. /\ turns > 0 /\ turns' = turns - 1 /\ tails < MaxTail
        /\ UNCHANGED <<native, emitting, batches, start, events, source, shown, loaded, starting,
                       answered, received, told, tails, applied>>
    BY <1>4 DEF ClearChannel
  <2>2. Counted'
    BY <1>0, <2>1, TailAssumption DEF Counted
  <2>3. shown.tail \in 0..(MaxTail - 1) /\ source \in Nat
    BY <1>0, <1>a, <2>1 DEF Views, Viewed, Counted
  <2>4. CASE c \in shown.channels
    <3>1. /\ active' = (IF active.tail = shown.tail
                        THEN [active EXCEPT !.channels = @ \ {c}] ELSE active)
          /\ snapshot' = [snapshot EXCEPT ![k] = {Known(k)}]
          /\ AskStops({k}) /\ halting' = Outdated(k)
          /\ clearing' = [step |-> "stop", channel |-> c, tail |-> shown.tail, source |-> source,
                          tailing |-> TRUE, received |-> Known(k)]
      BY <1>4, <2>4 DEF ClearChannel
    <3>2. shown.tail # 0 /\ k \in Key
      BY <1>0, <1>a, <2>4 DEF Viewed, Views, Key, TailId
    <3> HIDE DEF k
    <3>3. Wired' /\ Listed'
      BY <1>0, <2>1, <3>1, <3>2, AskTypes DEF Wired, Listed
    <3>4. Viewed'
      <4>1. active' \in Views /\ active'.tail = active.tail
        BY <1>a, <3>1 DEF Views
      <4> QED BY <1>0, <2>1, <4>1 DEF Viewed
    <3>5. Snapped'
      <4>1. snapshot' = [l \in Key |-> IF l \in {k} THEN {[m \in Key |-> Known(m)][l]}
                                       ELSE snapshot[l]]
        BY <1>0, <3>1, <3>2 DEF Snapped
      <4> QED BY <1>0, <1>k, <4>1, SnapTypes
    <3>6. Called'
      <4>1. Known(k) \in SUBSET Numbers
        BY <3>2, KnownType
      <4>2. clearing' \in Clear /\ clearing'.tail # 0 /\ clearing'.tailing
        BY <2>3, <3>1, <3>2, <4>1 DEF Clear
      <4>3. halting' = NoHalt \/ halting' \in Halt
        BY <1>0, <3>1, <3>2, OutdatedKeeps DEF Outdated
      <4> QED BY <4>2, <4>3 DEF Called
    <3> QED BY <1>0, <2>1, <2>2, <3>3, <3>4, <3>5, <3>6, PartsKept, PartsMake
  <2>5. CASE c \notin shown.channels
    <3>1. /\ clearing' = [step |-> "clear", channel |-> c, tail |-> shown.tail,
                          source |-> source, tailing |-> FALSE, received |-> {}]
          /\ UNCHANGED <<active, snapshot, stop, pending, halting>>
      BY <1>4, <2>5 DEF ClearChannel
    <3>2. clearing' \in Clear /\ ~clearing'.tailing /\ clearing'.step = "clear"
      BY <2>3, <3>1 DEF Clear
    <3>3. Called'
      BY <1>0, <3>1, <3>2 DEF Called
    <3>4. Wired'
      BY <1>0, <2>1, <3>1 DEF Wired
    <3> QED BY <1>0, <2>1, <2>2, <3>1, <3>3, <3>4, PartsKept, PartsMake
  <2> QED BY <2>4, <2>5
<1>5. ASSUME HaltResumes
      PROVE  Types'
  <2> DEFINE t == halting.tail  out == halting.out
             remaining == {c \in DOMAIN out : out[c] = "err"}
             stopped == DOMAIN out \ remaining
             left == IF remaining = {} THEN NoTail ELSE [tail |-> t, channels |-> remaining]
  <2>1. /\ halting' = NoHalt /\ halting # NoHalt
        /\ \/ /\ shown.tail = t
              /\ told' = told \cup UNION {FinalGaps(<<t, c>>, halting.received[c]) : c \in stopped}
              /\ received' = Forgotten(received, Keys(t, stopped))
              /\ snapshot' = Forgotten(snapshot, Keys(t, stopped))
              /\ active' = IF active.tail = t THEN left ELSE active
              /\ shown' = left
           \/ /\ received' = Forgotten(received, Keys(t, DOMAIN out))
              /\ UNCHANGED <<told, snapshot, active, shown>>
        /\ UNCHANGED <<nativeVars, wires, source, loaded, starting, answered, pending, clearing,
                       tails, applied>>
    BY <1>5 DEF HaltResumes, HaltReady
  <2>2. t \in TailId /\ DOMAIN out \subseteq Channels
    BY <1>0, <2>1 DEF Called, Halt
  <2>3. left \in Views /\ (left.tail = t \/ left = NoTail)
    BY <1>a, <2>2 DEF Views, NoTail, TailId
  <2>4. left.tail = 0 => left.channels = {}
    BY <2>2 DEF NoTail, TailId
  <2>5. \A c \in stopped : FinalGaps(<<t, c>>, halting.received[c]) \subseteq Channels \X Numbers
    BY <2>2, GapTypes DEF Key
  <2>6. Reported'
    BY <1>0, <2>1, <2>5 DEF Reported
  <2>7. Called'
    BY <1>0, <2>1 DEF Called
  <2> HIDE DEF t, out, remaining, stopped, left
  <2>8. Seen' /\ Snapped'
    BY <1>0, <2>1, ForgetTypes, PartsKept
  <2>9. Viewed'
    <3>1. CASE UNCHANGED <<active, shown>>
      BY <1>0, <2>1, <3>1, PartsKept
    <3>2. CASE /\ shown' = left /\ shown.tail = t
               /\ active' = active \/ (active' = left /\ active.tail = t)
      <4>1. left.tail = 0 \/ left.tail = t
        BY <2>3 DEF NoTail
      <4>2. shown' \in Views /\ active' \in Views
        BY <1>a, <2>3, <3>2
      <4>3. active'.tail # 0 => active'.tail = tails
        BY <1>0, <3>2, <4>1 DEF Viewed
      <4>4. shown'.tail <= tails
        BY <1>0, <1>a, <3>2, <4>1 DEF Viewed
      <4> QED BY <1>0, <2>1, <2>4, <3>2, <4>2, <4>3, <4>4 DEF Viewed
    <3> QED BY <2>1, <3>1, <3>2
  <2> QED BY <1>0, <2>1, <2>6, <2>7, <2>8, <2>9, PartsKept, PartsMake DEF nativeVars
<1>6. ASSUME ClearResumes
      PROVE  Types'
  <2> DEFINE k == <<clearing.tail, clearing.channel>>
  <2>1. /\ clearing.step \in {"ok", "err"}
        /\ \/ /\ active' = (IF active.tail = clearing.tail
                            THEN [active EXCEPT !.channels = @ \cup {clearing.channel}] ELSE active)
              /\ clearing' = NoClear
              /\ UNCHANGED <<told, received, snapshot>>
           \/ /\ told' = (IF StillClearing THEN told \cup FinalGaps(k, clearing.received) ELSE told)
              /\ received' = Forgotten(received, {k}) /\ snapshot' = Forgotten(snapshot, {k})
              /\ clearing' = IF StillClearing THEN [clearing EXCEPT !.step = "clear"] ELSE NoClear
              /\ UNCHANGED active
        /\ UNCHANGED <<nativeVars, wires, source, shown, loaded, starting, answered, pending,
                       halting, tails, applied>>
    BY <1>6 DEF ClearResumes, ClearReady
  <2>2. clearing \in Clear /\ clearing.tail # 0 /\ clearing.tailing
    BY <1>0, <2>1 DEF Called, NoClear
  <2>3. clearing.channel \in Channels /\ clearing.tail \in 0..(MaxTail - 1)
    BY <2>2 DEF Clear
  <2>4. Viewed'
    <3>1. active' \in Views /\ active'.tail = active.tail
      BY <1>a, <2>1, <2>3 DEF Views
    <3> QED BY <1>0, <2>1, <3>1 DEF Viewed
  <2>5. Called'
    <3>1. [clearing EXCEPT !.step = "clear"] \in Clear
      BY <2>2 DEF Clear
    <3>2. /\ [clearing EXCEPT !.step = "clear"].tailing = clearing.tailing
          /\ [clearing EXCEPT !.step = "clear"].tail = clearing.tail
          /\ [clearing EXCEPT !.step = "clear"].step = "clear"
      BY <2>2 DEF Clear
    <3> QED BY <1>0, <2>1, <2>2, <3>1, <3>2 DEF Called
  <2>8. k \in Key
    BY <2>2, <2>3, TailAssumption DEF Key, TailId
  <2> HIDE DEF k
  <2>6. Seen' /\ Snapped'
    BY <1>0, <2>1, ForgetTypes, PartsKept
  <2>7. Reported'
    <3>1. FinalGaps(k, clearing.received) \subseteq Channels \X Numbers
      BY <2>8, GapTypes
    <3> QED BY <1>0, <2>1, <3>1 DEF Reported
  <2> QED BY <1>0, <2>1, <2>4, <2>5, <2>6, <2>7, PartsKept, PartsMake DEF nativeVars
<1>7. ASSUME NEW t \in TailId, StartResumes(t)
      PROVE  Types'
  <2> DEFINE started == {c \in Channels : start[<<t, c>>] = "ok"}
  <2>1. /\ starting' = starting \ {t}
        /\ UNCHANGED <<nativeVars, start, events, source, loaded, answered, received, told,
                       halting, clearing, tails, applied>>
    BY <1>7 DEF StartResumes
  <2>2. CASE active.tail = t
    <3>1. /\ active' = [tail |-> t, channels |-> started] /\ shown' = active'
          /\ UNCHANGED <<stop, pending, snapshot>>
      BY <1>7, <2>2 DEF StartResumes
    <3>2. t # 0 /\ t = tails
      BY <1>0, <2>2 DEF Viewed, TailId
    <3>3. Viewed'
      <4>1. active' \in Views
        BY <1>a, <2>2, <3>1 DEF Views
      <4>2. tails' = tails /\ tails <= tails
        BY <1>a, <2>1
      <4> HIDE DEF started
      <4> QED BY <1>0, <3>1, <3>2, <4>1, <4>2 DEF Viewed
    <3>4. Wired' /\ Listed'
      BY <1>0, <2>1, <3>1 DEF Wired, Listed
    <3> QED BY <1>0, <2>1, <3>1, <3>3, <3>4, PartsKept, PartsMake DEF nativeVars
  <2>3. CASE active.tail # t
    <3>1. /\ snapshot' = [k \in Key |-> IF k \in Keys(t, started) THEN {received[k]}
                                        ELSE snapshot[k]]
          /\ AskStops(Keys(t, started)) /\ UNCHANGED <<active, shown>>
      BY <1>7, <2>3 DEF StartResumes, cleanupStaleTailStart, captureTailSequenceSnapshot
    <3>2. Keys(t, started) \in SUBSET Key
      BY DEF Keys
    <3> HIDE DEF started
    <3>3. Wired' /\ Listed'
      BY <1>0, <2>1, <3>1, <3>2, AskTypes DEF Wired, Listed
    <3>4. Snapped'
      BY <1>0, <3>1, SnapTypes DEF Seen
    <3> QED BY <1>0, <2>1, <3>1, <3>3, <3>4, PartsKept, PartsMake DEF nativeVars
  <2> QED BY <2>2, <2>3
<1>8. ASSUME Listen
      PROVE  Types'
  <2> DEFINE k == Head(events).key  n == Head(events).number  lost == Head(events).lost
  <2>1. /\ events # <<>> /\ events' = Tail(events)
        /\ \/ /\ active.tail = k[1]
              /\ received' = [received EXCEPT ![k] = @ \cup {n}]
              /\ applied' = [applied EXCEPT ![k] = @ \cup {n}]
              /\ told' = told \cup Gaps(k[2], Missing(k, n) \cup lost)
              /\ shown' = [tail |-> k[1], channels |-> shown.channels \cup {k[2]}]
           \/ UNCHANGED <<received, applied, told, shown>>
        /\ UNCHANGED <<nativeVars, start, stop, source, active, loaded, starting, answered,
                       pending, snapshot, halting, clearing, tails>>
    BY <1>8 DEF Listen
  <2>2. k \in Key /\ n \in Numbers /\ lost \subseteq Numbers
    <3>1. \A B : events \in Seq(B) => Head(events) \in B
      BY <2>1
    <3>2. Head(events) \in [key : Key, number : Numbers, lost : SUBSET Numbers]
      BY <1>0, <3>1, Zenon DEF Wired
    <3> QED BY <3>2
  <2>3. events' \in Seq([key : Key, number : Numbers, lost : SUBSET Numbers])
    <3>1. \A B : events \in Seq(B) => Tail(events) \in Seq(B)
      BY <2>1
    <3> QED BY <1>0, <2>1, <3>1, Zenon DEF Wired
  <2>4. k[1] \in TailId /\ k[2] \in Channels /\ Missing(k, n) \subseteq Numbers
    BY <2>2, GapTypes DEF Key
  <2> HIDE DEF k, n, lost
  <2>5. Wired'
    BY <1>0, <2>1, <2>3 DEF Wired
  <2>6. Seen'
    BY <1>0, <2>1, <2>2 DEF Seen
  <2>7. Reported'
    BY <1>0, <2>1, <2>2, <2>4 DEF Reported, Gaps
  <2>8. Viewed'
    <3>1. CASE UNCHANGED shown
      BY <1>0, <2>1, <3>1, PartsKept
    <3>2. CASE /\ active.tail = k[1]
               /\ shown' = [tail |-> k[1], channels |-> shown.channels \cup {k[2]}]
      <4>1. k[1] # 0 /\ k[1] = tails
        BY <1>0, <2>4, <3>2 DEF Viewed, TailId
      <4>2. shown' \in Views /\ shown'.tail = tails
        BY <1>a, <2>4, <3>2, <4>1 DEF Views
      <4> QED BY <1>0, <1>a, <2>1, <4>1, <4>2 DEF Viewed
    <3> QED BY <2>1, <3>1, <3>2
  <2> QED BY <1>0, <2>1, <2>5, <2>6, <2>7, <2>8, PartsKept, PartsMake DEF nativeVars
<1>9. ASSUME ChannelCleared
      PROVE  Types'
  <2> DEFINE c == clearing.channel  remaining == shown.channels \ {c}
  <2>1. /\ clearing.step = "clear" /\ clearing' = NoClear
        /\ \/ /\ active' = (IF clearing.tailing /\ remaining = {} THEN NoTail ELSE active)
              /\ shown' = (IF remaining = {} THEN NoTail ELSE [shown EXCEPT !.channels = remaining])
              /\ loaded' = loaded \ {c}
              /\ told' = {gap \in told : gap[1] # c}
           \/ UNCHANGED <<active, shown, loaded, told>>
        /\ UNCHANGED <<nativeVars, wires, source, starting, answered, pending, received,
                       snapshot, halting, tails, applied>>
    BY <1>9 DEF ChannelCleared
  <2>2. Called' /\ Reported'
    BY <1>0, <2>1 DEF Called, Reported
  <2>3. Listed'
    BY <1>0, <2>1 DEF Listed
  <2>4. NoTail \in Views /\ NoTail.tail = 0 /\ NoTail.channels = {} /\ 0 <= tails
    BY <1>a DEF Views, NoTail
  <2>5. /\ active' = active \/ active' = NoTail
        /\ \/ shown' = shown \/ shown' = NoTail
           \/ remaining # {} /\ shown' = [shown EXCEPT !.channels = remaining]
    BY <2>1
  <2>6. remaining # {} => /\ [shown EXCEPT !.channels = remaining] \in Views
                          /\ [shown EXCEPT !.channels = remaining].tail = shown.tail
                          /\ shown.tail # 0
    BY <1>0, <1>a DEF Viewed, Views
  <2> HIDE DEF c, remaining
  <2>7. Viewed'
    <3>1. tails' = tails
      BY <2>1
    <3>2. active' \in Views /\ (active'.tail # 0 => active'.tail = tails)
      BY <1>0, <2>4, <2>5 DEF Viewed
    <3>3. shown' \in Views /\ shown'.tail <= tails /\ (shown'.tail = 0 => shown'.channels = {})
      BY <1>0, <2>4, <2>5, <2>6 DEF Viewed
    <3> QED BY <1>0, <3>1, <3>2, <3>3 DEF Viewed
  <2> QED BY <1>0, <2>1, <2>2, <2>3, <2>7, PartsKept, PartsMake DEF nativeVars
<1>10. ASSUME ClearFails
       PROVE  Types'
  <2>1. /\ clearing' = NoClear
        /\ UNCHANGED <<nativeVars, events, source, shown, loaded, answered, received, halting,
                       applied>>
    BY <1>10 DEF ClearFails
  <2>2. Called'
    BY <1>0, <2>1 DEF Called
  <2>3. CASE startLiveTail /\ StillClearing /\ clearing.tailing
    <3>1. clearing \in Clear /\ clearing.tail # 0 /\ active.tail = clearing.tail
      BY <1>0, <1>10, <2>3 DEF Called, ClearFails, NoClear, StillClearing
    <3>2. tails < MaxTail
      BY <1>0, <1>a, <3>1 DEF Viewed, Clear
    <3>3. /\ start' \in [Key -> {"none", "asked", "ok", "err"}]
          /\ stop' \in [Key -> {"none", "asked", "closing", "ok", "err"}]
          /\ tails' \in 0..MaxTail /\ tails <= tails'
          /\ active' \in Views /\ active'.tail = tails'
          /\ starting' \subseteq TailId /\ pending' \subseteq Key
          /\ Snapped' /\ Reported'
      BY <2>3, <3>2, StartTypes
    <3>4. Viewed'
      <4>1. shown'.tail <= tails'
        BY <1>0, <1>a, <2>1, <3>3 DEF Viewed, Views
      <4> QED BY <1>0, <2>1, <3>3, <4>1 DEF Viewed
    <3>5. Wired' /\ Listed'
      BY <1>0, <2>1, <3>3 DEF Wired, Listed
    <3> QED BY <1>0, <2>1, <2>2, <3>3, <3>4, <3>5, PartsKept, PartsMake DEF nativeVars
  <2>4. CASE UNCHANGED <<tails, told, snapshot, pending, stop, active, starting, start>>
    <3>1. Wired' /\ Listed'
      BY <1>0, <2>1, <2>4 DEF Wired, Listed
    <3> QED BY <1>0, <2>1, <2>2, <2>4, <3>1, PartsKept, PartsMake DEF nativeVars
  <2> QED BY <1>10, <2>3, <2>4 DEF ClearFails
<1>11. ASSUME NEW k \in Key, StartAnswered(k)
       PROVE  Types'
  <2> DEFINE keys == IF start[k] = "ok" /\ active.tail # k[1] THEN {k} ELSE {}
  <2>1. /\ answered' = answered \cup {k}
        /\ snapshot' = [l \in Key |-> IF l \in keys THEN {received[l]} ELSE snapshot[l]]
        /\ AskStops(keys)
        /\ UNCHANGED <<nativeVars, start, events, source, active, shown, loaded, starting,
                       received, told, halting, clearing, tails, applied>>
    BY <1>11 DEF StartAnswered, cleanupStaleTailStart, captureTailSequenceSnapshot
  <2>2. keys \in SUBSET Key
    OBVIOUS
  <2> HIDE DEF keys
  <2>3. Wired' /\ Listed'
    BY <1>0, <2>1, <2>2, AskTypes DEF Wired, Listed
  <2>4. Snapped'
    BY <1>0, <2>1, SnapTypes DEF Seen
  <2> QED BY <1>0, <2>1, <2>3, <2>4, PartsKept, PartsMake DEF nativeVars
<1>12. ASSUME NEW k \in Key, StopAnswered(k)
       PROVE  Types'
  <2>1. /\ stop[k] \in {"ok", "err"} /\ stop' = [stop EXCEPT ![k] = "none"]
        /\ \/ /\ pending' = pending \ {k}
              /\ received' = [received EXCEPT ![k] = {}]
              /\ snapshot' = [snapshot EXCEPT ![k] = {}]
           \/ UNCHANGED <<pending, received, snapshot>>
        /\ \/ halting' = halting
           \/ /\ k \in Keys(halting.tail, DOMAIN halting.out)
              /\ halting' = [halting EXCEPT !.out[k[2]] = stop[k]]
        /\ clearing' = (IF clearing.step = "stop" /\ k = <<clearing.tail, clearing.channel>>
                        THEN [clearing EXCEPT !.step = stop[k]] ELSE clearing)
        /\ UNCHANGED <<nativeVars, start, events, source, active, shown, loaded, starting,
                       answered, told, tails, applied>>
    BY <1>12 DEF StopAnswered, Keys
  <2>2. Wired' /\ Listed'
    BY <1>0, <2>1 DEF Wired, Listed
  <2>3. Seen' /\ Snapped'
    <3>1. CASE UNCHANGED <<received, snapshot>>
      BY <1>0, <2>1, <3>1, PartsKept
    <3>2. CASE received' = [received EXCEPT ![k] = {}] /\ snapshot' = [snapshot EXCEPT ![k] = {}]
      <4>1. received' = Forgotten(received, {k}) /\ snapshot' = Forgotten(snapshot, {k})
        BY <1>0, <3>2 DEF Forgotten, Seen, Snapped
      <4> QED BY <1>0, <2>1, <4>1, ForgetTypes
    <3> QED BY <2>1, <3>1, <3>2
  <2>4. halting' = NoHalt \/ halting' \in Halt
    BY <1>0, <2>1, OutdatedKeeps
  <2>5. Called'
    <3>1. CASE clearing' = clearing
      BY <1>0, <2>4, <3>1 DEF Called
    <3>2. CASE clearing.step = "stop" /\ clearing' = [clearing EXCEPT !.step = stop[k]]
      <4>1. clearing \in Clear /\ clearing.tailing /\ clearing.tail # 0
        BY <1>0, <3>2 DEF Called, NoClear
      <4>2. clearing' \in Clear /\ clearing'.tailing /\ clearing'.tail # 0
        BY <2>1, <3>2, <4>1 DEF Clear
      <4> QED BY <2>4, <4>2 DEF Called
    <3> QED BY <2>1, <3>1, <3>2
  <2> QED BY <1>0, <2>1, <2>2, <2>3, <2>5, PartsKept, PartsMake DEF nativeVars
<1> QED
  BY <1>1, <1>2, <1>3, <1>4, <1>5, <1>6, <1>7, <1>8, <1>9, <1>10, <1>11, <1>12 DEF Continuations

----------------------------------------------------------------------------
(* The theorems *)

\* The first state has it.
LEMMA InvInit == Init => TailInv
<1> SUFFICES ASSUME Init PROVE TailInv
  OBVIOUS
<1>1. /\ native = [k \in Key |-> [stage |-> "none", waits |-> FALSE, number |-> 0, lost |-> {}]]
      /\ emitting = [k \in Key |-> {}]
      /\ start = [k \in Key |-> "none"] /\ stop = [k \in Key |-> "none"] /\ events = <<>>
      /\ source = 0 /\ active = NoTail /\ shown = NoTail /\ loaded = Channels
      /\ starting = {} /\ answered = {} /\ pending = {}
      /\ received = [k \in Key |-> {}] /\ snapshot = [k \in Key |-> {}] /\ told = {}
      /\ halting = NoHalt /\ clearing = NoClear
      /\ tails = 0 /\ batches = MaxBatch /\ turns = MaxTurn
      /\ applied = [k \in Key |-> {}]
  BY DEF Init
<1>2. MaxTail \in Nat /\ MaxBatch \in Nat /\ MaxTurn \in Nat
  BY TailAssumption
<1>3. Types
  <2>1. native \in [Key -> [stage : Stage, waits : BOOLEAN, number : Numbers,
                           lost : SUBSET Numbers]]
    BY <1>1, <1>2 DEF Stage, Numbers
  <2>2. \A k \in Key : native[k].number = 0 /\ ~native[k].waits
    BY <1>1
  <2>3. \A k \in Key : Cardinality(snapshot[k]) < 2
    BY <1>1, OnceRemembered
  <2>4. {active, shown} \subseteq [tail : 0..MaxTail, channels : SUBSET Channels]
    BY <1>1, <1>2 DEF NoTail
  <2>5. active.tail = 0 /\ shown.tail = 0 /\ shown.channels = {}
    BY <1>1 DEF NoTail
  <2>6. TailTypeOK
    BY <1>1, <1>2, <2>1, <2>3, <2>4, <2>5 DEF TailTypeOK
  <2> QED BY <1>1, <1>2, <2>2, <2>5, <2>6 DEF Types, Called
<1>4. Stages
  BY <1>1 DEF Stages, Unanswered
<1>5. Owners
  BY <1>1 DEF Owners, Runs, Running, Halted, Cleared
<1> QED BY <1>3, <1>4, <1>5 DEF TailInv

\* The commands, the callbacks and the page together.
LEMMA TypesKept == ASSUME Types, [Next]_vars PROVE Types'
<1>1. CASE UNCHANGED vars
  BY <1>1 DEF vars, nativeVars, wires, page, Types, TailTypeOK, Called
<1>2. CASE Next
  BY <1>2, NativeTypes, PageTypes DEF Next, SystemSteps, UserSteps
<1> QED BY <1>1, <1>2

LEMMA InvKept == ASSUME ~Early, TailInv, [Next]_vars PROVE TailInv'
<1>1. Types'
  BY TypesKept DEF TailInv
<1>2. CASE UNCHANGED vars
  BY <1>1, <1>2 DEF vars, nativeVars, wires, page, TailInv, Stages, Owners, Unanswered, Runs,
                    Owned, Halted, Cleared, Keys
<1>3. CASE Next
  <2>1. ASSUME NEW k \in Key,
               \/ Subscribe(k) \/ Register(k) \/ Capture(k) \/ Take(k) \/ Emit(k) \/ StopRuns(k)
               \/ Closed(k)
        PROVE  Stages' /\ Owners'
    <3>1. UNCHANGED page
      BY <2>1 DEF Subscribe, Register, Capture, Take, Emit, StopRuns, Closed
    <3> QED BY <2>1, <3>1, NativeStages, NativeOwners DEF TailInv
  <2> QED BY <1>1, <1>3, <2>1, PageKept DEF TailInv, Next, SystemSteps, UserSteps
<1> QED BY <1>2, <1>3

\* It holds of every state, where no tail is stopped, and no channel cleared, before its start is
\* through.
THEOREM TailInvariant == ASSUME ~Early PROVE Spec => []TailInv
<1>1. TailInv /\ [Next]_vars => TailInv'
  BY InvKept
<1> QED
  BY <1>1, InvInit, PTL DEF Spec

\* The types: the numbers of a tail, the sources and the tails stay within their bounds, whenever a
\* tail is stopped or a channel cleared.
THEOREM TailTypes == Spec => []TailTypeOK
<1>1. Types /\ [Next]_vars => Types'
  BY TypesKept
<1>2. Init => Types
  BY InvInit DEF TailInv
<1>3. Types => TailTypeOK
  BY DEF Types
<1> QED
  BY <1>1, <1>2, <1>3, PTL DEF Spec

\* No tail of the native side runs that the page will not stop.
THEOREM NoOrphan == ASSUME ~Early PROVE Spec => []NoOrphanTail
<1>1. TailInv => NoOrphanTail
  BY DEF TailInv, Owners, Owned, Runs, NoOrphanTail
<1> QED
  BY <1>1, TailInvariant, PTL

----------------------------------------------------------------------------
(* The gaps *)

\* A tail has been started, and its start has been answered; it does not run, and will not again.
Over(k) == k[1] <= tails /\ start[k] # "asked"
Gone(k) == Over(k) /\ ~Runs(k)

\* A stop is asked for when the start is answered, and when it is answered the tail is gone: what
\* stopLiveTail and clearChannel have been told is so.
StopEnds ==
  \A k \in Key :
    /\ native[k].stage = "subscribed" => start[k] = "asked"
    /\ native[k].stage = "closing" \/ stop[k] # "none" \/ k \in pending => Over(k)
    /\ stop[k] \in {"ok", "err"} => Gone(k)
HaltEnds ==
  halting # NoHalt =>
    \A k \in Keys(halting.tail, DOMAIN halting.out) :
      Over(k) /\ (IF halting.out[k[2]] = "wait" THEN stop[k] # "none" ELSE Gone(k))
ClearEnds ==
  clearing # NoClear /\ clearing.tailing =>
    \A k \in Keys(clearing.tail, {clearing.channel}) :
      Over(k) /\ (clearing.step # "stop" => Gone(k))
Ends == StopEnds /\ HaltEnds /\ ClearEnds

\* The numbers of a tail are emitted, and applied, in their order.
Ordered ==
  /\ \A k \in Key : \A n \in emitting[k] : n + 1 = native[k].number
  /\ \A i, j \in DOMAIN events :
       i < j /\ events[i].key = events[j].key => events[i].number < events[j].number
  /\ \A i \in DOMAIN events :
       /\ events[i].number < native[events[i].key].number
       /\ \A n \in emitting[events[i].key] : events[i].number < n
  /\ \A k \in Key : \A n \in applied[k] :
       /\ n < native[k].number
       /\ \A m \in emitting[k] : n < m
       /\ \A i \in DOMAIN events : events[i].key = k => n < events[i].number

\* A number that was taken, and whose batch is neither in the view nor on its way to it.
Missed(k, n) ==
  /\ n < native[k].number
  /\ n \notin applied[k] /\ n \notin emitting[k]
  /\ \A i \in DOMAIN events : events[i].key = k => events[i].number # n

\* Losses are of such numbers, and so is what is reported of a channel while its tail is the page's
\* own and may run: of that tail the page remembers every batch it has applied.
Losses ==
  /\ \A k \in Key : \A n \in native[k].lost : Missed(k, n)
  /\ \A i \in DOMAIN events : \A n \in events[i].lost : Missed(events[i].key, n)
Telling ==
  /\ active.tail = 0 => active.channels = {}
  /\ \A k \in Key : applied[k] # {} => k[1] <= tails
  /\ \A k \in Key : k[1] = active.tail /\ ~Gone(k) =>
       /\ received[k] = applied[k]
       /\ \A n \in Numbers : <<k[2], n>> \in told => Missed(k, n)

GapInv == TailInv /\ Ends /\ Ordered /\ Losses /\ Telling
\* What a start of the page leaves as it is: a tail that has been started is not started again.
LEMMA StartKeeps ==
  ASSUME Types, startLiveTail, UNCHANGED native, NEW k \in Key
  PROVE  (Over(k) => Over(k)') /\ (Gone(k) => Gone(k)')
<1>0. tails \in Nat /\ k[1] \in Nat
  BY TailAssumption DEF Types, TailTypeOK, Key, TailId
<1>1. tails' = tails + 1 /\ start' = [l \in Key |-> IF l \in Keys(tails', loaded) THEN "asked"
                                                    ELSE start[l]]
  BY DEF startLiveTail
<1>2. k[1] <= tails => start'[k] = start[k] /\ k[1] <= tails'
  BY <1>0, <1>1 DEF Keys
<1> QED BY <1>2 DEF Over, Gone, Runs

\* A tail that is over stays so, and one that is gone.
LEMMA GoneKept ==
  ASSUME Types, [Next]_vars, NEW k \in Key
  PROVE  (Over(k) => Over(k)') /\ (Gone(k) => Gone(k)')
<1>0. /\ native \in [Key -> [stage : Stage, waits : BOOLEAN, number : Numbers,
                             lost : SUBSET Numbers]]
      /\ start \in [Key -> {"none", "asked", "ok", "err"}]
  BY DEF Types, TailTypeOK
<1>1. CASE UNCHANGED <<native, start, tails>>
  BY <1>1 DEF Over, Gone, Runs
<1>2. ASSUME NEW l \in Key, Subscribe(l)
      PROVE  (Over(k) => Over(k)') /\ (Gone(k) => Gone(k)')
  BY <1>0, <1>2 DEF Subscribe, Over, Gone, Runs, Running, page
<1>3. ASSUME NEW l \in Key, Register(l)
      PROVE  (Over(k) => Over(k)') /\ (Gone(k) => Gone(k)')
  BY <1>0, <1>3 DEF Register, Over, Gone, Runs, Running, page
<1>4. ASSUME NEW l \in Key, Capture(l) \/ Take(l) \/ Emit(l)
      PROVE  (Over(k) => Over(k)') /\ (Gone(k) => Gone(k)')
  <2>1. CASE Capture(l) \/ Take(l)
    BY <1>0, <2>1 DEF Capture, Take, wires, page, Over, Gone, Runs
  <2>2. CASE Emit(l)
    <3>1. native'[k].stage = native[k].stage /\ UNCHANGED <<start, tails>>
      BY <1>0, <2>2 DEF Emit, page
    <3> QED BY <3>1 DEF Over, Gone, Runs
  <2> QED BY <1>4, <2>1, <2>2
<1>5. ASSUME NEW l \in Key, StopRuns(l) \/ Closed(l)
      PROVE  (Over(k) => Over(k)') /\ (Gone(k) => Gone(k)')
  <2>1. /\ native'[k].stage = native[k].stage \/ native'[k].stage \in {"closing", "closed"}
        /\ UNCHANGED <<start, tails>>
    BY <1>0, <1>5 DEF StopRuns, Closed, page
  <2> QED BY <2>1 DEF Over, Gone, Runs, Running
<1>6. ASSUME StartLive \/ ClearFails
      PROVE  (Over(k) => Over(k)') /\ (Gone(k) => Gone(k)')
  <2>1. UNCHANGED native /\ (startLiveTail \/ UNCHANGED <<start, tails>>)
    BY <1>6 DEF StartLive, ClearFails, nativeVars
  <2> QED BY <1>1, <2>1, StartKeeps
<1>7. ASSUME \/ StopLive \/ NewSource \/ (\E c \in Channels : ClearChannel(c))
             \/ Continuations \/ Listen \/ ChannelCleared
             \/ \E l \in Key : StartAnswered(l) \/ StopAnswered(l)
      PROVE  (Over(k) => Over(k)') /\ (Gone(k) => Gone(k)')
  <2>1. UNCHANGED <<native, start, tails>>
    BY <1>7 DEF StopLive, NewSource, ClearChannel, Continuations, HaltResumes, ClearResumes,
                StartResumes, Listen, ChannelCleared, StartAnswered, StopAnswered, nativeVars, wires
  <2> QED BY <1>1, <2>1
<1>8. CASE UNCHANGED vars
  BY <1>1, <1>8 DEF vars, nativeVars, wires, page
<1> QED
  BY <1>2, <1>3, <1>4, <1>5, <1>6, <1>7, <1>8 DEF Next, SystemSteps, UserSteps

\* What the calls of the page have been told stays so, and what they wait for goes on.
LEMMA HaltKept ==
  ASSUME HaltEnds, halting' \in {halting, NoHalt},
         \A k \in Key : /\ (Over(k) => Over(k)') /\ (Gone(k) => Gone(k)')
                        /\ stop[k] # "none" => stop'[k] # "none"
  PROVE  HaltEnds'
BY DEF HaltEnds, Keys

LEMMA ClearKept ==
  ASSUME ClearEnds, clearing' \in {clearing, NoClear},
         \A k \in Key : (Over(k) => Over(k)') /\ (Gone(k) => Gone(k)')
  PROVE  ClearEnds'
BY DEF ClearEnds, Keys

\* The ends of the tails, when a command or a callback takes a step.
LEMMA NativeEnds ==
  ASSUME Types, Stages, Ends, NEW k \in Key,
         \/ Subscribe(k) \/ Register(k) \/ Capture(k) \/ Take(k) \/ Emit(k) \/ StopRuns(k)
         \/ Closed(k),
         \A l \in Key : (Over(l) => Over(l)') /\ (Gone(l) => Gone(l)')
  PROVE  Ends'
<1>0. /\ native \in [Key -> [stage : Stage, waits : BOOLEAN, number : Numbers,
                             lost : SUBSET Numbers]]
      /\ start \in [Key -> {"none", "asked", "ok", "err"}]
      /\ stop \in [Key -> {"none", "asked", "closing", "ok", "err"}]
  BY DEF Types, TailTypeOK
<1>1. UNCHANGED page
  BY DEF Subscribe, Register, Capture, Take, Emit, StopRuns, Closed
<1>2. ASSUME NEW l \in Key
      PROVE  /\ native'[l].stage = "subscribed" => start'[l] = "asked"
             /\ native'[l].stage = "closing" => Over(l)'
  <2>0. Over(l) => Over(l)'
    OBVIOUS
  <2>1. CASE Capture(k) \/ Take(k)
    <3>1. native'[l].stage = native[l].stage /\ UNCHANGED start
      BY <1>0, <2>1 DEF Capture, Take, wires
    <3> QED BY <2>0, <3>1 DEF Ends, StopEnds
  <2>2. CASE Emit(k)
    <3>1. native'[l].stage = native[l].stage /\ UNCHANGED start
      BY <1>0, <2>2 DEF Emit
    <3> QED BY <2>0, <3>1 DEF Ends, StopEnds
  <2>3. CASE Subscribe(k)
    BY <1>0, <2>0, <2>3 DEF Subscribe, Ends, StopEnds
  <2>4. CASE Register(k)
    BY <1>0, <2>0, <2>4 DEF Register, Ends, StopEnds
  <2>5. CASE StopRuns(k)
    BY <1>0, <2>0, <2>5 DEF StopRuns, Ends, StopEnds
  <2>6. CASE Closed(k)
    BY <1>0, <2>0, <2>6 DEF Closed, Ends, StopEnds
  <2> QED BY <2>1, <2>2, <2>3, <2>4, <2>5, <2>6
<1>3. ASSUME NEW l \in Key
      PROVE  /\ stop'[l] # "none" => Over(l)'
             /\ stop[l] # "none" => stop'[l] # "none"
             /\ stop'[l] \in {"ok", "err"} => Gone(l)'
  <2>0. /\ stop[l] # "none" => Over(l)'
        /\ stop[l] \in {"ok", "err"} => Gone(l)'
    BY DEF Ends, StopEnds
  <2>1. CASE UNCHANGED stop
    BY <2>0, <2>1
  <2>2. CASE StopRuns(k)
    <3>1. Over(k) /\ native[k].stage # "subscribed"
      BY <2>2 DEF StopRuns, Ends, StopEnds, Over
    <3>2. stop'[k] = "err" => Gone(k)
      BY <1>0, <2>2, <3>1 DEF StopRuns, Gone, Runs, Running
    <3> QED BY <1>0, <2>0, <2>2, <3>2 DEF StopRuns
  <2>3. CASE Closed(k)
    <3>1. Over(k)'
      BY <2>3 DEF Closed, Ends, StopEnds
    <3>2. Gone(k)'
      BY <1>0, <2>3, <3>1 DEF Closed, Gone, Runs, Running
    <3> QED BY <1>0, <2>0, <2>3, <3>1, <3>2 DEF Closed
  <2> QED BY <2>1, <2>2, <2>3 DEF Subscribe, Register, Capture, Take, Emit, wires
<1>4. UNCHANGED <<pending, halting, clearing>>
  BY <1>1 DEF page
<1>5. StopEnds'
  BY <1>2, <1>3, <1>4 DEF Ends, StopEnds
<1>6. HaltEnds' /\ ClearEnds'
  BY <1>3, <1>4, HaltKept, ClearKept DEF Ends
<1> QED BY <1>5, <1>6 DEF Ends

\* A start that the page does not wait for is answered, or was not made.
LEMMA AnsweredOver ==
  ASSUME Stages, NEW k \in Key, k[1] <= tails, k \notin Unanswered
  PROVE  Over(k)
BY DEF Stages, Unanswered, Over

\* The page asks for stops of tails that are over.
LEMMA AskEnds ==
  ASSUME Types, StopEnds, UNCHANGED native, NEW more \in SUBSET Key, AskStops(more),
         \A k \in more : Over(k),
         \A k \in Key : /\ (Over(k) => Over(k)') /\ (Gone(k) => Gone(k)')
                        /\ start[k] = "asked" => start'[k] = "asked"
  PROVE  StopEnds' /\ \A k \in Key : stop[k] # "none" => stop'[k] # "none"
<1>1. /\ \A k \in Key : stop'[k] = stop[k] \/ (k \in more /\ stop[k] = "none" /\ stop'[k] = "asked")
      /\ pending' = pending \cup more
  BY DEF AskStops
<1>2. \A k \in Key : k \in more => Over(k)'
  OBVIOUS
<1> QED BY <1>1, <1>2 DEF StopEnds

LEMMA PageEnds ==
  ASSUME ~Early, Types, Stages, Ends,
         \/ StartLive \/ StopLive \/ NewSource \/ (\E c \in Channels : ClearChannel(c))
         \/ Continuations \/ Listen \/ ChannelCleared \/ ClearFails
         \/ \E k \in Key : StartAnswered(k) \/ StopAnswered(k),
         \A k \in Key : (Over(k) => Over(k)') /\ (Gone(k) => Gone(k)')
  PROVE  Ends'
<1>0. /\ stop \in [Key -> {"none", "asked", "closing", "ok", "err"}]
      /\ start \in [Key -> {"none", "asked", "ok", "err"}]
      /\ tails \in Nat /\ \A k \in Key : k[1] \in Nat
      /\ pending \subseteq Key
  BY TailAssumption, SMTT(30) DEF Types, TailTypeOK, Key, TailId
<1>a. active.tail = 0 \/ active.tail = tails
  BY DEF Types, TailTypeOK
<1>b. \A k \in Keys(active.tail, active.channels) \ Unanswered : Over(k)
  <2>1. \A k \in Key : k[1] = active.tail => k[1] <= tails
    BY <1>0, <1>a DEF Key, TailId
  <2> QED BY <2>1, AnsweredOver DEF Keys
<1>c. \A k \in pending : Over(k)
  BY <1>0 DEF Ends, StopEnds
<1>d. shown.tail \notin starting => \A k \in Keys(shown.tail, Channels) : Over(k)
  <2> SUFFICES ASSUME shown.tail \notin starting, NEW k \in Key, k[1] = shown.tail PROVE Over(k)
    BY DEF Keys
  <2>1. k \notin Unanswered
    BY DEF Stages
  <2>2. k[1] <= tails
    BY DEF Types
  <2> QED BY <2>1, <2>2, AnsweredOver
<1>1. ASSUME UNCHANGED <<native, start>>, NEW more \in SUBSET Key, AskStops(more),
             \A k \in more : Over(k)
      PROVE  StopEnds' /\ \A k \in Key : stop[k] # "none" => stop'[k] # "none"
  BY <1>1, AskEnds DEF Ends
<1>2. ASSUME UNCHANGED <<native, start, stop, pending>>
      PROVE  StopEnds' /\ \A k \in Key : stop[k] # "none" => stop'[k] # "none"
  BY <1>2 DEF Ends, StopEnds
<1>3. ASSUME startLiveTail, UNCHANGED native, UNCHANGED halting, clearing' \in {clearing, NoClear}
      PROVE  Ends'
  <2> DEFINE superseded == Keys(active.tail, active.channels) \ Unanswered
  <2>1. /\ AskStops(superseded \cup pending)
        /\ start' = [k \in Key |-> IF k \in Keys(tails', loaded) THEN "asked" ELSE start[k]]
    BY <1>3 DEF startLiveTail
  <2>2. superseded \cup pending \in SUBSET Key /\ \A k \in superseded \cup pending : Over(k)
    BY <1>0, <1>b, <1>c DEF Keys
  <2> HIDE DEF superseded
  <2>3. \A k \in Key : start[k] = "asked" => start'[k] = "asked"
    BY <2>1
  <2>4. StopEnds' /\ \A k \in Key : stop[k] # "none" => stop'[k] # "none"
    BY <1>3, <2>1, <2>2, <2>3, AskEnds DEF Ends
  <2> QED BY <1>3, <2>4, HaltKept, ClearKept DEF Ends
<1>4. CASE StartLive
  BY <1>3, <1>4 DEF StartLive, nativeVars
<1>5. CASE ClearFails
  <2>1. /\ UNCHANGED <<native, halting>> /\ clearing' = NoClear
        /\ startLiveTail \/ UNCHANGED <<start, stop, pending>>
    BY <1>5 DEF ClearFails, nativeVars
  <2> QED BY <1>2, <1>3, <2>1, HaltKept, ClearKept DEF Ends
<1>6. CASE NewSource
  <2> DEFINE keys == (Keys(active.tail, active.channels) \ Unanswered) \cup pending
  <2>1. AskStops(keys) /\ UNCHANGED <<native, start, halting, clearing>>
    BY <1>6 DEF NewSource
  <2>2. keys \in SUBSET Key /\ \A k \in keys : Over(k)
    BY <1>0, <1>b, <1>c DEF Keys
  <2> HIDE DEF keys
  <2> QED BY <1>1, <2>1, <2>2, HaltKept, ClearKept DEF Ends
<1>7. CASE StopLive
  <2> DEFINE keys == Keys(shown.tail, shown.channels)
  <2>1. /\ AskStops(keys) /\ UNCHANGED <<native, start, clearing, shown>>
        /\ halting' = [tail |-> shown.tail,
                       received |-> [c \in shown.channels |-> Known(<<shown.tail, c>>)],
                       out |-> [c \in shown.channels |-> "wait"]]
        /\ shown.tail # 0
    BY <1>7 DEF StopLive, nativeVars
  <2>2. shown.channels \subseteq Channels /\ shown.tail \in TailId
    BY <2>1 DEF Types, TailTypeOK
  <2>4. keys \in SUBSET Key /\ \A k \in keys : Over(k) /\ Over(k)'
    <3>1. shown.tail \notin starting
      BY <1>7 DEF StopLive, MayPress
    <3> QED BY <1>d, <2>2, <3>1 DEF Keys
  <2> HIDE DEF keys
  <2>5. StopEnds' /\ \A k \in Key : stop[k] # "none" => stop'[k] # "none"
    BY <1>1, <2>1, <2>4
  <2>6. \A k \in keys : stop'[k] # "none"
    BY <2>1, <2>4 DEF AskStops
  <2>7. \A k \in Keys(halting'.tail, DOMAIN halting'.out) :
          k \in keys /\ halting'.out[k[2]] = "wait"
    BY <2>1 DEF Keys, keys
  <2>8. HaltEnds'
    BY <2>4, <2>6, <2>7 DEF HaltEnds, Keys
  <2> QED BY <2>1, <2>5, <2>8, ClearKept DEF Ends
<1>8. ASSUME NEW c \in Channels, ClearChannel(c)
      PROVE  Ends'
  <2> DEFINE k == <<shown.tail, c>>
  <2>1. UNCHANGED <<native, start>>
    BY <1>8 DEF ClearChannel
  <2>2. CASE c \in shown.channels
    <3>1. /\ AskStops({k}) /\ halting' = Outdated(k) /\ shown.tail \notin starting
          /\ clearing'.step = "stop" /\ clearing'.tail = shown.tail /\ clearing'.channel = c
      BY <1>8, <2>2 DEF ClearChannel, MayPress
    <3>2. k \in Key /\ k \in Keys(shown.tail, Channels)
      BY <2>2 DEF Types, TailTypeOK, Key, Keys
    <3>3. Over(k)
      BY <1>d, <3>1, <3>2
    <3> HIDE DEF k
    <3>4. StopEnds' /\ \A l \in Key : stop[l] # "none" => stop'[l] # "none"
      BY <1>1, <2>1, <3>1, <3>2, <3>3
    <3>5. HaltEnds'
      <4> SUFFICES ASSUME halting' # NoHalt, NEW l \in Key, l[1] = halting'.tail,
                          l[2] \in DOMAIN halting'.out
                   PROVE  /\ Over(l)'
                          /\ IF halting'.out[l[2]] = "wait" THEN stop'[l] # "none" ELSE Gone(l)'
        BY DEF HaltEnds, Keys
      <4>1. /\ halting # NoHalt /\ l \in Keys(halting.tail, DOMAIN halting.out)
            /\ \/ halting'.out[l[2]] = halting.out[l[2]]
               \/ k = l /\ halting'.out[l[2]] = "err" /\ stop[l] = "none"
        <5>1. l = <<l[1], l[2]>>
          BY DEF Key
        <5>2. \/ halting' = halting
              \/ /\ k \in Keys(halting.tail, DOMAIN halting.out) /\ stop[k] = "none"
                 /\ halting' = [halting EXCEPT !.out[k[2]] = "err"]
          BY <3>1 DEF Outdated
        <5>3. /\ halting # NoHalt /\ halting'.tail = halting.tail
              /\ DOMAIN halting'.out = DOMAIN halting.out
              /\ \/ halting'.out[l[2]] = halting.out[l[2]]
                 \/ k = <<halting.tail, l[2]>> /\ halting'.out[l[2]] = "err"
          BY <3>2, <5>2, OutdatedKeeps DEF Types
        <5>4. CASE halting' = halting
          BY <5>3, <5>4 DEF Keys
        <5>5. CASE stop[k] = "none"
          BY <5>1, <5>3, <5>5 DEF Keys
        <5> QED BY <5>2, <5>4, <5>5
      <4> QED BY <3>4, <4>1 DEF Ends, HaltEnds
    <3>6. ClearEnds'
      <4>1. \A l \in Keys(shown.tail, {c}) : l = k
        BY DEF Keys, Key, k
      <4>2. \A l \in Keys(clearing'.tail, {clearing'.channel}) : Over(l)'
        BY <3>1, <3>2, <3>3, <4>1
      <4> QED BY <3>1, <4>2 DEF ClearEnds
    <3> QED BY <3>4, <3>5, <3>6 DEF Ends
  <2>3. CASE c \notin shown.channels
    <3>1. UNCHANGED <<stop, pending, halting>>
      BY <1>8, <2>3 DEF ClearChannel
    <3>2. clearing' = [step |-> "clear", channel |-> c, tail |-> shown.tail, source |-> source,
                       tailing |-> FALSE, received |-> {}]
      BY <1>8, <2>3 DEF ClearChannel
    <3>3. ClearEnds'
      BY <3>2 DEF ClearEnds
    <3> QED BY <1>2, <2>1, <3>1, <3>3, HaltKept DEF Ends
  <2> QED BY <2>2, <2>3
<1>9. CASE HaltResumes
  <2>1. UNCHANGED <<native, start, stop, pending, clearing>> /\ halting' = NoHalt
    BY <1>9 DEF HaltResumes, nativeVars, wires
  <2> QED BY <1>2, <2>1, HaltKept, ClearKept DEF Ends
<1>10. CASE ClearResumes
  <2>1. /\ UNCHANGED <<native, start, stop, pending, halting>>
        /\ clearing.step \in {"ok", "err"}
        /\ clearing' = NoClear \/ clearing' = [clearing EXCEPT !.step = "clear"]
    BY <1>10 DEF ClearResumes, ClearReady, nativeVars, wires
  <2>2. clearing # NoClear /\ clearing \in Clear /\ clearing.tailing
    BY <2>1 DEF Types, Called, NoClear
  <2>3. clearing' # NoClear =>
          clearing'.tail = clearing.tail /\ clearing'.channel = clearing.channel
    BY <2>1, <2>2 DEF Clear
  <2>4. \A k \in Keys(clearing.tail, {clearing.channel}) : Over(k)' /\ Gone(k)'
    BY <2>1, <2>2 DEF Ends, ClearEnds, Keys
  <2>5. ClearEnds'
    BY <2>3, <2>4 DEF ClearEnds
  <2> QED BY <1>2, <2>1, <2>5, HaltKept DEF Ends
<1>11. ASSUME NEW t \in TailId, StartResumes(t)
       PROVE  Ends'
  <2> DEFINE started == {c \in Channels : start[<<t, c>>] = "ok"}
  <2>1. /\ UNCHANGED <<native, start, halting, clearing>>
        /\ UNCHANGED <<stop, pending>> \/ AskStops(Keys(t, started))
    BY <1>11 DEF StartResumes, nativeVars, cleanupStaleTailStart
  <2>2. Keys(t, started) \in SUBSET Key /\ \A k \in Keys(t, started) : start[k] = "ok"
    <3>1. \A k \in Key : k[1] = t => k = <<t, k[2]>>
      BY DEF Key
    <3> QED BY <3>1 DEF Keys
  <2>3. \A k \in Keys(t, started) : Over(k)
    BY <2>2 DEF Stages, Over
  <2> HIDE DEF started
  <2> QED BY <1>1, <1>2, <2>1, <2>2, <2>3, HaltKept, ClearKept DEF Ends
<1>12. CASE Listen
  <2>1. UNCHANGED <<native, start, stop, pending, halting, clearing>>
    BY <1>12 DEF Listen, nativeVars
  <2> QED BY <1>2, <2>1, HaltKept, ClearKept DEF Ends
<1>13. CASE ChannelCleared
  <2>1. UNCHANGED <<native, start, stop, pending, halting>> /\ clearing' = NoClear
    BY <1>13 DEF ChannelCleared, nativeVars, wires
  <2> QED BY <1>2, <2>1, HaltKept, ClearKept DEF Ends
<1>14. ASSUME NEW k \in Key, StartAnswered(k)
       PROVE  Ends'
  <2> DEFINE keys == IF start[k] = "ok" /\ active.tail # k[1] THEN {k} ELSE {}
  <2>1. AskStops(keys) /\ UNCHANGED <<native, start, halting, clearing>>
    BY <1>14 DEF StartAnswered, nativeVars, cleanupStaleTailStart
  <2>2. keys \in SUBSET Key /\ \A l \in keys : Over(l)
    BY DEF Stages, Over
  <2> HIDE DEF keys
  <2> QED BY <1>1, <2>1, <2>2, HaltKept, ClearKept DEF Ends
<1>15. ASSUME NEW k \in Key, StopAnswered(k)
       PROVE  Ends'
  <2> DEFINE waits == {c \in DOMAIN halting.out : halting.out[c] = "wait"}
  <2>1. /\ stop[k] \in {"ok", "err"} /\ stop' = [stop EXCEPT ![k] = "none"]
        /\ pending' \subseteq pending /\ UNCHANGED <<native, start>>
        /\ halting' = (IF k \in Keys(halting.tail, waits)
                       THEN [halting EXCEPT !.out[k[2]] = stop[k]] ELSE halting)
        /\ clearing' = (IF clearing.step = "stop" /\ k = <<clearing.tail, clearing.channel>>
                        THEN [clearing EXCEPT !.step = stop[k]] ELSE clearing)
    BY <1>15 DEF StopAnswered, nativeVars
  <2>2. Gone(k) /\ Gone(k)'
    BY <2>1 DEF Ends, StopEnds
  <2>3. StopEnds'
    BY <1>0, <2>1 DEF Ends, StopEnds
  <2>4. HaltEnds'
    <3> SUFFICES ASSUME halting' # NoHalt, NEW l \in Key, l[1] = halting'.tail,
                        l[2] \in DOMAIN halting'.out
                 PROVE  /\ Over(l)'
                        /\ IF halting'.out[l[2]] = "wait" THEN stop'[l] # "none" ELSE Gone(l)'
      BY DEF HaltEnds, Keys
    <3>1. k \in Keys(halting.tail, waits) => k \in Keys(halting.tail, DOMAIN halting.out)
      BY DEF Keys
    <3>2. /\ halting # NoHalt /\ halting \in Halt /\ l \in Keys(halting.tail, DOMAIN halting.out)
          /\ \/ halting'.out[l[2]] = halting.out[l[2]]
             \/ k = l /\ halting'.out[l[2]] = stop[k]
      <4> HIDE DEF waits
      <4>1. l = <<l[1], l[2]>>
        BY DEF Key
      <4>2. \/ halting' = halting
            \/ /\ k \in Keys(halting.tail, DOMAIN halting.out)
               /\ halting' = [halting EXCEPT !.out[k[2]] = stop[k]]
        BY <2>1, <3>1
      <4>3. /\ halting # NoHalt /\ halting \in Halt /\ halting'.tail = halting.tail
            /\ DOMAIN halting'.out = DOMAIN halting.out
            /\ \/ halting'.out[l[2]] = halting.out[l[2]]
               \/ k = <<halting.tail, l[2]>> /\ halting'.out[l[2]] = stop[k]
        <5> PICK answer \in {"ok", "err"} : answer = stop[k]
          BY <2>1
        <5>1. \/ halting' = halting
              \/ /\ k \in Keys(halting.tail, DOMAIN halting.out)
                 /\ halting' = [halting EXCEPT !.out[k[2]] = answer]
          BY <4>2
        <5>2. Called
          BY DEF Types
        <5> QED BY <5>1, <5>2, OutdatedKeeps
      <4> QED BY <4>1, <4>3 DEF Keys
    <3>3. CASE k = l
      <4>1. halting'.out[l[2]] # "wait"
        <5>1. CASE halting.out[l[2]] = "wait"
          <6>1. k \in Keys(halting.tail, waits)
            BY <3>2, <3>3, <5>1 DEF Keys
          <6>2. halting.out \in [DOMAIN halting.out -> {"wait", "ok", "err"}]
            BY <3>2 DEF Halt
          <6>3. halting'.out = [halting.out EXCEPT ![l[2]] = stop[k]]
            BY <2>1, <3>2, <3>3, <6>1 DEF Halt
          <6> QED BY <2>1, <3>2, <6>2, <6>3 DEF Keys
        <5>2. CASE halting.out[l[2]] # "wait"
          BY <2>1, <3>2, <5>2
        <5> QED BY <5>1, <5>2
      <4>2. Over(k)'
        BY <2>2 DEF Gone
      <4> QED BY <2>2, <3>3, <4>1, <4>2
    <3>4. CASE k # l
      <4>1. stop'[l] = stop[l]
        BY <1>0, <2>1, <3>4
      <4> QED BY <3>2, <3>4, <4>1 DEF Ends, HaltEnds
    <3> QED BY <3>3, <3>4
  <2>5. ClearEnds'
    <3>1. CASE clearing' = clearing
      BY <3>1, ClearKept DEF Ends
    <3>2. CASE /\ clearing.step = "stop" /\ k = <<clearing.tail, clearing.channel>>
               /\ clearing' = [clearing EXCEPT !.step = stop[k]]
      <4>1. clearing \in Clear
        BY <3>2 DEF Types, Called, NoClear
      <4>2. clearing'.tail = clearing.tail /\ clearing'.channel = clearing.channel
        BY <3>2, <4>1 DEF Clear
      <4>3. \A l \in Keys(clearing.tail, {clearing.channel}) : l = k
        BY <3>2 DEF Keys, Key
      <4>4. Over(k)'
        BY <2>2 DEF Gone
      <4>5. \A l \in Keys(clearing.tail, {clearing.channel}) : Over(l)' /\ Gone(l)'
        BY <2>2, <4>3, <4>4
      <4> QED BY <4>2, <4>5 DEF ClearEnds
    <3> QED BY <2>1, <3>1, <3>2
  <2> QED BY <2>3, <2>4, <2>5 DEF Ends
<1> QED
  BY <1>4, <1>5, <1>6, <1>7, <1>8, <1>9, <1>10, <1>11, <1>12, <1>13, <1>14, <1>15
  DEF Continuations

\* What the numbers of a tail depend on changes when a batch is taken, emitted or listened to.
Quiet ==
  /\ UNCHANGED <<emitting, events, applied>>
  /\ \A k \in Key : native'[k].number = native[k].number /\ native'[k].lost = native[k].lost

\* A batch on its way is of a tail, and so is the head of the queue.
LEMMA EventTypes ==
  ASSUME Types, NEW i \in DOMAIN events
  PROVE  /\ events[i].key \in Key /\ events[i].number \in Numbers
         /\ events[i].lost \subseteq Numbers
<1>1. \A B : events \in Seq(B) => events[i] \in B
  OBVIOUS
<1>2. events[i] \in [key : Key, number : Numbers, lost : SUBSET Numbers]
  BY <1>1, Zenon DEF Types, TailTypeOK
<1> QED BY <1>2

\* The order of the numbers when a batch is taken: it has the last number.
LEMMA TakeOrder ==
  ASSUME Types, Ordered, NEW k \in Key, Take(k)
  PROVE  Ordered' /\ \A l \in Key, n \in Numbers : Missed(l, n) => Missed(l, n)'
<1>0. /\ native \in [Key -> [stage : Stage, waits : BOOLEAN, number : Numbers,
                             lost : SUBSET Numbers]]
      /\ emitting \in [Key -> SUBSET Numbers] /\ applied \in [Key -> SUBSET Numbers]
  BY DEF Types, TailTypeOK
<1>1. /\ emitting[k] = {}
      /\ native' = [native EXCEPT ![k].waits = FALSE, ![k].number = @ + 1]
      /\ emitting' = [emitting EXCEPT ![k] = {native[k].number}]
      /\ UNCHANGED <<events, applied>>
  BY DEF Take, wires, page
<1>2. Numbers \subseteq Nat /\ \A l \in Key : native[l].number \in Nat
  BY <1>0, TailAssumption DEF Numbers
<1>3. /\ native'[k].number = native[k].number + 1 /\ emitting'[k] = {native[k].number}
      /\ \A l \in Key : l # k => native'[l].number = native[l].number /\ emitting'[l] = emitting[l]
  BY <1>0, <1>1
<1>4. \A l \in Key : native[l].number <= native'[l].number
  BY <1>2, <1>3
<1>5. \A i \in DOMAIN events : events[i].key \in Key /\ events[i].number \in Nat
  BY <1>2, EventTypes
<1>6. \A l \in Key : \A n \in emitting'[l] : n + 1 = native'[l].number
  BY <1>3 DEF Ordered
<1>7. \A i \in DOMAIN events :
        /\ events[i].number < native'[events[i].key].number
        /\ \A n \in emitting'[events[i].key] : events[i].number < n
  BY <1>2, <1>3, <1>5 DEF Ordered
<1>8. \A l \in Key : \A n \in applied[l] :
        n < native'[l].number /\ \A m \in emitting'[l] : n < m
  <2>1. \A l \in Key : \A n \in applied[l] : n \in Nat
    BY <1>0, <1>2
  <2> QED BY <1>2, <1>3, <2>1 DEF Ordered
<1>9. Ordered'
  BY <1>1, <1>6, <1>7, <1>8 DEF Ordered
<1>10. ASSUME NEW l \in Key, NEW n \in Numbers, Missed(l, n)
       PROVE  Missed(l, n)'
  <2>1. n \in Nat /\ n < native[l].number
    BY <1>2, <1>10 DEF Missed
  <2>2. n < native'[l].number /\ n \notin emitting'[l]
    BY <1>2, <1>3, <1>10, <2>1 DEF Missed
  <2> QED BY <1>1, <1>10, <2>2 DEF Missed
<1> QED BY <1>9, <1>10

\* When it is emitted: it comes after those that are on their way, and a batch that is lost is not.
LEMMA EmitOrder ==
  ASSUME Types, Ordered, Losses, NEW k \in Key, Emit(k)
  PROVE  /\ Ordered' /\ Losses'
         /\ \A l \in Key, n \in Numbers : Missed(l, n) => Missed(l, n)'
<1>0. /\ native \in [Key -> [stage : Stage, waits : BOOLEAN, number : Numbers,
                             lost : SUBSET Numbers]]
      /\ emitting \in [Key -> SUBSET Numbers] /\ applied \in [Key -> SUBSET Numbers]
  BY DEF Types, TailTypeOK
<1>a. events \in Seq([key : Key, number : Numbers, lost : SUBSET Numbers])
  BY DEF Types, TailTypeOK
<1> PICK n \in emitting[k] :
      /\ emitting' = [emitting EXCEPT ![k] = @ \ {n}]
      /\ \/ /\ events' = Append(events, [key |-> k, number |-> n, lost |-> native[k].lost])
            /\ native' = [native EXCEPT ![k].lost = {}]
         \/ /\ native' = [native EXCEPT ![k].lost = @ \cup {n}]
            /\ events' = events
      /\ UNCHANGED <<applied>>
  BY DEF Emit, page
<1>1. Numbers \subseteq Nat /\ n \in Nat /\ n + 1 = native[k].number /\ n < native[k].number
  <2>1. Numbers \subseteq Nat /\ n \in Nat
    BY <1>0, TailAssumption DEF Numbers
  <2>2. n + 1 = native[k].number
    BY DEF Ordered
  <2> QED BY <2>1, <2>2
<1>2. /\ \A l \in Key : native'[l].number = native[l].number
      /\ \A l \in Key : l # k => native'[l].lost = native[l].lost /\ emitting'[l] = emitting[l]
      /\ emitting'[k] = emitting[k] \ {n}
  BY <1>0
<1>3. \A m \in emitting[k] : m = n
  <2>1. \A m \in emitting[k] : m \in Nat /\ m + 1 = native[k].number
    BY <1>0, <1>1 DEF Ordered
  <2> QED BY <1>1, <2>1
<1>4. emitting'[k] = {} /\ \A l \in Key : emitting'[l] \subseteq emitting[l]
  BY <1>2, <1>3
<1>5. \A i \in DOMAIN events : events[i].key \in Key /\ events[i].number \in Nat
  BY <1>1, EventTypes
<1>6. CASE /\ native' = [native EXCEPT ![k].lost = @ \cup {n}] /\ events' = events
  <2>1. Ordered'
    BY <1>2, <1>4, <1>6 DEF Ordered
  <2>2. \A l \in Key, m \in Numbers : Missed(l, m) => Missed(l, m)'
    BY <1>2, <1>4, <1>6 DEF Missed
  <2>3. Missed(k, n)'
    <3>1. n \notin applied[k]
      BY <1>1 DEF Ordered
    <3>2. \A i \in DOMAIN events : events[i].key = k => events[i].number < n
      BY DEF Ordered
    <3>3. \A i \in DOMAIN events : events[i].key = k => events[i].number # n
      BY <1>1, <1>5, <3>2
    <3> QED BY <1>1, <1>2, <1>4, <1>6, <3>1, <3>3 DEF Missed
  <2>4. native'[k].lost = native[k].lost \cup {n} /\ \A l \in Key : native[l].lost \subseteq Numbers
    BY <1>0, <1>6
  <2>5. \A l \in Key : \A m \in native'[l].lost : Missed(l, m)'
    BY <1>2, <2>2, <2>3, <2>4 DEF Losses
  <2>6. ASSUME NEW i \in DOMAIN events, NEW l, l = events[i].key, NEW m \in events[i].lost
        PROVE  l \in Key /\ Missed(l, m)'
    <3>1. l \in Key /\ m \in Numbers
      BY <2>6, EventTypes
    <3> QED BY <2>2, <2>6, <3>1 DEF Losses
  <2>7. Losses'
    BY <1>6, <2>5, <2>6 DEF Losses, Missed
  <2> QED BY <2>1, <2>2, <2>7
<1>7. CASE /\ events' = Append(events, [key |-> k, number |-> n, lost |-> native[k].lost])
           /\ native' = [native EXCEPT ![k].lost = {}]
  <2>1. /\ DOMAIN events' = 1..(Len(events) + 1) /\ DOMAIN events = 1..Len(events)
        /\ Len(events) \in Nat
        /\ \A i \in DOMAIN events : events'[i] = events[i]
        /\ events'[Len(events) + 1] = [key |-> k, number |-> n, lost |-> native[k].lost]
    BY <1>7, <1>a
  <2> DEFINE last == Len(events) + 1
  <2>2. /\ events'[last].key = k /\ events'[last].number = n
        /\ events'[last].lost = native[k].lost
    BY <2>1
  <2>3. \A i \in DOMAIN events' : i \in DOMAIN events \/ i = last
    BY <2>1
  <2>4. \A i, j \in DOMAIN events' : i < j => i \in DOMAIN events
    BY <2>1
  <2> HIDE DEF last
  <2>5. \A i \in DOMAIN events : events[i].key = k => events[i].number < n
    BY DEF Ordered
  <2>6. \A i, j \in DOMAIN events' :
          i < j /\ events'[i].key = events'[j].key => events'[i].number < events'[j].number
    <3> SUFFICES ASSUME NEW i \in DOMAIN events', NEW j \in DOMAIN events', i < j,
                        events'[i].key = events'[j].key
                 PROVE  events'[i].number < events'[j].number
      OBVIOUS
    <3>1. i \in DOMAIN events /\ events'[i] = events[i]
      BY <2>1, <2>4
    <3>2. CASE j = last
      BY <2>2, <2>5, <3>1, <3>2
    <3>3. CASE j \in DOMAIN events
      BY <2>1, <3>1, <3>3 DEF Ordered
    <3> QED BY <2>3, <3>2, <3>3
  <2>7. \A i \in DOMAIN events' :
          /\ events'[i].number < native'[events'[i].key].number
          /\ \A m \in emitting'[events'[i].key] : events'[i].number < m
    <3> SUFFICES ASSUME NEW i \in DOMAIN events'
                 PROVE  /\ events'[i].number < native'[events'[i].key].number
                        /\ \A m \in emitting'[events'[i].key] : events'[i].number < m
      OBVIOUS
    <3>1. CASE i = last
      BY <1>1, <1>2, <1>4, <2>2, <3>1
    <3>2. CASE i \in DOMAIN events
      <4>1. events[i].key \in Key
        BY <1>5, <3>2
      <4> QED BY <1>2, <1>4, <2>1, <3>2, <4>1 DEF Ordered
    <3> QED BY <2>3, <3>1, <3>2
  <2>8. \A l \in Key : \A m \in applied[l] :
          \A i \in DOMAIN events' : events'[i].key = l => m < events'[i].number
    <3> SUFFICES ASSUME NEW l \in Key, NEW m \in applied[l], NEW i \in DOMAIN events',
                        events'[i].key = l
                 PROVE  m < events'[i].number
      OBVIOUS
    <3>1. CASE i = last
      BY <2>2, <3>1 DEF Ordered
    <3>2. CASE i \in DOMAIN events
      BY <2>1, <3>2 DEF Ordered
    <3> QED BY <2>3, <3>1, <3>2
  <2>9. \A l \in Key : \A m \in applied[l] :
          m < native'[l].number /\ \A o \in emitting'[l] : m < o
    BY <1>2, <1>4 DEF Ordered
  <2>10. \A l \in Key : \A m \in emitting'[l] : m + 1 = native'[l].number
    BY <1>2, <1>4 DEF Ordered
  <2>11. Ordered'
    BY <2>6, <2>7, <2>8, <2>9, <2>10 DEF Ordered
  <2>12. ASSUME NEW l \in Key, NEW m \in Numbers, Missed(l, m)
         PROVE  Missed(l, m)'
    <3>1. m < native'[l].number /\ m \notin applied'[l] /\ m \notin emitting'[l]
      BY <1>2, <1>4, <2>12 DEF Missed
    <3>2. ASSUME NEW i \in DOMAIN events', events'[i].key = l
          PROVE  events'[i].number # m
      <4>1. CASE i = last
        BY <2>2, <2>12, <3>2, <4>1 DEF Missed
      <4>2. CASE i \in DOMAIN events
        BY <2>1, <2>12, <3>2, <4>2 DEF Missed
      <4> QED BY <2>3, <4>1, <4>2
    <3> QED BY <3>1, <3>2 DEF Missed
  <2>13. native'[k].lost = {} /\ \A l \in Key : native[l].lost \subseteq Numbers
    BY <1>0, <1>7
  <2>14. \A l \in Key : \A m \in native'[l].lost : Missed(l, m)'
    BY <1>2, <2>12, <2>13 DEF Losses
  <2>15. ASSUME NEW i \in DOMAIN events', NEW l, l = events'[i].key, NEW m \in events'[i].lost
         PROVE  l \in Key /\ Missed(l, m)'
    <3>1. CASE i = last
      <4>1. l = k /\ m \in native[k].lost
        BY <2>2, <2>15, <3>1
      <4> QED BY <2>12, <2>13, <4>1 DEF Losses
    <3>2. CASE i \in DOMAIN events
      <4>1. l = events[i].key /\ l \in Key /\ m \in events[i].lost /\ m \in Numbers
        BY <2>1, <2>15, <3>2, EventTypes
      <4>2. Missed(l, m)
        BY <3>2, <4>1 DEF Losses
      <4> QED BY <2>12, <4>1, <4>2
    <3> QED BY <2>3, <3>1, <3>2
  <2>16. Losses'
    BY <2>14, <2>15 DEF Losses, Missed
  <2> QED BY <2>11, <2>12, <2>16
<1> QED BY <1>6, <1>7

\* When the page listens to it: it comes before all that are on their way, and what the page finds
\* skipped or is told lost is not in the view.
LEMMA ListenOrder ==
  ASSUME Types, Ordered, Losses, Telling, Listen
  PROVE  Ordered' /\ Losses' /\ Telling'
<1>0. /\ native \in [Key -> [stage : Stage, waits : BOOLEAN, number : Numbers,
                             lost : SUBSET Numbers]]
      /\ emitting \in [Key -> SUBSET Numbers]
      /\ applied \in [Key -> SUBSET Numbers] /\ received \in [Key -> SUBSET Numbers]
  BY DEF Types, TailTypeOK
<1>a. events \in Seq([key : Key, number : Numbers, lost : SUBSET Numbers]) /\ events # <<>>
  BY DEF Types, TailTypeOK, Listen
<1>b. Numbers \subseteq Nat
  BY TailAssumption DEF Numbers
<1>1. /\ 1 \in DOMAIN events /\ Head(events) = events[1]
      /\ \A i \in DOMAIN Tail(events) :
           i + 1 \in DOMAIN events /\ Tail(events)[i] = events[i + 1] /\ i \in Nat /\ 1 < i + 1
  BY <1>a
<1> PICK k \in Key, n \in Numbers : k = events[1].key /\ n = events[1].number
  BY <1>1, EventTypes
<1>2. /\ events' = Tail(events) /\ UNCHANGED <<native, emitting, active, start, tails>>
      /\ \/ /\ active.tail = k[1]
            /\ received' = [received EXCEPT ![k] = @ \cup {n}]
            /\ applied' = [applied EXCEPT ![k] = @ \cup {n}]
            /\ told' = told \cup Gaps(k[2], Missing(k, n) \cup events[1].lost)
         \/ UNCHANGED <<received, applied, told>>
  BY <1>1 DEF Listen, nativeVars
<1>3. /\ n < native[k].number /\ (\A m \in emitting[k] : n < m)
      /\ \A i \in DOMAIN events' : events'[i].key = k => n < events'[i].number
  <2>1. n < native[k].number /\ \A m \in emitting[k] : n < m
    BY <1>1 DEF Ordered
  <2>2. \A i \in DOMAIN events : 1 < i /\ events[i].key = k => n < events[i].number
    BY <1>1 DEF Ordered
  <2> QED BY <1>1, <1>2, <2>1, <2>2
<1>4. \A l \in Key : /\ applied[l] \subseteq applied'[l]
                     /\ \A m \in applied'[l] : m \in applied[l] \/ (l = k /\ m = n)
  BY <1>0, <1>2
<1>5. \A i \in DOMAIN events' : \E j \in DOMAIN events : events'[i] = events[j]
  BY <1>1, <1>2
<1>6. ASSUME NEW i \in DOMAIN events', NEW j \in DOMAIN events', i < j,
             events'[i].key = events'[j].key
      PROVE  events'[i].number < events'[j].number
  <2>1. /\ i + 1 \in DOMAIN events /\ j + 1 \in DOMAIN events /\ i + 1 < j + 1
        /\ events'[i] = events[i + 1] /\ events'[j] = events[j + 1]
    BY <1>1, <1>2, <1>6
  <2> QED BY <1>6, <2>1 DEF Ordered
<1>7. ASSUME NEW l \in Key, NEW m \in applied'[l], NEW i \in DOMAIN events', events'[i].key = l
      PROVE  m < events'[i].number
  BY <1>3, <1>4, <1>5, <1>7 DEF Ordered
<1>8. ASSUME NEW l \in Key, NEW m \in applied'[l]
      PROVE  m < native'[l].number /\ \A o \in emitting'[l] : m < o
  BY <1>2, <1>3, <1>4, <1>8 DEF Ordered
<1>9. ASSUME NEW i \in DOMAIN events'
      PROVE  /\ events'[i].number < native'[events'[i].key].number
             /\ \A m \in emitting'[events'[i].key] : events'[i].number < m
  BY <1>2, <1>5 DEF Ordered
<1>10. \A l \in Key : \A m \in emitting'[l] : m + 1 = native'[l].number
  BY <1>2 DEF Ordered
<1>11. Ordered'
  BY <1>6, <1>7, <1>8, <1>9, <1>10 DEF Ordered
<1>12. ASSUME NEW l \in Key, NEW m \in Numbers, Missed(l, m)
       PROVE  Missed(l, m)'
  <2>1. ~(l = k /\ m = n)
    BY <1>1, <1>12 DEF Missed
  <2>2. m < native'[l].number /\ m \notin applied'[l] /\ m \notin emitting'[l]
    BY <1>2, <1>4, <1>12, <2>1 DEF Missed
  <2>3. \A i \in DOMAIN events' : events'[i].key = l => events'[i].number # m
    BY <1>5, <1>12 DEF Missed
  <2> QED BY <2>2, <2>3 DEF Missed
<1>13. ASSUME NEW i \in DOMAIN events', NEW l, l = events'[i].key, NEW m \in events'[i].lost
       PROVE  l \in Key /\ Missed(l, m)'
  <2> PICK j \in DOMAIN events : events'[i] = events[j]
    BY <1>5
  <2>1. l = events[j].key /\ l \in Key /\ m \in events[j].lost /\ m \in Numbers
    BY <1>13, EventTypes
  <2>2. Missed(l, m)
    BY <2>1 DEF Losses
  <2> QED BY <1>12, <2>1, <2>2
<1>14. \A l \in Key : \A m \in native'[l].lost : Missed(l, m)'
  <2>1. \A l \in Key : native[l].lost \subseteq Numbers
    BY <1>0
  <2> QED BY <1>2, <1>12, <2>1 DEF Losses
<1>15. Losses'
  BY <1>13, <1>14 DEF Losses, Missed
<1>16. ASSUME NEW l \in Key, l[1] = active.tail, ~Gone(l)
       PROVE  /\ received'[l] = applied'[l]
              /\ \A m \in Numbers : <<l[2], m>> \in told' => Missed(l, m)'
  <2>1. received[l] = applied[l] /\ \A m \in Numbers : <<l[2], m>> \in told => Missed(l, m)
    BY <1>16 DEF Telling
  <2>2. received'[l] = applied'[l]
    <3>1. CASE UNCHANGED <<received, applied>>
      BY <2>1, <3>1
    <3>2. CASE /\ received' = [received EXCEPT ![k] = @ \cup {n}]
               /\ applied' = [applied EXCEPT ![k] = @ \cup {n}]
      BY <1>0, <2>1, <3>2
    <3> QED BY <1>2, <3>1, <3>2
  <2>3. ASSUME NEW m \in Numbers, <<l[2], m>> \in told'
        PROVE  Missed(l, m)'
    <3>1. CASE <<l[2], m>> \in told
      BY <1>12, <2>1, <3>1
    <3>2. CASE <<l[2], m>> \notin told
      <4>1. active.tail = k[1] /\ l[2] = k[2] /\ m \in Missing(k, n) \cup events[1].lost
        BY <1>2, <2>3, <3>2 DEF Gaps
      <4>2. l = k
        BY <1>16, <4>1 DEF Key
      <4>3. CASE m \in events[1].lost
        <5>1. Missed(k, m)
          BY <1>1, <4>3 DEF Losses
        <5> QED BY <1>12, <4>2, <5>1
      <4>4. CASE m \in Missing(k, n)
        <5>1. m \in Nat /\ m < n /\ n \in Nat /\ m \notin received[k]
          BY <1>0, <1>b, <4>4 DEF Missing, Upto
        <5>2. m \notin applied'[k]
          BY <1>4, <2>1, <4>2, <5>1
        <5>3. m < native[k].number /\ m \notin emitting[k]
          <6>1. native[k].number \in Nat /\ \A o \in emitting[k] : o \in Nat
            BY <1>0, <1>b
          <6> QED BY <1>3, <5>1, <6>1
        <5>4. \A i \in DOMAIN events' : events'[i].key = k => events'[i].number # m
          <6>1. \A i \in DOMAIN events' : events'[i].number \in Nat
            BY <1>5, <1>b, EventTypes
          <6> QED BY <1>3, <5>1, <6>1
        <5> QED BY <1>2, <4>2, <5>2, <5>3, <5>4 DEF Missed
      <4> QED BY <4>1, <4>3, <4>4
    <3> QED BY <3>1, <3>2
  <2> QED BY <2>2, <2>3
<1>17. \A l \in Key : Gone(l)' <=> Gone(l)
  BY <1>2 DEF Gone, Over, Runs
<1>18. ASSUME NEW l \in Key, applied'[l] # {}
       PROVE  l[1] <= tails
  <2>1. CASE applied[l] # {}
    BY <2>1 DEF Telling
  <2>2. CASE applied[l] = {}
    <3>1. l = k /\ active.tail = k[1] /\ k[1] # 0
      BY <1>0, <1>2, <1>18, <2>2 DEF Key, TailId
    <3>2. tails \in Nat /\ (active.tail # 0 => active.tail = tails)
      BY TailAssumption DEF Types, TailTypeOK
    <3> QED BY <3>1, <3>2
  <2> QED BY <2>1, <2>2
<1>19. Telling'
  <2>1. \A l \in Key : l[1] = active'.tail /\ ~Gone(l)' =>
          /\ received'[l] = applied'[l]
          /\ \A m \in Numbers : <<l[2], m>> \in told' => Missed(l, m)'
    BY <1>2, <1>16, <1>17
  <2>2. \A l \in Key : applied'[l] # {} => l[1] <= tails'
    BY <1>2, <1>18
  <2>3. active'.tail = 0 => active'.channels = {}
    BY <1>2 DEF Telling
  <2> QED BY <2>1, <2>2, <2>3 DEF Telling
<1> QED BY <1>11, <1>15, <1>19

\* What is reported stays so, when the page keeps its tail, or takes one of which nothing is known.
LEMMA TellKept ==
  ASSUME Telling, UNCHANGED applied, \A k \in Key : k[1] <= tails => k[1] <= tails',
         \A k \in Key, n \in Numbers : Missed(k, n) => Missed(k, n)',
         active'.tail = 0 => active'.channels = {},
         \A k \in Key : Gone(k) => Gone(k)',
         \A k \in Key : k[1] = active'.tail /\ ~Gone(k) =>
           \/ /\ k[1] = active.tail /\ received'[k] = received[k]
              /\ \A n \in Numbers : <<k[2], n>> \in told' => <<k[2], n>> \in told
           \/ /\ received'[k] = {} /\ applied[k] = {}
              /\ \A n \in Numbers : <<k[2], n>> \notin told'
  PROVE  Telling'
<1>1. ASSUME NEW k \in Key, k[1] = active'.tail, ~Gone(k)'
      PROVE  /\ received'[k] = applied'[k]
             /\ \A n \in Numbers : <<k[2], n>> \in told' => Missed(k, n)'
  <2>1. ~Gone(k)
    BY <1>1
  <2>2. CASE /\ k[1] = active.tail /\ received'[k] = received[k]
             /\ \A n \in Numbers : <<k[2], n>> \in told' => <<k[2], n>> \in told
    BY <2>1, <2>2 DEF Telling
  <2>3. CASE /\ received'[k] = {} /\ applied[k] = {}
             /\ \A n \in Numbers : <<k[2], n>> \notin told'
    BY <2>3
  <2> QED BY <1>1, <2>1, <2>2, <2>3
<1>2. \A k \in Key : applied'[k] # {} => k[1] <= tails'
  BY DEF Telling
<1> QED BY <1>1, <1>2 DEF Telling

LEMMA PageTelling ==
  ASSUME Types, Ends, Telling,
         \/ StartLive \/ StopLive \/ NewSource \/ (\E c \in Channels : ClearChannel(c))
         \/ Continuations \/ ChannelCleared \/ ClearFails
         \/ \E k \in Key : StartAnswered(k) \/ StopAnswered(k),
         \A k \in Key, n \in Numbers : Missed(k, n) => Missed(k, n)',
         \A k \in Key : Gone(k) => Gone(k)'
  PROVE  Telling'
<1>0. /\ received \in [Key -> SUBSET Numbers] /\ applied \in [Key -> SUBSET Numbers]
      /\ active \in [tail : 0..MaxTail, channels : SUBSET Channels]
      /\ tails \in Nat
      /\ \A k \in Key : received[k] \subseteq applied[k]
      /\ \A k \in Key : k[1] \in Nat /\ k[1] # 0 /\ k = <<k[1], k[2]>>
  BY TailAssumption DEF Types, TailTypeOK, Key, TailId
<1>1. ASSUME UNCHANGED <<applied, received, tails>>, told' \subseteq told,
             \/ active' = NoTail
             \/ active'.tail = active.tail /\ (active.tail # 0 \/ active'.channels = {})
      PROVE  Telling'
  BY <1>0, <1>1, TellKept DEF NoTail
<1>2. active.tail = 0 => active.channels = {}
  BY DEF Telling
<1>3. ASSUME startLiveTail, UNCHANGED <<applied, received>>
      PROVE  Telling'
  <2>1. active'.tail = tails + 1 /\ tails' = tails + 1 /\ told' = {}
    BY <1>3 DEF startLiveTail
  <2>2. \A k \in Key : k[1] = tails + 1 => applied[k] = {} /\ received'[k] = {}
    <3>1. \A k \in Key : k[1] = tails + 1 => applied[k] = {}
      BY <1>0 DEF Telling
    <3> QED BY <1>0, <1>3, <3>1
  <2>3. \A k \in Key : k[1] <= tails => k[1] <= tails'
    BY <1>0, <2>1
  <2>4. active'.tail # 0
    BY <1>0, <2>1
  <2> QED BY <1>3, <2>1, <2>2, <2>3, <2>4, TellKept
<1>4. CASE StartLive \/ ClearFails
  <2>1. /\ UNCHANGED <<applied, received>>
        /\ startLiveTail \/ UNCHANGED <<tails, told, active>>
    BY <1>4 DEF StartLive, ClearFails
  <2> QED BY <1>1, <1>2, <1>3, <2>1
<1>5. ASSUME StopLive \/ \E k \in Key : StartAnswered(k)
      PROVE  Telling'
  <2>1. UNCHANGED <<applied, received, tails, told, active>>
    BY <1>5 DEF StopLive, StartAnswered
  <2> QED BY <1>1, <1>2, <2>1
<1>6. CASE NewSource
  <2>1. UNCHANGED <<applied, tails>> /\ active' = NoTail
    BY <1>6 DEF NewSource
  <2> QED BY <1>0, <2>1, TellKept DEF NoTail
<1>7. ASSUME NEW c \in Channels, ClearChannel(c)
      PROVE  Telling'
  <2>1. /\ UNCHANGED <<applied, received, tails, told>>
        /\ active' = active \/ active' = [active EXCEPT !.channels = @ \ {c}]
    BY <1>7 DEF ClearChannel
  <2>2. active'.tail = active.tail /\ active'.channels \subseteq active.channels
    BY <1>0, <2>1
  <2> QED BY <1>1, <1>2, <2>1, <2>2
<1>8. ASSUME NEW t \in TailId, StartResumes(t)
      PROVE  Telling'
  <2>1. /\ UNCHANGED <<applied, received, tails, told>>
        /\ active' = active \/ (active.tail = t /\ active'.tail = t)
    BY <1>8 DEF StartResumes
  <2>2. t # 0
    BY DEF TailId
  <2> QED BY <1>1, <1>2, <2>1, <2>2
<1>9. CASE ChannelCleared
  <2>1. /\ UNCHANGED <<applied, received, tails>> /\ told' \subseteq told
        /\ active' = active \/ active' = NoTail
    BY <1>9 DEF ChannelCleared
  <2> QED BY <1>1, <1>2, <2>1
<1>10. ASSUME NEW k \in Key, StopAnswered(k)
       PROVE  Telling'
  <2>1. /\ UNCHANGED <<applied, tails, told, active>>
        /\ \/ received' = received
           \/ stop[k] = "ok" /\ received' = [received EXCEPT ![k] = {}]
    BY <1>10 DEF StopAnswered
  <2>2. received' # received => Gone(k)
    BY <2>1 DEF Ends, StopEnds
  <2>3. \A l \in Key : ~Gone(l) => received'[l] = received[l]
    BY <1>0, <2>1, <2>2
  <2> QED BY <1>2, <2>1, <2>3, TellKept
<1>11. CASE HaltResumes
  <2> PICK halt : halt = halting
    OBVIOUS
  <2> DEFINE out == halt.out
             remaining == {c \in DOMAIN out : out[c] = "err"}
             stopped == DOMAIN out \ remaining
             left == IF remaining = {} THEN NoTail ELSE [tail |-> halt.tail, channels |-> remaining]
  <2>1. halt \in Halt /\ halt # NoHalt /\ halt.tail # 0
    BY <1>11 DEF Types, Called, HaltResumes, HaltReady, Halt, TailId
  <2>2. \A l \in Keys(halt.tail, DOMAIN out) : l \in Key /\ Gone(l)
    <3>1. \A c \in DOMAIN out : out[c] # "wait"
      BY <1>11 DEF HaltResumes, HaltReady
    <3> QED BY <2>1, <3>1 DEF Ends, HaltEnds, Keys
  <2>3. UNCHANGED <<applied, tails>>
    BY <1>11 DEF HaltResumes
  <2>4. \/ active' = active
        \/ active.tail = halt.tail /\ active' = left
    BY <1>11 DEF HaltResumes
  <2>5. \/ received' = Forgotten(received, Keys(halt.tail, stopped))
        \/ received' = Forgotten(received, Keys(halt.tail, DOMAIN out))
    BY <1>11 DEF HaltResumes
  <2>6. \/ told' = told
        \/ /\ active.tail \in {0, halt.tail}
           /\ told' = told \cup
                        UNION {FinalGaps(<<halt.tail, c>>, halt.received[c]) : c \in stopped}
    BY <1>11 DEF HaltResumes
  <2>7. active'.tail = 0 \/ active'.tail = active.tail
    BY <2>4 DEF NoTail
  <2>8. active'.tail = 0 => active'.channels = {}
    BY <1>2, <2>1, <2>4 DEF NoTail
  <2>9. stopped \subseteq DOMAIN out
    OBVIOUS
  <2> HIDE DEF stopped, left
  <2>10. \A l \in Key : ~Gone(l) => received'[l] = received[l]
    BY <2>2, <2>5, <2>9 DEF Forgotten, Keys
  <2>11. ASSUME NEW l \in Key, l[1] = active.tail, ~Gone(l), NEW n \in Numbers,
                <<l[2], n>> \in told'
         PROVE  <<l[2], n>> \in told
    <3> SUFFICES ASSUME <<l[2], n>> \notin told PROVE FALSE
      OBVIOUS
    <3>1. l[1] = halt.tail /\ l[2] \in stopped
      <4>1. active.tail \in {0, halt.tail}
        BY <2>6, <2>11
      <4>2. l[1] = halt.tail
        BY <1>0, <2>11, <4>1
      <4>3. PICK c \in stopped : <<l[2], n>> \in FinalGaps(<<halt.tail, c>>, halt.received[c])
        BY <2>6, <2>11
      <4>4. l[2] = c
        BY <4>3 DEF FinalGaps, Gaps
      <4> QED BY <4>2, <4>4
    <3> QED BY <2>2, <2>9, <2>11, <3>1 DEF Keys
  <2> QED BY <1>0, <2>3, <2>7, <2>8, <2>10, <2>11, TellKept
<1>12. CASE ClearResumes
  <2> PICK call : call = clearing
    OBVIOUS
  <2> DEFINE k == <<call.tail, call.channel>>
  <2>1. /\ call \in Clear /\ call.tail # 0 /\ call.step \in {"ok", "err"} /\ call.tailing
        /\ clearing # NoClear
    BY <1>12 DEF Types, Called, ClearResumes, ClearReady, NoClear
  <2>2. k \in Key /\ Gone(k)
    <3>1. k \in Key
      BY <2>1, TailAssumption DEF Clear, Key, TailId
    <3>2. k \in Keys(call.tail, {call.channel})
      BY <3>1 DEF Keys
    <3> QED BY <2>1, <3>1, <3>2 DEF Ends, ClearEnds
  <2>3. UNCHANGED <<applied, tails>>
    BY <1>12 DEF ClearResumes
  <2>4. \/ active' = active
        \/ /\ active.tail = call.tail
           /\ active' = [active EXCEPT !.channels = @ \cup {call.channel}]
    BY <1>12 DEF ClearResumes
  <2>5. received' = received \/ received' = Forgotten(received, {k})
    BY <1>12 DEF ClearResumes
  <2>6. \/ told' = told
        \/ active.tail = call.tail /\ told' = told \cup FinalGaps(k, call.received)
    BY <1>12 DEF ClearResumes, StillClearing
  <2>7. active'.tail = active.tail /\ (active'.tail = 0 => active'.channels = {})
    BY <1>0, <1>2, <2>1, <2>4
  <2>8. k[1] = call.tail /\ k[2] = call.channel
    OBVIOUS
  <2> HIDE DEF k
  <2>9. \A l \in Key : ~Gone(l) => received'[l] = received[l]
    BY <2>2, <2>5 DEF Forgotten
  <2>10. ASSUME NEW l \in Key, l[1] = active.tail, ~Gone(l), NEW n \in Numbers,
                <<l[2], n>> \in told'
         PROVE  <<l[2], n>> \in told
    <3> SUFFICES ASSUME <<l[2], n>> \notin told PROVE FALSE
      OBVIOUS
    <3>1. l[1] = k[1] /\ l[2] = k[2]
      BY <2>6, <2>8, <2>10 DEF FinalGaps, Gaps
    <3>2. l = k
      BY <1>0, <2>2, <3>1
    <3> QED BY <2>2, <2>10, <3>2
  <2> QED BY <1>0, <2>3, <2>7, <2>9, <2>10, TellKept
<1> QED
  BY <1>4, <1>5, <1>6, <1>7, <1>8, <1>9, <1>10, <1>11, <1>12 DEF Continuations

\* The order and the losses when no batch moves, and the losses when one is taken.
LEMMA QuietOrder ==
  ASSUME Types, Ordered, Losses, Quiet
  PROVE  /\ Ordered' /\ Losses'
         /\ \A l \in Key, n \in Numbers : Missed(l, n) => Missed(l, n)'
<1>1. \A i \in DOMAIN events : events[i].key \in Key
  BY EventTypes
<1>2. Ordered'
  BY <1>1 DEF Quiet, Ordered
<1>3. \A l \in Key : \A n : Missed(l, n) => Missed(l, n)'
  BY DEF Quiet, Missed
<1>4. Losses'
  <2>1. \A l \in Key : \A n \in native'[l].lost : Missed(l, n)'
    BY <1>3 DEF Quiet, Losses
  <2>2. ASSUME NEW i \in DOMAIN events, NEW l, l = events[i].key, NEW n \in events[i].lost
        PROVE  l \in Key /\ Missed(l, n)'
    BY <1>1, <1>3, <2>2 DEF Losses
  <2> QED BY <2>1, <2>2 DEF Quiet, Losses, Missed
<1> QED BY <1>2, <1>3, <1>4

LEMMA TakeLosses ==
  ASSUME Types, Losses, NEW k \in Key, Take(k),
         \A l \in Key, n \in Numbers : Missed(l, n) => Missed(l, n)'
  PROVE  Losses'
<1>0. native \in [Key -> [stage : Stage, waits : BOOLEAN, number : Numbers, lost : SUBSET Numbers]]
  BY DEF Types, TailTypeOK
<1>1. (\A l \in Key : native'[l].lost = native[l].lost) /\ UNCHANGED events
  BY <1>0 DEF Take, wires
<1>2. \A l \in Key : \A n \in native'[l].lost : Missed(l, n)'
  BY <1>0, <1>1 DEF Losses
<1>3. ASSUME NEW i \in DOMAIN events, NEW l, l = events[i].key, NEW n \in events[i].lost
      PROVE  l \in Key /\ Missed(l, n)'
  <2>1. l \in Key /\ n \in Numbers
    BY <1>3, EventTypes
  <2> QED BY <1>3, <2>1 DEF Losses
<1> QED BY <1>1, <1>2, <1>3 DEF Losses, Missed

LEMMA GapInit == Init => GapInv
<1> SUFFICES ASSUME Init PROVE GapInv
  OBVIOUS
<1>1. TailInv
  BY InvInit
<1>2. Ends
  BY DEF Init, Ends, StopEnds, HaltEnds, ClearEnds
<1>3. Ordered /\ Losses
  BY DEF Init, Ordered, Losses
<1>4. Telling
  BY DEF Init, Telling, NoTail
<1> QED BY <1>1, <1>2, <1>3, <1>4 DEF GapInv

LEMMA GapKept == ASSUME ~Early, GapInv, [Next]_vars PROVE GapInv'
<1> USE DEF GapInv, TailInv
<1>1. TailInv'
  BY InvKept
<1>2. \A k \in Key : (Over(k) => Over(k)') /\ (Gone(k) => Gone(k)')
  <2>1. Types
    OBVIOUS
  <2> QED BY <2>1, GoneKept
<1>3. CASE UNCHANGED vars
  <2>1. Ends'
    BY <1>3 DEF Ends, StopEnds, HaltEnds, ClearEnds, Over, Gone, Runs, vars, nativeVars, wires, page
  <2>2. Ordered' /\ Losses'
    BY <1>3 DEF Ordered, Losses, Missed, vars, nativeVars, wires, page
  <2>3. Telling'
    BY <1>3 DEF Telling, Missed, Over, Gone, Runs, vars, nativeVars, wires, page
  <2> QED BY <1>1, <2>1, <2>2, <2>3
<1>4. ASSUME NEW k \in Key,
             \/ Subscribe(k) \/ Register(k) \/ Capture(k) \/ Take(k) \/ Emit(k) \/ StopRuns(k)
             \/ Closed(k)
      PROVE  GapInv'
  <2>1. Ends'
    BY <1>2, <1>4, NativeEnds
  <2>2. Ordered' /\ Losses' /\ \A l \in Key, n \in Numbers : Missed(l, n) => Missed(l, n)'
    <3>1. CASE Take(k)
      BY <3>1, TakeOrder, TakeLosses
    <3>2. CASE Emit(k)
      BY <3>2, EmitOrder
    <3>3. CASE Subscribe(k) \/ Register(k) \/ Capture(k) \/ StopRuns(k) \/ Closed(k)
      <4>1. native \in [Key -> [stage : Stage, waits : BOOLEAN, number : Numbers,
                                lost : SUBSET Numbers]]
        BY DEF Types, TailTypeOK
      <4>2. Quiet
        BY <3>3, <4>1 DEF Subscribe, Register, Capture, StopRuns, Closed, wires, page, Quiet
      <4> QED BY <4>2, QuietOrder
    <3> QED BY <1>4, <3>1, <3>2, <3>3
  <2>3. Telling'
    <3>1. UNCHANGED page
      BY <1>4 DEF Subscribe, Register, Capture, Take, Emit, StopRuns, Closed
    <3>2. UNCHANGED <<applied, received, tails, told, active>>
      BY <3>1 DEF page
    <3>3. active.tail = 0 => active.channels = {}
      BY DEF Telling
    <3> QED BY <1>2, <2>2, <3>2, <3>3, TellKept
  <2> QED BY <1>1, <2>1, <2>2, <2>3
<1>5. CASE Listen
  <2>1. Ends'
    BY <1>2, <1>5, PageEnds
  <2> QED BY <1>1, <1>5, <2>1, ListenOrder
<1>6. ASSUME \/ StartLive \/ StopLive \/ NewSource \/ (\E c \in Channels : ClearChannel(c))
             \/ Continuations \/ ChannelCleared \/ ClearFails
             \/ \E k \in Key : StartAnswered(k) \/ StopAnswered(k)
      PROVE  GapInv'
  <2>1. Ends'
    BY <1>2, <1>6, PageEnds
  <2>2. Quiet
    BY <1>6 DEF StartLive, StopLive, NewSource, ClearChannel, Continuations, HaltResumes,
                ClearResumes, StartResumes, ChannelCleared, ClearFails, StartAnswered,
                StopAnswered, nativeVars, wires, Quiet
  <2>3. Ordered' /\ Losses' /\ \A l \in Key, n \in Numbers : Missed(l, n) => Missed(l, n)'
    BY <2>2, QuietOrder
  <2>4. Telling'
    BY <1>2, <1>6, <2>3, PageTelling
  <2> QED BY <1>1, <2>1, <2>3, <2>4
<1> QED BY <1>3, <1>4, <1>5, <1>6 DEF Next, SystemSteps, UserSteps

\* Where no tail is stopped and no channel cleared before its start is through, no batch that is in
\* the view of a running tail is reported as missing: what a batch or the answer of a stop tells of
\* (listen, stopLiveTail, clearChannel) are numbers that will never be applied.
THEOREM GapsReal == ASSUME ~Early PROVE Spec => []GapsAreReal
<1>1. GapInv => GapsAreReal
  <2> SUFFICES ASSUME GapInv, NEW c \in active.channels,
                      native[<<active.tail, c>>].stage \in Running,
                      NEW n \in applied[<<active.tail, c>>], <<c, n>> \in told
               PROVE  FALSE
    BY DEF GapsAreReal
  <2> DEFINE k == <<active.tail, c>>
  <2>1. /\ active \in [tail : 0..MaxTail, channels : SUBSET Channels] /\ active.tail # 0
        /\ applied \in [Key -> SUBSET Numbers]
    BY DEF GapInv, TailInv, Types, TailTypeOK, Telling
  <2>2. k \in Key
    BY <2>1, TailAssumption DEF Key, TailId
  <2>3. ~Gone(k) /\ n \in Numbers /\ k[1] = active.tail /\ k[2] = c
    BY <2>1, <2>2 DEF Gone, Runs
  <2>4. Missed(k, n)
    BY <2>2, <2>3 DEF GapInv, Telling
  <2> QED BY <2>4 DEF Missed
<1> QED BY <1>1, GapInit, GapKept, PTL DEF Spec

----------------------------------------------------------------------------
(* The accounts of a stop *)

\* What the stops of a tail leave: it does not run, nor is the answer that it was closed on its way.
Ceased(k) == native[k].stage \in {"none", "closed"} /\ stop[k] # "ok"

\* A tail that is closed has nothing left to emit, a stop is refused where there is nothing to stop,
\* and until the page has its own tail no one else has asked for its stop.
Closes ==
  \A k \in Key :
    /\ native[k].stage = "closed" => ~native[k].waits /\ emitting[k] = {}
    /\ native[k].stage = "closing" => stop[k] = "closing"
    /\ stop[k] = "err" => Ceased(k)
    /\ k[1] = active.tail /\ k[1] \in starting =>
         stop[k] = "none" /\ k \notin pending /\ (start[k] = "ok" => native[k].stage = "registered")

\* What is remembered of a tail is in the view.
Remembered ==
  /\ \A k \in Key : UNION snapshot[k] \subseteq applied[k]
  /\ \A c \in DOMAIN halting.out :
       c \in DOMAIN halting.received /\ halting.received[c] \subseteq applied[<<halting.tail, c>>]

\* What stopLiveTail and clearChannel have been told of their tails.
Answers ==
  /\ \A c \in DOMAIN halting.out :
       LET k == <<halting.tail, c>>
       IN /\ halting.out[c] # "wait" => Ceased(k)
          /\ halting.out[c] = "ok" => native[k].stage = "closed"
  /\ clearing # NoClear =>
       /\ clearing.channel \in loaded
       /\ clearing.tailing /\ clearing.step # "stop" => Ceased(<<clearing.tail, clearing.channel>>)

\* The tail that the page has, its start being through, and the call of stopLiveTail that is about
\* it.
Held == active.tail # 0 /\ active.tail \notin starting
Own(c) == <<active.tail, c>>
Stopping == halting.tail = active.tail
Acknowledged(c) == Stopping /\ c \in DOMAIN halting.out /\ halting.out[c] = "ok"
Here == shown.channels \cup (IF Stopping THEN DOMAIN halting.out ELSE {})

\* The page shows what it has.
Shows ==
  /\ active.tail = 0 => shown.tail = 0
  /\ Held => shown.tail \in {0, active.tail} /\ active.channels \subseteq shown.channels

\* stopLiveTail is about every channel shown; one whose stop was acknowledged is not stopped again.
Covers ==
  Held /\ Stopping =>
    /\ shown.channels \subseteq DOMAIN halting.out
    /\ DOMAIN halting.out \cap loaded \subseteq shown.channels
    /\ \A c \in DOMAIN halting.out :
         halting.out[c] = "ok" => stop[Own(c)] = "none" /\ Own(c) \notin pending

\* Unless stopLiveTail is at work, only clearChannel stops a channel of the tail, and either all of
\* them have ceased or just the one being cleared.
Clears(c, steps) ==
  /\ clearing # NoClear /\ clearing.tail = active.tail /\ clearing.channel = c
  /\ clearing.step \in steps
Alone ==
  Held /\ ~Stopping =>
    \A c \in shown.channels :
      /\ ~Ceased(Own(c)) /\ (stop[Own(c)] # "none" \/ Own(c) \in pending) => Clears(c, {"stop"})
      /\ Ceased(Own(c)) => \/ Clears(c, {"ok", "clear"})
                           \/ \A d \in shown.channels : Ceased(Own(d))

\* A channel whose stop was refused is still shown.  One whose stop was acknowledged to clearChannel
\* is no more in the tail, or stopLiveTail has the same answer, or it is the only one that
\* stopLiveTail can put back.
Clearing ==
  Held => \A c \in Channels :
    /\ Clears(c, {"stop", "ok", "err", "clear"}) => source = clearing.source
    /\ Clears(c, {"stop", "err"}) => c \in shown.channels /\ ~Acknowledged(c)
    /\ Clears(c, {"stop"}) => c \notin active.channels \/ Ceased(Own(c))
    /\ Clears(c, {"ok", "clear"}) =>
         \/ c \notin active.channels /\ c \notin Here
         \/ clearing.tailing /\ c \notin active.channels /\ Acknowledged(c)
         \/ /\ clearing.tailing /\ (c \in active.channels => Here \subseteq {c})
            /\ \A d \in Here \ {c} : Acknowledged(d) \/ ~Ceased(Own(d))

AccountInv == /\ Closes /\ Remembered /\ Answers
              /\ Shows /\ Covers /\ Alone /\ Clearing
AccInv == GapInv /\ AccountInv

\* The calls of stopLiveTail and clearChannel are about channels of a tail that was started, and
\* whose start is through.
LEMMA CallTypes ==
  ASSUME Types, Owners
  PROVE  /\ \A c \in DOMAIN halting.out :
              /\ halting # NoHalt /\ halting \in Halt /\ <<halting.tail, c>> \in Key
              /\ c \in Channels /\ halting.tail \notin starting /\ halting.tail # 0
              /\ halting.tail <= tails
              /\ halting.out[c] \in {"wait", "ok", "err"}
         /\ clearing # NoClear =>
              /\ clearing \in Clear /\ clearing.tail \notin starting /\ clearing.tail <= tails
              /\ clearing.tailing => /\ <<clearing.tail, clearing.channel>> \in Key
                                     /\ clearing.tail # 0
<1>1. ASSUME NEW c \in DOMAIN halting.out
      PROVE  /\ halting # NoHalt /\ halting \in Halt /\ <<halting.tail, c>> \in Key
             /\ c \in Channels /\ halting.tail \notin starting /\ halting.tail # 0
             /\ halting.tail <= tails
             /\ halting.out[c] \in {"wait", "ok", "err"}
  <2>1. halting # NoHalt
    BY <1>1 DEF NoHalt
  <2>2. halting \in Halt
    BY <2>1 DEF Types, Called
  <2> PICK D \in SUBSET Channels : halting.out \in [D -> {"wait", "ok", "err"}]
    BY <2>2 DEF Halt
  <2>3. halting.tail \in TailId /\ 0 \notin TailId
    BY <2>2 DEF Halt, TailId
  <2>4. c \in Channels /\ halting.out[c] \in {"wait", "ok", "err"}
    BY <1>1
  <2> QED BY <2>1, <2>2, <2>3, <2>4 DEF Owners, Halted, Key
<1>2. ASSUME clearing # NoClear
      PROVE  /\ clearing \in Clear /\ clearing.tail \notin starting /\ clearing.tail <= tails
             /\ clearing.tailing => /\ <<clearing.tail, clearing.channel>> \in Key
                                    /\ clearing.tail # 0
  <2>1. clearing \in Clear /\ (clearing.tailing => clearing.tail # 0)
    BY <1>2 DEF Types, Called
  <2>2. clearing.tail # 0 => clearing.tail \in TailId /\ clearing.channel \in Channels
    BY <2>1, TailAssumption DEF Clear, TailId
  <2> QED BY <1>2, <2>1, <2>2 DEF Owners, Cleared, Key
<1> QED BY <1>1, <1>2

\* The channels of the tail that the page has.
LEMMA OwnTypes ==
  ASSUME Types
  PROVE  /\ active \in Views /\ shown \in Views /\ active.tail \in Nat /\ tails \in Nat
         /\ active.tail # 0 => active.tail \in TailId /\ active.tail = tails
         /\ \A c \in Channels : /\ Own(c)[1] = active.tail /\ Own(c)[2] = c
                                /\ active.tail # 0 => Own(c) \in Key
         /\ \A k \in Key : k[1] = active.tail => k = Own(k[2]) /\ k[2] \in Channels
<1>1. /\ active \in Views /\ shown \in Views /\ active.tail \in Nat /\ tails \in Nat
      /\ active.tail # 0 => active.tail \in TailId /\ active.tail = tails
  BY TailAssumption DEF Types, TailTypeOK, Views, TailId
<1> QED BY <1>1 DEF Own, Key

\* A tail whose start is through is not asked for, nor subscribed to.
LEMMA ThroughStart ==
  ASSUME Stages, StopEnds, NEW k \in Key, k[1] \notin starting
  PROVE  start[k] # "asked" /\ native[k].stage # "subscribed"
BY DEF Stages, StopEnds, Unanswered

\* A command or a callback neither stops a tail whose start is through, but by the answer of its
\* stop, nor sets it going.
LEMMA NativeCeased ==
  ASSUME Types, Stages, StopEnds, Closes, NEW k \in Key,
         \/ Subscribe(k) \/ Register(k) \/ Capture(k) \/ Take(k) \/ Emit(k) \/ StopRuns(k)
         \/ Closed(k),
         NEW l \in Key, l[1] \notin starting
  PROVE  /\ Ceased(l)' <=> Ceased(l)
         /\ stop'[l] = "none" <=> stop[l] = "none"
         /\ native[l].stage = "closed" => native'[l].stage = "closed"
<1>0. /\ native \in [Key -> [stage : Stage, waits : BOOLEAN, number : Numbers,
                            lost : SUBSET Numbers]]
      /\ start \in [Key -> {"none", "asked", "ok", "err"}]
      /\ stop \in [Key -> {"none", "asked", "closing", "ok", "err"}]
  BY DEF Types, TailTypeOK
<1>1. start[l] # "asked" /\ native[l].stage # "subscribed"
  BY ThroughStart
<1>2. CASE Subscribe(k) \/ Register(k)
  <2>1. l # k /\ UNCHANGED stop
    BY <1>1, <1>2 DEF Subscribe, Register
  <2>2. native'[l] = native[l]
    BY <1>0, <1>2, <2>1 DEF Subscribe, Register
  <2> QED BY <2>1, <2>2 DEF Ceased
<1>3. CASE Capture(k) \/ Take(k)
  <2>1. native'[l].stage = native[l].stage /\ UNCHANGED stop
    BY <1>0, <1>3 DEF Capture, Take, wires
  <2> QED BY <2>1 DEF Ceased
<1>4. CASE Emit(k)
  <2>1. native'[l].stage = native[l].stage /\ UNCHANGED stop
    BY <1>0, <1>4 DEF Emit
  <2> QED BY <2>1 DEF Ceased
<1>5. CASE StopRuns(k)
  BY <1>0, <1>5 DEF StopRuns, Ceased
<1>6. CASE Closed(k)
  <2>1. stop[k] = "closing"
    BY <1>6 DEF Closed, Closes
  <2> QED BY <1>0, <1>6, <2>1 DEF Closed, Ceased
<1> QED BY <1>2, <1>3, <1>4, <1>5, <1>6

\* A command or a callback: a tail that closes has nothing left to emit, and a stop is refused where
\* there is nothing to stop.
LEMMA NativeCloses ==
  ASSUME Types, Stages, StopEnds, Closes, NEW k \in Key,
         \/ Subscribe(k) \/ Register(k) \/ Capture(k) \/ Take(k) \/ Emit(k) \/ StopRuns(k)
         \/ Closed(k)
  PROVE  Closes'
<1>0. /\ native \in [Key -> [stage : Stage, waits : BOOLEAN, number : Numbers,
                            lost : SUBSET Numbers]]
      /\ emitting \in [Key -> SUBSET Numbers]
      /\ start \in [Key -> {"none", "asked", "ok", "err"}]
      /\ stop \in [Key -> {"none", "asked", "closing", "ok", "err"}]
  BY DEF Types, TailTypeOK
<1>1. UNCHANGED <<active, starting, pending>>
  BY DEF Subscribe, Register, Capture, Take, Emit, StopRuns, Closed, page
<1> SUFFICES ASSUME NEW l \in Key
             PROVE  /\ native'[l].stage = "closed" => ~native'[l].waits /\ emitting'[l] = {}
                    /\ native'[l].stage = "closing" => stop'[l] = "closing"
                    /\ stop'[l] = "err" => Ceased(l)'
                    /\ l[1] = active.tail /\ l[1] \in starting =>
                         /\ stop'[l] = "none" /\ l \notin pending
                         /\ start'[l] = "ok" => native'[l].stage = "registered"
  BY <1>1 DEF Closes
<1>2. /\ native[l].stage = "closed" => ~native[l].waits /\ emitting[l] = {}
      /\ native[l].stage = "closing" => stop[l] = "closing"
      /\ stop[l] = "err" => native[l].stage \in {"none", "closed"}
      /\ l[1] = active.tail /\ l[1] \in starting =>
           /\ stop[l] = "none" /\ l \notin pending
           /\ start[l] = "ok" => native[l].stage = "registered"
  BY DEF Closes, Ceased
<1>3. stop[l] # "none" => start[l] # "asked"
  BY DEF StopEnds, Over
<1>4. native[l].stage = "subscribed" => start[l] = "asked"
  BY DEF StopEnds
<1>5. CASE Subscribe(k)
  <2>1. start[k] = "asked" /\ UNCHANGED <<stop, emitting>>
    BY <1>5 DEF Subscribe
  <2>2. CASE l = k
    <3>1. native'[k].stage \in {"none", "subscribed"} /\ start'[k] # "ok"
      BY <1>0, <1>5 DEF Subscribe
    <3> QED BY <1>2, <1>3, <2>1, <2>2, <3>1 DEF Ceased
  <2>3. CASE l # k
    <3>1. native'[l] = native[l] /\ start'[l] = start[l]
      BY <1>0, <1>5, <2>3 DEF Subscribe
    <3> QED BY <1>2, <2>1, <3>1 DEF Ceased
  <2> QED BY <2>2, <2>3
<1>6. CASE Register(k)
  <2>1. native[k].stage = "subscribed" /\ UNCHANGED <<stop, emitting>>
    BY <1>6 DEF Register
  <2>2. CASE l = k
    <3>1. native'[k].stage = "registered"
      BY <1>0, <1>6 DEF Register
    <3> QED BY <1>2, <1>3, <1>4, <2>1, <2>2, <3>1 DEF Ceased
  <2>3. CASE l # k
    <3>1. native'[l] = native[l] /\ start'[l] = start[l]
      BY <1>0, <1>6, <2>3 DEF Register
    <3> QED BY <1>2, <2>1, <3>1 DEF Ceased
  <2> QED BY <2>2, <2>3
<1>7. CASE Capture(k) \/ Take(k)
  <2>1. /\ native'[l].stage = native[l].stage /\ UNCHANGED <<start, stop>>
        /\ native[l].stage = "closed" => native'[l].waits = native[l].waits
        /\ native[l].stage = "closed" => emitting'[l] = emitting[l]
    <3>1. CASE Capture(k)
      BY <1>0, <3>1 DEF Capture, wires, Running
    <3>2. CASE Take(k)
      <4>1. native[k].stage # "closed"
        BY <3>2 DEF Take, Closes
      <4> QED BY <1>0, <3>2, <4>1 DEF Take, wires
    <3> QED BY <1>7, <3>1, <3>2
  <2> QED BY <1>2, <2>1 DEF Ceased
<1>8. CASE Emit(k)
  <2>1. /\ native'[l].stage = native[l].stage /\ UNCHANGED <<start, stop>>
        /\ native'[l].waits = native[l].waits
    BY <1>0, <1>8 DEF Emit
  <2>2. emitting'[l] \subseteq emitting[l]
    BY <1>0, <1>8 DEF Emit
  <2> QED BY <1>2, <2>1, <2>2 DEF Ceased
<1>9. CASE StopRuns(k)
  <2>1. stop[k] = "asked" /\ UNCHANGED <<start, emitting>>
    BY <1>9 DEF StopRuns
  <2>2. CASE l = k
    <3>1. \/ native'[k].stage = "closing" /\ stop'[k] = "closing"
          \/ /\ native'[k] = native[k] /\ stop'[k] = "err" /\ native[k].stage # "registered"
      BY <1>0, <1>9 DEF StopRuns
    <3>2. native[k].stage \in {"none", "registered", "closed"}
      BY <1>0, <1>2, <1>3, <1>4, <2>1, <2>2 DEF Stage
    <3> QED BY <1>2, <2>1, <2>2, <3>1, <3>2 DEF Ceased
  <2>3. CASE l # k
    <3>1. native'[l] = native[l] /\ stop'[l] = stop[l]
      BY <1>0, <1>9, <2>3 DEF StopRuns
    <3> QED BY <1>2, <2>1, <3>1 DEF Ceased
  <2> QED BY <2>2, <2>3
<1>10. CASE Closed(k)
  <2>1. /\ native[k].stage = "closing" /\ ~native[k].waits /\ emitting[k] = {}
        /\ UNCHANGED <<start, emitting>>
    BY <1>10 DEF Closed
  <2>2. CASE l = k
    <3>1. native'[k].stage = "closed" /\ native'[k].waits = native[k].waits /\ stop'[k] = "ok"
      BY <1>0, <1>10 DEF Closed
    <3> QED BY <1>2, <2>1, <2>2, <3>1
  <2>3. CASE l # k
    <3>1. native'[l] = native[l] /\ stop'[l] = stop[l]
      BY <1>0, <1>10, <2>3 DEF Closed
    <3> QED BY <1>2, <2>1, <3>1 DEF Ceased
  <2> QED BY <2>2, <2>3
<1> QED BY <1>5, <1>6, <1>7, <1>8, <1>9, <1>10

\* What is remembered stays in the view when more is remembered of what the page has received.
LEMMA RememberedKept ==
  ASSUME Types, Remembered, \A k \in Key : applied[k] \subseteq applied'[k],
         \A k \in Key : snapshot'[k] \in {snapshot[k], {received[k]}, {Known(k)}, {}},
         \A c \in DOMAIN halting'.out :
           LET k == <<halting'.tail, c>>
           IN /\ k \in Key /\ c \in DOMAIN halting'.received
              /\ \/ halting'.received[c] = Known(k)
                 \/ /\ halting'.tail = halting.tail /\ c \in DOMAIN halting.out
                    /\ halting'.received = halting.received
  PROVE  Remembered'
<1>1. \A k \in Key : received[k] \subseteq applied[k]
  BY DEF Types, TailTypeOK
<1>2. \A k \in Key : Known(k) \subseteq applied[k]
  <2>1. ASSUME NEW k \in Key
        PROVE  Known(k) \subseteq applied[k]
    <3>1. Known(k) \in {received[k], UNION snapshot[k]}
      BY DEF Known
    <3> QED BY <1>1, <3>1 DEF Remembered
  <2> QED BY <2>1
<1>3. ASSUME NEW k \in Key
      PROVE  UNION snapshot'[k] \subseteq applied'[k]
  <2>1. UNION snapshot'[k] \in {UNION snapshot[k], received[k], Known(k), {}}
    OBVIOUS
  <2> QED BY <1>1, <1>2, <2>1 DEF Remembered
<1>4. ASSUME NEW c \in DOMAIN halting'.out
      PROVE  /\ c \in DOMAIN halting'.received
             /\ halting'.received[c] \subseteq applied'[<<halting'.tail, c>>]
  <2> DEFINE k == <<halting'.tail, c>>
  <2>1. k \in Key /\ c \in DOMAIN halting'.received
    BY <1>4
  <2>2. halting'.received[c] \subseteq applied[k]
    BY <1>2, <1>4 DEF Remembered
  <2> QED BY <2>1, <2>2
<1> QED BY <1>3, <1>4 DEF Remembered

\* A stop that is asked for changes nothing of what the stops so far have left.
LEMMA AskCeased ==
  ASSUME Types, UNCHANGED native, NEW keys \in SUBSET Key, AskStops(keys), NEW k \in Key
  PROVE  /\ Ceased(k)' <=> Ceased(k)
         /\ stop'[k] # stop[k] => stop[k] = "none" /\ stop'[k] = "asked"
         /\ k \notin keys => stop'[k] = stop[k] /\ (k \in pending' <=> k \in pending)
BY DEF AskStops, Ceased

\* The page leaves the tails that close as they are; when it turns to another tail its start has
\* just been made, or is through.
LEMMA PageCloses ==
  ASSUME Types, Closes, UNCHANGED <<native, emitting>>,
         \A k \in Key : \/ stop'[k] = stop[k]
                        \/ stop[k] = "none" /\ stop'[k] = "asked"
                        \/ stop[k] \in {"ok", "err"} /\ stop'[k] = "none",
         \A k \in Key : k[1] = active'.tail /\ k[1] \in starting' =>
           /\ stop'[k] = "none" /\ k \notin pending'
           /\ start'[k] = "ok" => native[k].stage = "registered"
  PROVE  Closes'
<1>1. \A k \in Key : stop'[k] = "err" => stop[k] = "err"
  OBVIOUS
<1>2. \A k \in Key : native[k].stage = "closing" => stop'[k] = "closing"
  BY DEF Closes
<1>3. \A k \in Key : stop'[k] = "err" => Ceased(k)'
  BY <1>1 DEF Closes, Ceased
<1> QED BY <1>2, <1>3 DEF Closes

\* What the page keeps of its own tail while it turns to nothing else, and the stops of the tail are
\* neither asked for nor answered.
LEMMA OwnKept ==
  ASSUME Types, Owners, Answers, Shows, Covers, Alone, Clearing,
         UNCHANGED <<active, shown, loaded, source, halting, clearing>>,
         starting' \subseteq starting, active.tail \in starting => active.tail \in starting',
         \A k \in Key : k[1] \notin starting =>
           /\ Ceased(k)' <=> Ceased(k)
           /\ native[k].stage = "closed" => native'[k].stage = "closed",
         \A k \in Key : k[1] = active.tail /\ k[1] \notin starting =>
           /\ stop'[k] = "none" <=> stop[k] = "none"
           /\ k \in pending' <=> k \in pending
  PROVE  Answers' /\ Shows' /\ Covers' /\ Alone' /\ Clearing'
<1>0. /\ active \in Views /\ shown \in Views
      /\ \A c \in Channels : active.tail # 0 => Own(c) \in Key /\ Own(c)[1] = active.tail
  BY OwnTypes
<1>1. Answers'
  <2>1. ASSUME NEW c \in DOMAIN halting.out, NEW k, k = <<halting.tail, c>>
        PROVE  /\ halting.out[c] # "wait" => Ceased(k)'
               /\ halting.out[c] = "ok" => native'[k].stage = "closed"
    <3>1. k \in Key /\ k[1] \notin starting
      BY <2>1, CallTypes
    <3> QED BY <2>1, <3>1 DEF Answers
  <2>2. ASSUME clearing # NoClear, clearing.tailing, clearing.step # "stop"
        PROVE  Ceased(<<clearing.tail, clearing.channel>>)'
    <3> PICK k \in Key : k = <<clearing.tail, clearing.channel>> /\ k[1] \notin starting
      BY <2>2, CallTypes
    <3>1. Ceased(k)
      BY <2>2 DEF Answers
    <3>2. Ceased(k)'
      BY <3>1
    <3>3. k = <<clearing'.tail, clearing'.channel>>
      OBVIOUS
    <3> QED BY <3>2, <3>3 DEF Ceased
  <2>3. clearing # NoClear => clearing.channel \in loaded
    BY DEF Answers
  <2> QED BY <2>1, <2>2, <2>3 DEF Answers, NoClear
<1>2. (Held' <=> Held) /\ (Stopping' <=> Stopping) /\ Here' = Here
  BY DEF Held, Stopping, Here
<1>3. Shows'
  BY <1>2 DEF Shows
<1>4. \A c : Own(c)' = Own(c) /\ (Acknowledged(c)' <=> Acknowledged(c))
  BY <1>2 DEF Own, Acknowledged
<1>5. \A c, steps : Clears(c, steps)' <=> Clears(c, steps)
  BY DEF Clears, NoClear
<1>6. ASSUME Held, NEW c \in Channels
      PROVE  /\ Ceased(Own(c))' <=> Ceased(Own(c))
             /\ stop'[Own(c)] = "none" <=> stop[Own(c)] = "none"
             /\ Own(c) \in pending' <=> Own(c) \in pending
  <2>1. Own(c) \in Key /\ Own(c)[1] = active.tail /\ active.tail \notin starting
    BY <1>0, <1>6 DEF Held
  <2>2. Ceased(Own(c))' <=> Ceased(Own(c))
    <3> PICK k \in Key : k = Own(c) /\ k[1] \notin starting
      BY <2>1
    <3>1. Ceased(k)' <=> Ceased(k)
      OBVIOUS
    <3> QED BY <1>4, <3>1 DEF Ceased
  <2> QED BY <2>1, <2>2
<1>7. Covers'
  <2>1. \A c \in DOMAIN halting.out : c \in Channels
    BY CallTypes
  <2> SUFFICES ASSUME Held, Stopping
               PROVE  /\ shown.channels \subseteq DOMAIN halting.out
                      /\ DOMAIN halting.out \cap loaded \subseteq shown.channels
                      /\ \A c \in DOMAIN halting.out : halting.out[c] = "ok" =>
                           stop'[Own(c)] = "none" /\ Own(c) \notin pending'
    BY <1>2, <1>4 DEF Covers
  <2> QED BY <1>6, <2>1 DEF Covers
<1>8. Alone'
  <2> SUFFICES ASSUME Held, ~Stopping, NEW c \in shown.channels
               PROVE  /\ ~Ceased(Own(c))' /\ (stop'[Own(c)] # "none" \/ Own(c) \in pending') =>
                           Clears(c, {"stop"})
                      /\ Ceased(Own(c))' => \/ Clears(c, {"ok", "clear"})
                                            \/ \A d \in shown.channels : Ceased(Own(d))'
    BY <1>2, <1>4, <1>5 DEF Alone
  <2>1. shown.channels \subseteq Channels
    BY <1>0 DEF Views
  <2> QED BY <1>6, <2>1 DEF Alone
<1>9. Clearing'
  <2>1. Here \subseteq Channels
    BY <1>0, CallTypes DEF Here, Views
  <2> SUFFICES ASSUME Held, NEW c \in Channels
               PROVE  /\ Clears(c, {"stop", "ok", "err", "clear"}) => source = clearing.source
                      /\ Clears(c, {"stop", "err"}) => c \in shown.channels /\ ~Acknowledged(c)
                      /\ Clears(c, {"stop"}) => c \notin active.channels \/ Ceased(Own(c))'
                      /\ Clears(c, {"ok", "clear"}) =>
                           \/ c \notin active.channels /\ c \notin Here
                           \/ clearing.tailing /\ c \notin active.channels /\ Acknowledged(c)
                           \/ /\ clearing.tailing /\ (c \in active.channels => Here \subseteq {c})
                              /\ \A d \in Here \ {c} : Acknowledged(d) \/ ~Ceased(Own(d))'
    BY <1>2, <1>4, <1>5 DEF Clearing
  <2> QED BY <1>6, <2>1 DEF Clearing
<1> QED BY <1>1, <1>3, <1>7, <1>8, <1>9

\* The accounts with the types, the owners and the ends of the tails.
LEMMA AccParts ==
  ASSUME AccInv
  PROVE  /\ Types /\ Stages /\ Owners /\ StopEnds
         /\ Closes /\ Remembered /\ Answers /\ Shows /\ Covers /\ Alone /\ Clearing
BY DEF AccInv, GapInv, TailInv, Ends, AccountInv

\* A command or a callback.
LEMMA NativeAccounts ==
  ASSUME AccInv, NEW k \in Key,
         \/ Subscribe(k) \/ Register(k) \/ Capture(k) \/ Take(k) \/ Emit(k) \/ StopRuns(k)
         \/ Closed(k)
  PROVE  AccountInv'
<1>0. /\ Types /\ Stages /\ Owners /\ StopEnds
      /\ Closes /\ Remembered /\ Answers /\ Shows /\ Covers /\ Alone /\ Clearing
  BY AccParts
<1>1. UNCHANGED page
  BY DEF Subscribe, Register, Capture, Take, Emit, StopRuns, Closed
<1>2. UNCHANGED <<active, shown, loaded, source, starting, pending, halting, clearing, snapshot,
                  applied>>
  BY <1>1 DEF page
<1>3. Closes'
  BY <1>0, NativeCloses
<1>4. Remembered'
  BY <1>0, <1>2 DEF Remembered
<1>5. \A l \in Key : l[1] \notin starting =>
        /\ Ceased(l)' <=> Ceased(l)
        /\ stop'[l] = "none" <=> stop[l] = "none"
        /\ native[l].stage = "closed" => native'[l].stage = "closed"
  BY <1>0, NativeCeased
<1>6. Answers' /\ Shows' /\ Covers' /\ Alone' /\ Clearing'
  BY <1>0, <1>2, <1>5, OwnKept
<1> QED BY <1>3, <1>4, <1>6 DEF AccountInv

\* No tail of the page's own is through its start.
LEMMA NotHeld ==
  ASSUME ~Held', active'.tail = 0 => shown'.tail = 0
  PROVE  Shows' /\ Covers' /\ Alone' /\ Clearing'
BY DEF Shows, Covers, Alone, Clearing

\* What the calls of the page have been told stays so.
LEMMA AnswersKept ==
  ASSUME Types, Owners, Answers, UNCHANGED native,
         \/ halting' \in {halting, NoHalt}
         \/ \A c \in DOMAIN halting'.out : halting'.out[c] = "wait",
         \/ clearing' = NoClear
         \/ /\ clearing # NoClear /\ loaded \subseteq loaded'
            /\ clearing'.tail = clearing.tail /\ clearing'.channel = clearing.channel
            /\ clearing'.tailing = clearing.tailing
            /\ clearing'.step # "stop" => clearing.step # "stop",
         \A k \in Key : Ceased(k) => Ceased(k)'
  PROVE  Answers'
<1>1. ASSUME NEW c \in DOMAIN halting'.out, NEW k, k = <<halting'.tail, c>>
      PROVE  /\ halting'.out[c] # "wait" => Ceased(k)'
             /\ halting'.out[c] = "ok" => native'[k].stage = "closed"
  <2> SUFFICES ASSUME halting'.out[c] # "wait"
               PROVE  Ceased(k)' /\ (halting'.out[c] = "ok" => native'[k].stage = "closed")
    OBVIOUS
  <2>1. halting' = halting
    BY <1>1 DEF NoHalt
  <2>2. k \in Key
    BY <1>1, <2>1, CallTypes
  <2> QED BY <1>1, <2>1, <2>2 DEF Answers
<1>2. ASSUME clearing' # NoClear
      PROVE  /\ clearing'.channel \in loaded'
             /\ clearing'.tailing /\ clearing'.step # "stop" =>
                  Ceased(<<clearing.tail, clearing.channel>>)'
  <2>1. /\ clearing # NoClear /\ loaded \subseteq loaded'
        /\ clearing'.tail = clearing.tail /\ clearing'.channel = clearing.channel
        /\ clearing'.tailing = clearing.tailing
        /\ clearing'.step # "stop" => clearing.step # "stop"
    BY <1>2
  <2>2. ASSUME clearing'.tailing, clearing'.step # "stop"
        PROVE  Ceased(<<clearing.tail, clearing.channel>>)'
    <3> PICK k \in Key : k = <<clearing.tail, clearing.channel>>
      BY <2>1, <2>2, CallTypes
    <3>1. Ceased(k)
      BY <2>1, <2>2 DEF Answers
    <3>2. Ceased(k)'
      BY <3>1
    <3>3. k = <<clearing'.tail, clearing'.channel>>
      BY <2>1
    <3> QED BY <3>2, <3>3 DEF Ceased
  <2>3. clearing.channel \in loaded
    BY <2>1 DEF Answers
  <2> QED BY <2>1, <2>2, <2>3
<1> QED BY <1>1, <1>2 DEF Answers, NoClear

\* A start of the page: the tail it turns to is a new one.
LEMMA StartAccounts ==
  ASSUME AccInv, startLiveTail,
         UNCHANGED <<native, emitting, loaded, shown, received, halting, applied>>,
         clearing' \in {clearing, NoClear}
  PROVE  AccountInv'
<1>0. /\ Types /\ Stages /\ Owners /\ StopEnds
      /\ Closes /\ Remembered /\ Answers /\ Shows /\ Covers /\ Alone /\ Clearing
  BY AccParts
<1>a. /\ tails \in Nat /\ \A k \in Key : k[1] \in Nat
      /\ pending \subseteq Key /\ (active.tail # 0 => active.tail = tails)
      /\ stop \in [Key -> {"none", "asked", "closing", "ok", "err"}]
  BY <1>0, TailAssumption DEF Types, TailTypeOK, Key, TailId
<1> DEFINE superseded == Keys(active.tail, active.channels) \ Unanswered
<1>1. /\ tails' = tails + 1 /\ active'.tail = tails' /\ starting' = starting \cup {tails'}
      /\ snapshot' = [k \in Key |-> IF k \in superseded THEN {received[k]} ELSE snapshot[k]]
      /\ AskStops(superseded \cup pending)
      /\ start' = [k \in Key |-> IF k \in Keys(tails', loaded) THEN "asked" ELSE start[k]]
  BY DEF startLiveTail, captureTailSequenceSnapshot
<1>2. superseded \cup pending \in SUBSET Key
  BY <1>a DEF Keys
<1>3. \A k \in superseded \cup pending : k[1] <= tails
  <2>1. \A k \in superseded : k \in Key /\ k[1] <= tails
    BY <1>a DEF Keys, Key, TailId
  <2>2. \A k \in pending : k[1] <= tails
    BY <1>0, <1>a DEF StopEnds, Over
  <2> QED BY <2>1, <2>2
<1> HIDE DEF superseded
<1>4. \A k \in Key : Ceased(k) => Ceased(k)'
  BY <1>0, <1>1, <1>2, AskCeased
<1>5. Closes'
  <2>1. ASSUME NEW k \in Key
        PROVE  stop'[k] = stop[k] \/ (stop[k] = "none" /\ stop'[k] = "asked")
    BY <1>0, <1>1, <1>2, AskCeased
  <2>2. ASSUME NEW k \in Key, k[1] = tails + 1
        PROVE  stop'[k] = "none" /\ k \notin pending' /\ start'[k] # "ok"
    <3>1. ~(k[1] <= tails)
      BY <1>a, <2>2
    <3>2. stop[k] = "none" /\ k \notin pending /\ start[k] = "none"
      BY <1>0, <3>1 DEF StopEnds, Over, Stages
    <3>3. k \notin superseded \cup pending
      BY <1>3, <3>1
    <3>4. stop'[k] = stop[k] /\ k \notin pending'
      BY <1>0, <1>1, <1>2, <3>2, <3>3, AskCeased
    <3> QED BY <1>1, <3>2, <3>4
  <2> QED BY <1>0, <1>1, <2>1, <2>2, PageCloses
<1>6. Remembered'
  <2>1. \A k \in Key : snapshot'[k] \in {snapshot[k], {received[k]}, {Known(k)}, {}}
    BY <1>1
  <2>2. \A c \in DOMAIN halting.out :
          <<halting.tail, c>> \in Key /\ c \in DOMAIN halting.received
    BY <1>0, CallTypes DEF Remembered
  <2> QED BY <1>0, <2>1, <2>2, RememberedKept
<1>7. Answers'
  BY <1>0, <1>4, AnswersKept
<1>8. ~Held' /\ active'.tail # 0
  BY <1>a, <1>1 DEF Held
<1>9. Shows' /\ Covers' /\ Alone' /\ Clearing'
  BY <1>8, NotHeld
<1> QED BY <1>5, <1>6, <1>7, <1>9 DEF AccountInv

\* Another source: the page has no tail.
LEMMA SourceAccounts ==
  ASSUME AccInv, NewSource
  PROVE  AccountInv'
<1>0. /\ Types /\ Stages /\ Owners /\ StopEnds
      /\ Closes /\ Remembered /\ Answers /\ Shows /\ Covers /\ Alone /\ Clearing
  BY AccParts
<1> DEFINE stale == Keys(active.tail, active.channels)
           keys == (stale \ Unanswered) \cup pending
<1>1. /\ UNCHANGED <<native, emitting, start, starting, halting, clearing, applied>>
      /\ snapshot' = [k \in Key |-> IF k \in stale THEN {received[k]} ELSE snapshot[k]]
      /\ AskStops(keys) /\ active'.tail = 0 /\ shown'.tail = 0 /\ loaded' = Channels
  BY DEF NewSource, captureTailSequenceSnapshot, NoTail
<1>2. keys \in SUBSET Key /\ loaded \subseteq Channels /\ \A k \in Key : k[1] # 0
  BY <1>0 DEF Types, TailTypeOK, Keys, Key, TailId
<1> HIDE DEF stale, keys
<1>3. ASSUME NEW k \in Key
      PROVE  /\ Ceased(k) => Ceased(k)'
             /\ stop'[k] = stop[k] \/ (stop[k] = "none" /\ stop'[k] = "asked")
  BY <1>0, <1>1, <1>2, AskCeased
<1>4. Closes'
  BY <1>0, <1>1, <1>2, <1>3, PageCloses
<1>5. Remembered'
  <2>1. \A k \in Key : snapshot'[k] \in {snapshot[k], {received[k]}, {Known(k)}, {}}
    BY <1>1
  <2>2. \A c \in DOMAIN halting.out :
          <<halting.tail, c>> \in Key /\ c \in DOMAIN halting.received
    BY <1>0, CallTypes DEF Remembered
  <2> QED BY <1>0, <1>1, <2>1, <2>2, RememberedKept
<1>6. Answers'
  BY <1>0, <1>1, <1>2, <1>3, AnswersKept
<1>7. Shows' /\ Covers' /\ Alone' /\ Clearing'
  BY <1>1, NotHeld DEF Held
<1> QED BY <1>4, <1>5, <1>6, <1>7 DEF AccountInv

\* A batch comes: where the start of the tail is through, its channel is shown already.
LEMMA ListenAccounts ==
  ASSUME AccInv, Listen
  PROVE  AccountInv'
<1>0. /\ Types /\ Stages /\ Owners /\ StopEnds
      /\ Closes /\ Remembered /\ Answers /\ Shows /\ Covers /\ Alone /\ Clearing
  BY AccParts
<1>a. /\ active \in Views /\ shown \in Views /\ applied \in [Key -> SUBSET Numbers]
      /\ shown.tail = 0 => shown.channels = {}
  BY <1>0, OwnTypes DEF Types, TailTypeOK
<1>1. UNCHANGED <<native, emitting, start, stop, source, active, loaded, starting, pending,
                  snapshot, halting, clearing>>
  BY DEF Listen, nativeVars
<1>2. \A k \in Key : applied[k] \subseteq applied'[k]
  BY <1>a DEF Listen
<1>3. \/ UNCHANGED shown
      \/ \E c \in active.channels :
           /\ active.tail # 0
           /\ shown' = [tail |-> active.tail, channels |-> shown.channels \cup {c}]
  <2>1. ASSUME ~UNCHANGED shown
        PROVE  \E k : /\ active.tail = k[1] /\ k[2] \in active.channels /\ k \in Key
                      /\ shown' = [tail |-> k[1], channels |-> shown.channels \cup {k[2]}]
    <3>1. 1 \in DOMAIN events /\ Head(events) = events[1]
      BY <1>0 DEF Listen, Types, TailTypeOK
    <3>2. Head(events).key \in Key
      BY <1>0, <3>1, EventTypes
    <3> QED BY <2>1, <3>2 DEF Listen
  <2> QED BY <2>1 DEF Key, TailId
<1>4. \A k \in Key : Ceased(k)' <=> Ceased(k)
  BY <1>1 DEF Ceased
<1>5. Closes'
  BY <1>0, <1>1 DEF Closes, Ceased
<1>6. Remembered'
  <2>1. \A c \in DOMAIN halting.out :
          <<halting.tail, c>> \in Key /\ c \in DOMAIN halting.received
    BY <1>0, CallTypes DEF Remembered
  <2> QED BY <1>0, <1>1, <1>2, <2>1, RememberedKept
<1>7. Answers'
  BY <1>0, <1>1, <1>4, AnswersKept
<1>8. CASE UNCHANGED shown
  <2>1. Shows' /\ Covers' /\ Alone' /\ Clearing'
    BY <1>0, <1>1, <1>4, <1>8, OwnKept
  <2> QED BY <1>5, <1>6, <1>7, <2>1 DEF AccountInv
<1>9. CASE ~UNCHANGED shown
  <2> PICK c \in active.channels :
        /\ active.tail # 0
        /\ shown' = [tail |-> active.tail, channels |-> shown.channels \cup {c}]
    BY <1>3, <1>9
  <2>1. ~Held
    <3> SUFFICES ASSUME Held PROVE FALSE
      OBVIOUS
    <3>1. shown.tail = active.tail /\ c \in shown.channels
      BY <1>0, <1>a DEF Shows
    <3>2. shown' = shown
      BY <1>a, <3>1 DEF Views
    <3> QED BY <1>9, <3>2
  <2>2. ~Held' /\ active'.tail # 0
    BY <1>1, <2>1 DEF Held
  <2>3. Shows' /\ Covers' /\ Alone' /\ Clearing'
    BY <2>2, NotHeld
  <2> QED BY <1>5, <1>6, <1>7, <2>3 DEF AccountInv
<1> QED BY <1>8, <1>9

\* A start is answered: only one that has been superseded is stopped.
LEMMA StartAnsweredAccounts ==
  ASSUME AccInv, NEW k \in Key, StartAnswered(k)
  PROVE  AccountInv'
<1>0. /\ Types /\ Stages /\ Owners /\ StopEnds
      /\ Closes /\ Remembered /\ Answers /\ Shows /\ Covers /\ Alone /\ Clearing
  BY AccParts
<1> DEFINE keys == IF start[k] = "ok" /\ active.tail # k[1] THEN {k} ELSE {}
<1>1. /\ UNCHANGED <<native, emitting, start, source, active, shown, loaded, starting, received,
                     halting, clearing, applied>>
      /\ AskStops(keys)
      /\ snapshot' = [l \in Key |-> IF l \in keys THEN {received[l]} ELSE snapshot[l]]
  BY DEF StartAnswered, nativeVars, cleanupStaleTailStart, captureTailSequenceSnapshot
<1>2. keys \in SUBSET Key /\ \A l \in keys : l[1] # active.tail
  OBVIOUS
<1> HIDE DEF keys
<1>3. ASSUME NEW l \in Key
      PROVE  /\ Ceased(l)' <=> Ceased(l)
             /\ stop'[l] = stop[l] \/ (stop[l] = "none" /\ stop'[l] = "asked")
             /\ l[1] = active.tail => stop'[l] = stop[l] /\ (l \in pending' <=> l \in pending)
  BY <1>0, <1>1, <1>2, AskCeased
<1>4. Closes'
  <2>1. ASSUME NEW l \in Key, l[1] = active'.tail, l[1] \in starting'
        PROVE  /\ stop'[l] = "none" /\ l \notin pending'
               /\ start'[l] = "ok" => native[l].stage = "registered"
    BY <1>0, <1>1, <1>3, <2>1 DEF Closes
  <2> QED BY <1>0, <1>1, <1>3, <2>1, PageCloses
<1>5. Remembered'
  <2>1. \A l \in Key : snapshot'[l] \in {snapshot[l], {received[l]}, {Known(l)}, {}}
    BY <1>1
  <2>2. \A c \in DOMAIN halting.out :
          <<halting.tail, c>> \in Key /\ c \in DOMAIN halting.received
    BY <1>0, CallTypes DEF Remembered
  <2> QED BY <1>0, <1>1, <2>1, <2>2, RememberedKept
<1>6. Answers' /\ Shows' /\ Covers' /\ Alone' /\ Clearing'
  BY <1>0, <1>1, <1>3, OwnKept
<1> QED BY <1>4, <1>5, <1>6 DEF AccountInv

\* A start goes on: the tail is shown, and none of its channels has been stopped, or it is stopped.
LEMMA StartResumesAccounts ==
  ASSUME AccInv, NEW t \in TailId, StartResumes(t)
  PROVE  AccountInv'
<1>0. /\ Types /\ Stages /\ Owners /\ StopEnds
      /\ Closes /\ Remembered /\ Answers /\ Shows /\ Covers /\ Alone /\ Clearing
  BY AccParts
<1> DEFINE started == {c \in Channels : start[<<t, c>>] = "ok"}
<1>1. /\ UNCHANGED <<native, emitting, start, source, loaded, received, halting, clearing, applied>>
      /\ t \in starting /\ starting' = starting \ {t}
      /\ \/ /\ active.tail = t /\ active' = [tail |-> t, channels |-> started] /\ shown' = active'
            /\ UNCHANGED <<stop, pending, snapshot>>
         \/ /\ active.tail # t /\ AskStops(Keys(t, started)) /\ UNCHANGED <<active, shown>>
            /\ snapshot' = [l \in Key |-> IF l \in Keys(t, started) THEN {received[l]}
                                          ELSE snapshot[l]]
  BY DEF StartResumes, nativeVars, cleanupStaleTailStart, captureTailSequenceSnapshot
<1>2. \A c \in started : <<t, c>> \in Key /\ start[<<t, c>>] = "ok" /\ c \in Channels
  BY DEF Key
<1>3. t # 0
  BY DEF TailId
<1> HIDE DEF started
<1>4. Remembered'
  <2>1. \A l \in Key : snapshot'[l] \in {snapshot[l], {received[l]}, {Known(l)}, {}}
    BY <1>1
  <2>2. \A c \in DOMAIN halting.out :
          <<halting.tail, c>> \in Key /\ c \in DOMAIN halting.received
    BY <1>0, CallTypes DEF Remembered
  <2> QED BY <1>0, <1>1, <2>1, <2>2, RememberedKept
<1>5. CASE active.tail = t
  <2>1. /\ active' = [tail |-> t, channels |-> started] /\ shown' = active'
        /\ UNCHANGED <<stop, pending, snapshot>>
    BY <1>1, <1>5
  <2>2. \A k \in Key : Ceased(k)' <=> Ceased(k)
    BY <1>1, <2>1 DEF Ceased
  <2>3. Closes'
    <3>1. \A k \in Key : k[1] = active'.tail => k[1] \notin starting'
      BY <1>1, <2>1
    <3> QED BY <1>0, <1>1, <2>1, <3>1, PageCloses
  <2>4. Answers'
    BY <1>0, <1>1, <2>2, AnswersKept
  <2>5. Shows'
    BY <1>3, <2>1 DEF Shows
  <2>6. ~Stopping'
    BY <1>0, <1>1, <1>3, <2>1 DEF Stopping, Owners, Halted, NoHalt
  <2>7. \A c, steps : ~Clears(c, steps)'
    BY <1>0, <1>1, <2>1 DEF Clears, Owners, Cleared, NoClear
  <2>8. \A c \in started : ~Ceased(Own(c))' /\ stop'[Own(c)'] = "none" /\ Own(c)' \notin pending'
    <3> SUFFICES ASSUME NEW c \in started
                 PROVE  /\ ~Ceased(Own(c))' /\ stop'[Own(c)'] = "none"
                        /\ Own(c)' \notin pending'
      OBVIOUS
    <3> PICK k \in Key : k = <<t, c>> /\ start[k] = "ok"
      BY <1>2
    <3>1. stop[k] = "none" /\ k \notin pending /\ native[k].stage = "registered"
      BY <1>0, <1>1, <1>5 DEF Closes
    <3>2. Own(c)' = k
      BY <2>1 DEF Own
    <3>3. ~Ceased(k)'
      BY <1>1, <2>1, <3>1 DEF Ceased
    <3> QED BY <2>1, <3>1, <3>2, <3>3 DEF Ceased
  <2>9. Covers' /\ Alone' /\ Clearing'
    <3>1. shown'.channels = started
      BY <2>1
    <3> QED BY <2>6, <2>7, <2>8, <3>1 DEF Covers, Alone, Clearing
  <2> QED BY <1>4, <2>3, <2>4, <2>5, <2>9 DEF AccountInv
<1>6. CASE active.tail # t
  <2>1. AskStops(Keys(t, started)) /\ UNCHANGED <<active, shown>>
    BY <1>1, <1>6
  <2>2. Keys(t, started) \in SUBSET Key /\ \A l \in Keys(t, started) : l[1] = t
    BY DEF Keys
  <2>3. ASSUME NEW l \in Key
        PROVE  /\ Ceased(l)' <=> Ceased(l)
               /\ stop'[l] = stop[l] \/ (stop[l] = "none" /\ stop'[l] = "asked")
               /\ l[1] = active.tail => stop'[l] = stop[l] /\ (l \in pending' <=> l \in pending)
    BY <1>0, <1>1, <1>6, <2>1, <2>2, AskCeased
  <2>4. Closes'
    <3>1. ASSUME NEW l \in Key, l[1] = active'.tail, l[1] \in starting'
          PROVE  /\ stop'[l] = "none" /\ l \notin pending'
                 /\ start'[l] = "ok" => native[l].stage = "registered"
      BY <1>0, <1>1, <2>1, <2>3, <3>1 DEF Closes
    <3> QED BY <1>0, <1>1, <2>3, <3>1, PageCloses
  <2>5. Answers' /\ Shows' /\ Covers' /\ Alone' /\ Clearing'
    BY <1>0, <1>1, <1>6, <2>1, <2>3, OwnKept
  <2> QED BY <1>4, <2>4, <2>5 DEF AccountInv
<1> QED BY <1>5, <1>6

\* A stop of the tail that is shown: the call is about every channel shown.
LEMMA StopLiveAccounts ==
  ASSUME AccInv, ~Early, StopLive
  PROVE  AccountInv'
<1>0. /\ Types /\ Stages /\ Owners /\ StopEnds
      /\ Closes /\ Remembered /\ Answers /\ Shows /\ Covers /\ Alone /\ Clearing
  BY AccParts
<1>a. /\ active \in Views /\ shown \in Views
      /\ \A c \in Channels : active.tail # 0 => Own(c) \in Key
  BY <1>0, OwnTypes
<1> DEFINE keys == Keys(shown.tail, shown.channels)
<1>1. /\ shown.tail # 0 /\ shown.tail \notin starting /\ halting = NoHalt
      /\ UNCHANGED <<native, emitting, start, source, active, shown, loaded, starting, received,
                     clearing, applied>>
      /\ AskStops(keys)
      /\ snapshot' = [k \in Key |-> IF k \in keys THEN {Known(k)} ELSE snapshot[k]]
      /\ halting' = [tail |-> shown.tail,
                     received |-> [c \in shown.channels |-> Known(<<shown.tail, c>>)],
                     out |-> [c \in shown.channels |-> "wait"]]
  BY DEF StopLive, nativeVars, MayPress
<1>2. /\ keys \in SUBSET Key /\ \A k \in keys : k[1] = shown.tail
      /\ \A c \in shown.channels : <<shown.tail, c>> \in Key
  BY <1>a, <1>1 DEF Keys, Key, TailId, Views
<1> HIDE DEF keys
<1>3. ASSUME NEW k \in Key
      PROVE  /\ Ceased(k)' <=> Ceased(k)
             /\ stop'[k] = stop[k] \/ (stop[k] = "none" /\ stop'[k] = "asked")
             /\ k[1] # shown.tail => stop'[k] = stop[k] /\ (k \in pending' <=> k \in pending)
  BY <1>0, <1>1, <1>2, AskCeased
<1>4. Closes'
  <2>1. ASSUME NEW k \in Key, k[1] = active'.tail, k[1] \in starting'
        PROVE  /\ stop'[k] = "none" /\ k \notin pending'
               /\ start'[k] = "ok" => native[k].stage = "registered"
    BY <1>0, <1>1, <1>3, <2>1 DEF Closes
  <2> QED BY <1>0, <1>1, <1>3, <2>1, PageCloses
<1>5. /\ halting'.tail = shown.tail /\ DOMAIN halting'.out = shown.channels
      /\ \A c \in shown.channels : halting'.out[c] = "wait"
      /\ DOMAIN halting'.received = shown.channels
      /\ \A c \in shown.channels : halting'.received[c] = Known(<<shown.tail, c>>)
  BY <1>1
<1>6. Remembered'
  <2>1. \A k \in Key : snapshot'[k] \in {snapshot[k], {received[k]}, {Known(k)}, {}}
    BY <1>1
  <2> QED BY <1>0, <1>1, <1>2, <1>5, <2>1, RememberedKept
<1>7. Answers'
  BY <1>0, <1>1, <1>3, <1>5, AnswersKept
<1>8. Shows' /\ (Held' <=> Held)
  BY <1>0, <1>1 DEF Shows, Held
<1>9. CASE ~Held
  BY <1>4, <1>6, <1>7, <1>8, <1>9 DEF AccountInv, Covers, Alone, Clearing
<1>10. CASE Held
  <2>1. shown.tail = active.tail /\ active.tail # 0
    BY <1>0, <1>1, <1>10 DEF Shows, Held
  <2>2. Stopping' /\ ~Stopping
    BY <1>1, <1>5, <2>1 DEF Stopping, NoHalt
  <2>3. Covers' /\ Alone'
    BY <1>1, <1>5, <2>2 DEF Covers, Alone
  <2>4. Here' = Here
    BY <1>1, <1>5, <2>2 DEF Here
  <2>5. \A c : Own(c)' = Own(c) /\ ~Acknowledged(c)' /\ ~Acknowledged(c)
    BY <1>1, <1>5, <2>2 DEF Own, Acknowledged
  <2>6. \A c, steps : Clears(c, steps)' <=> Clears(c, steps)
    BY <1>1 DEF Clears, NoClear
  <2>7. \A c \in Channels : Ceased(Own(c))' <=> Ceased(Own(c))
    <3> SUFFICES ASSUME NEW c \in Channels PROVE Ceased(Own(c))' <=> Ceased(Own(c))
      OBVIOUS
    <3> PICK k \in Key : k = Own(c)
      BY <1>a, <2>1
    <3>1. Ceased(k)' <=> Ceased(k)
      BY <1>3
    <3> QED BY <2>5, <3>1 DEF Ceased
  <2>8. Here \subseteq Channels
    BY <1>a, <2>2 DEF Here, Views
  <2>9. Clearing'
    <3> SUFFICES ASSUME NEW c \in Channels
                 PROVE  /\ Clears(c, {"stop", "ok", "err", "clear"}) => source = clearing.source
                        /\ Clears(c, {"stop", "err"}) => c \in shown.channels /\ ~Acknowledged(c)
                        /\ Clears(c, {"stop"}) => c \notin active.channels \/ Ceased(Own(c))'
                        /\ Clears(c, {"ok", "clear"}) =>
                             \/ c \notin active.channels /\ c \notin Here
                             \/ clearing.tailing /\ c \notin active.channels /\ Acknowledged(c)
                             \/ /\ clearing.tailing /\ (c \in active.channels => Here \subseteq {c})
                                /\ \A d \in Here \ {c} : Acknowledged(d) \/ ~Ceased(Own(d))'
      BY <1>1, <2>4, <2>5, <2>6 DEF Clearing
    <3> QED BY <1>0, <1>10, <2>7, <2>8 DEF Clearing
  <2> QED BY <1>4, <1>6, <1>7, <1>8, <2>3, <2>9 DEF AccountInv
<1> QED BY <1>9, <1>10

\* What the answer of a stop is to the calls of stopLiveTail and clearChannel.
LEMMA StopAnswer ==
  ASSUME Types, Owners, NEW k \in Key, StopAnswered(k)
  PROVE  /\ halting'.tail = halting.tail /\ halting'.received = halting.received
         /\ DOMAIN halting'.out = DOMAIN halting.out
         /\ \A c \in DOMAIN halting.out :
              /\ k = <<halting.tail, c>> /\ halting.out[c] = "wait" => halting'.out[c] = stop[k]
              /\ k # <<halting.tail, c>> \/ halting.out[c] # "wait" =>
                   halting'.out[c] = halting.out[c]
         /\ clearing' # NoClear <=> clearing # NoClear
         /\ clearing # NoClear =>
              /\ clearing'.tail = clearing.tail /\ clearing'.channel = clearing.channel
              /\ clearing'.source = clearing.source /\ clearing'.tailing = clearing.tailing
              /\ clearing'.step =
                   IF clearing.step = "stop" /\ k = <<clearing.tail, clearing.channel>>
                   THEN stop[k] ELSE clearing.step
<1> DEFINE waits == {c \in DOMAIN halting.out : halting.out[c] = "wait"}
<1>1. /\ halting' = (IF k \in Keys(halting.tail, waits)
                     THEN [halting EXCEPT !.out[k[2]] = stop[k]] ELSE halting)
      /\ clearing' = (IF clearing.step = "stop" /\ k = <<clearing.tail, clearing.channel>>
                      THEN [clearing EXCEPT !.step = stop[k]] ELSE clearing)
      /\ stop[k] \in {"ok", "err"}
  BY DEF StopAnswered
<1>2. \A c \in DOMAIN halting.out :
        k = <<halting.tail, c>> /\ halting.out[c] = "wait" <=>
          k \in Keys(halting.tail, waits) /\ c = k[2]
  <2>1. k = <<k[1], k[2]>>
    BY DEF Key
  <2> QED BY <2>1 DEF Keys
<1>3. k \in Keys(halting.tail, waits) => k[2] \in DOMAIN halting.out
  BY DEF Keys
<1>4. /\ clearing' # NoClear <=> clearing # NoClear
      /\ clearing # NoClear =>
           /\ clearing'.tail = clearing.tail /\ clearing'.channel = clearing.channel
           /\ clearing'.source = clearing.source /\ clearing'.tailing = clearing.tailing
           /\ clearing'.step =
                IF clearing.step = "stop" /\ k = <<clearing.tail, clearing.channel>>
                THEN stop[k] ELSE clearing.step
  <2>1. CASE clearing.step = "stop" /\ k = <<clearing.tail, clearing.channel>>
    <3>1. clearing \in Clear /\ clearing # NoClear
      BY <2>1, CallTypes DEF NoClear
    <3>2. clearing' = [clearing EXCEPT !.step = stop[k]]
      BY <1>1, <2>1
    <3> QED BY <1>1, <2>1, <3>1, <3>2 DEF Clear, NoClear
  <2>2. CASE ~(clearing.step = "stop" /\ k = <<clearing.tail, clearing.channel>>)
    <3>1. clearing' = clearing
      BY <1>1, <2>2
    <3> QED BY <2>2, <3>1 DEF NoClear
  <2> QED BY <2>1, <2>2
<1>5. CASE k \in Keys(halting.tail, waits)
  <2>1. /\ halting \in Halt /\ halting' = [halting EXCEPT !.out[k[2]] = stop[k]]
    BY <1>1, <1>3, <1>5, CallTypes
  <2> HIDE DEF waits
  <2>2. /\ halting'.tail = halting.tail /\ halting'.received = halting.received
        /\ halting'.out = [halting.out EXCEPT ![k[2]] = stop[k]]
    BY <2>1 DEF Halt
  <2>3. /\ DOMAIN halting'.out = DOMAIN halting.out
        /\ \A c \in DOMAIN halting.out :
             halting'.out[c] = IF c = k[2] THEN stop[k] ELSE halting.out[c]
    <3> PICK D \in SUBSET Channels : halting.out \in [D -> {"wait", "ok", "err"}]
      BY <2>1 DEF Halt
    <3> QED BY <2>2
  <2> QED BY <1>2, <1>4, <1>5, <2>2, <2>3
<1>6. CASE k \notin Keys(halting.tail, waits)
  <2>1. /\ halting' = halting
        /\ \A c \in DOMAIN halting.out : ~(k = <<halting.tail, c>> /\ halting.out[c] = "wait")
    BY <1>1, <1>2, <1>6
  <2> HIDE DEF waits
  <2> QED BY <1>4, <2>1
<1> QED BY <1>5, <1>6

\* A stop is answered: to stopLiveTail, where it waits for it, and to clearChannel.
LEMMA StopAnsweredAccounts ==
  ASSUME AccInv, NEW k \in Key, StopAnswered(k)
  PROVE  AccountInv'
<1>0. /\ Types /\ Stages /\ Owners /\ StopEnds
      /\ Closes /\ Remembered /\ Answers /\ Shows /\ Covers /\ Alone /\ Clearing
  BY AccParts
<1>a. /\ active \in Views /\ shown \in Views
      /\ \A c \in Channels : active.tail # 0 => Own(c) \in Key
      /\ stop \in [Key -> {"none", "asked", "closing", "ok", "err"}]
      /\ snapshot \in [Key -> SUBSET SUBSET Numbers]
  BY <1>0, OwnTypes DEF Types, TailTypeOK
<1>1. /\ stop[k] \in {"ok", "err"} /\ stop' = [stop EXCEPT ![k] = "none"]
      /\ \/ stop[k] = "ok" /\ pending' = pending \ {k} /\ snapshot' = [snapshot EXCEPT ![k] = {}]
         \/ stop[k] = "err" /\ UNCHANGED <<pending, snapshot>>
      /\ UNCHANGED <<native, emitting, start, source, active, shown, loaded, starting, applied>>
  BY DEF StopAnswered, nativeVars
<1>2. /\ halting'.tail = halting.tail /\ halting'.received = halting.received
      /\ DOMAIN halting'.out = DOMAIN halting.out
      /\ \A c \in DOMAIN halting.out :
           /\ k = <<halting.tail, c>> /\ halting.out[c] = "wait" => halting'.out[c] = stop[k]
           /\ k # <<halting.tail, c>> \/ halting.out[c] # "wait" =>
                halting'.out[c] = halting.out[c]
  BY <1>0, StopAnswer
<1>3. /\ clearing' # NoClear <=> clearing # NoClear
      /\ clearing # NoClear =>
           /\ clearing'.tail = clearing.tail /\ clearing'.channel = clearing.channel
           /\ clearing'.source = clearing.source /\ clearing'.tailing = clearing.tailing
           /\ clearing'.step =
                IF clearing.step = "stop" /\ k = <<clearing.tail, clearing.channel>>
                THEN stop[k] ELSE clearing.step
  BY <1>0, StopAnswer
<1>4. /\ Ceased(k)' /\ (stop[k] = "ok" => native[k].stage = "closed")
      /\ stop[k] = "err" => Ceased(k)
  <2>1. stop[k] = "ok" => native[k].stage = "closed"
    BY <1>0 DEF Stages
  <2>2. stop[k] = "err" => Ceased(k)
    BY <1>0 DEF Closes
  <2>3. native[k].stage \in {"none", "closed"}
    BY <1>1, <2>1, <2>2 DEF Ceased
  <2>4. stop'[k] = "none"
    BY <1>1, <1>a
  <2> QED BY <1>1, <2>1, <2>2, <2>3, <2>4 DEF Ceased
<1>5. ASSUME NEW l \in Key
      PROVE  /\ Ceased(l) => Ceased(l)'
             /\ l # k => (Ceased(l)' <=> Ceased(l)) /\ stop'[l] = stop[l]
             /\ l \in pending' => l \in pending
             /\ stop'[k] = "none" /\ (stop[k] = "ok" => k \notin pending')
  <2>1. l # k => stop'[l] = stop[l]
    BY <1>1, <1>a
  <2>2. l # k => (Ceased(l)' <=> Ceased(l))
    BY <1>1, <2>1 DEF Ceased
  <2> QED BY <1>1, <1>4, <1>a, <2>1, <2>2
<1>6. Closes'
  <2>1. ASSUME NEW l \in Key, l[1] = active'.tail, l[1] \in starting'
        PROVE  /\ stop'[l] = "none" /\ l \notin pending'
               /\ start'[l] = "ok" => native[l].stage = "registered"
    <3>1. /\ stop[l] = "none" /\ l \notin pending
          /\ start[l] = "ok" => native[l].stage = "registered"
      BY <1>0, <1>1, <2>1 DEF Closes
    <3> QED BY <1>1, <1>5, <3>1
  <2>2. \A l \in Key : stop'[l] = stop[l] \/ (stop[l] \in {"ok", "err"} /\ stop'[l] = "none")
    BY <1>1, <1>a
  <2> QED BY <1>0, <1>1, <2>1, <2>2, PageCloses
<1>7. Remembered'
  <2>1. \A l \in Key : snapshot'[l] \in {snapshot[l], {received[l]}, {Known(l)}, {}}
    BY <1>1, <1>a
  <2>2. \A c \in DOMAIN halting.out :
          <<halting.tail, c>> \in Key /\ c \in DOMAIN halting.received
    BY <1>0, CallTypes DEF Remembered
  <2> QED BY <1>0, <1>1, <1>2, <2>1, <2>2, RememberedKept
<1>8. Answers'
  <2>1. ASSUME NEW c \in DOMAIN halting.out, NEW l, l = <<halting.tail, c>>
        PROVE  /\ halting'.out[c] # "wait" => Ceased(l)'
               /\ halting'.out[c] = "ok" => native[l].stage = "closed"
    <3>1. l \in Key
      BY <1>0, <2>1, CallTypes
    <3>2. CASE k = l /\ halting.out[c] = "wait"
      BY <1>2, <1>4, <2>1, <3>2
    <3>3. CASE ~(k = l /\ halting.out[c] = "wait")
      <4>1. halting'.out[c] = halting.out[c]
        BY <1>2, <2>1, <3>3
      <4> QED BY <1>0, <1>5, <2>1, <3>1, <4>1 DEF Answers
    <3> QED BY <3>2, <3>3
  <2>2. ASSUME clearing # NoClear, clearing.tailing, clearing'.step # "stop"
        PROVE  Ceased(<<clearing.tail, clearing.channel>>)'
    <3> PICK l \in Key : l = <<clearing.tail, clearing.channel>>
      BY <1>0, <2>2, CallTypes
    <3>1. Ceased(l)'
      BY <1>0, <1>3, <1>4, <1>5, <2>2 DEF Answers
    <3>2. l = <<clearing'.tail, clearing'.channel>>
      BY <1>3, <2>2
    <3> QED BY <1>3, <2>2, <3>1, <3>2 DEF Ceased
  <2>3. clearing # NoClear => clearing.channel \in loaded
    BY <1>0 DEF Answers
  <2>4. ASSUME clearing' # NoClear
        PROVE  /\ clearing'.channel \in loaded'
               /\ clearing'.tailing /\ clearing'.step # "stop" =>
                    Ceased(<<clearing.tail, clearing.channel>>)'
    <3>1. clearing # NoClear
      BY <1>3, <2>4
    <3>2. clearing'.channel \in loaded'
      BY <1>1, <1>3, <2>3, <3>1
    <3>3. ASSUME clearing'.tailing, clearing'.step # "stop"
          PROVE  Ceased(<<clearing.tail, clearing.channel>>)'
      BY <1>3, <2>2, <3>1, <3>3
    <3> QED BY <3>2, <3>3
  <2>5. ASSUME NEW c \in DOMAIN halting'.out, NEW l, l = <<halting'.tail, c>>
        PROVE  /\ halting'.out[c] # "wait" => Ceased(l)'
               /\ halting'.out[c] = "ok" => native'[l].stage = "closed"
    BY <1>1, <1>2, <2>1, <2>5
  <2> QED BY <2>4, <2>5 DEF Answers, NoClear
<1>9. /\ Held' <=> Held
      /\ Stopping' <=> Stopping
      /\ Here' = Here
      /\ \A c : Own(c)' = Own(c)
  BY <1>1, <1>2 DEF Held, Stopping, Here, Own
<1>10. Shows'
  BY <1>0, <1>1, <1>9 DEF Shows
<1>11. ASSUME Held, NEW c \in Channels
       PROVE  /\ Own(c) \in Key
              /\ Ceased(Own(c)) => Ceased(Own(c))'
              /\ Own(c) = k => Ceased(Own(c))' /\ stop'[Own(c)] = "none"
              /\ Own(c) # k => /\ Ceased(Own(c))' <=> Ceased(Own(c))
                               /\ stop'[Own(c)] = stop[Own(c)]
              /\ Own(c) \in pending' => Own(c) \in pending
              /\ stop[k] = "ok" /\ Own(c) = k => Own(c) \notin pending'
  <2> PICK l \in Key : l = Own(c)
    BY <1>a, <1>11 DEF Held
  <2>1. Ceased(Own(c))' <=> Ceased(l)'
    BY <1>9 DEF Ceased
  <2>2. Ceased(l) => Ceased(l)'
    BY <1>5
  <2>3. l = k => Ceased(l)' /\ stop'[l] = "none" /\ (stop[k] = "ok" => l \notin pending')
    BY <1>4, <1>5
  <2>4. l # k => (Ceased(l)' <=> Ceased(l)) /\ stop'[l] = stop[l]
    BY <1>5
  <2>5. l \in pending' => l \in pending
    BY <1>5
  <2> QED BY <2>1, <2>2, <2>3, <2>4, <2>5
<1>12. DOMAIN halting.out \subseteq Channels /\ shown.channels \subseteq Channels
  BY <1>0, <1>a, CallTypes DEF Views
<1>13. \A c : Acknowledged(c) => Acknowledged(c)'
  BY <1>2, <1>9 DEF Acknowledged
<1>14. ASSUME Stopping, NEW c \in DOMAIN halting.out, k = Own(c), ~Ceased(k)
       PROVE  stop[k] = "ok" /\ Acknowledged(c)'
  <2>1. stop[k] = "ok"
    BY <1>1, <1>4, <1>14
  <2>2. k = <<halting.tail, c>>
    BY <1>14 DEF Stopping, Own
  <2>3. halting.out[c] = "wait"
    BY <1>0, <1>14, <2>2 DEF Answers
  <2> QED BY <1>2, <1>9, <1>14, <2>1, <2>2, <2>3 DEF Acknowledged
<1>15. Covers'
  <2> SUFFICES ASSUME Held, Stopping
               PROVE  /\ shown.channels \subseteq DOMAIN halting.out
                      /\ DOMAIN halting.out \cap loaded \subseteq shown.channels
                      /\ \A c \in DOMAIN halting.out : halting'.out[c] = "ok" =>
                           stop'[Own(c)] = "none" /\ Own(c) \notin pending'
    BY <1>1, <1>2, <1>9 DEF Covers
  <2>1. ASSUME NEW c \in DOMAIN halting.out, halting'.out[c] = "ok"
        PROVE  stop'[Own(c)] = "none" /\ Own(c) \notin pending'
    <3>1. c \in Channels /\ Own(c) = <<halting.tail, c>>
      BY <1>12 DEF Stopping, Own
    <3>2. CASE k = Own(c) /\ halting.out[c] = "wait"
      <4>1. stop[k] = "ok"
        BY <1>2, <2>1, <3>1, <3>2
      <4> QED BY <1>11, <3>1, <3>2, <4>1
    <3>3. CASE ~(k = Own(c) /\ halting.out[c] = "wait")
      <4>1. halting.out[c] = "ok"
        BY <1>2, <2>1, <3>1, <3>3
      <4>2. stop[Own(c)] = "none" /\ Own(c) \notin pending
        BY <1>0, <4>1 DEF Covers
      <4> QED BY <1>11, <3>1, <4>2
    <3> QED BY <3>2, <3>3
  <2> QED BY <1>0, <2>1 DEF Covers
<1>16. \A c : /\ \A steps : Clears(c, steps) =>
                   \/ Clears(c, steps)'
                   \/ clearing.step = "stop" /\ k = Own(c) /\ clearing'.step = stop[k]
              /\ Clears(c, {"ok", "clear"}) => Clears(c, {"ok", "clear"})'
  BY <1>1, <1>3 DEF Clears, Own
<1>17. Alone'
  <2> SUFFICES ASSUME Held, ~Stopping, NEW c \in shown.channels
               PROVE  /\ ~Ceased(Own(c))' /\ (stop'[Own(c)] # "none" \/ Own(c) \in pending') =>
                           Clears(c, {"stop"})'
                      /\ Ceased(Own(c))' => \/ Clears(c, {"ok", "clear"})'
                                            \/ \A d \in shown.channels : Ceased(Own(d))'
    BY <1>1, <1>9 DEF Alone
  <2>0. c \in Channels
    BY <1>12
  <2>1. ASSUME ~Ceased(Own(c))', stop'[Own(c)] # "none" \/ Own(c) \in pending'
        PROVE  Clears(c, {"stop"})'
    <3>1. Own(c) # k /\ ~Ceased(Own(c)) /\ (stop[Own(c)] # "none" \/ Own(c) \in pending)
      BY <1>11, <2>0, <2>1
    <3>2. Clears(c, {"stop"})
      BY <1>0, <3>1 DEF Alone
    <3> QED BY <1>16, <3>1, <3>2
  <2>2. ASSUME Ceased(Own(c))'
        PROVE  \/ Clears(c, {"ok", "clear"})'
               \/ \A d \in shown.channels : Ceased(Own(d))'
    <3>1. CASE Ceased(Own(c))
      <4>1. Clears(c, {"ok", "clear"}) \/ \A d \in shown.channels : Ceased(Own(d))
        BY <1>0, <3>1 DEF Alone
      <4> QED BY <1>11, <1>12, <1>16, <4>1
    <3>2. CASE ~Ceased(Own(c))
      <4>1. Own(c) = k /\ stop[k] = "ok"
        BY <1>1, <1>4, <1>11, <2>0, <2>2, <3>2
      <4>2. Clears(c, {"stop"})
        BY <1>0, <3>2, <4>1 DEF Alone
      <4> QED BY <1>1, <1>3, <4>1, <4>2 DEF Clears, Own
    <3> QED BY <3>1, <3>2
  <2> QED BY <2>1, <2>2
<1>18. Clearing'
  <2> SUFFICES ASSUME Held, NEW c \in Channels
               PROVE  /\ Clears(c, {"stop", "ok", "err", "clear"})' => source = clearing'.source
                      /\ Clears(c, {"stop", "err"})' => c \in shown.channels /\ ~Acknowledged(c)'
                      /\ Clears(c, {"stop"})' => c \notin active.channels \/ Ceased(Own(c))'
                      /\ Clears(c, {"ok", "clear"})' =>
                           \/ c \notin active.channels /\ c \notin Here
                           \/ clearing'.tailing /\ c \notin active.channels /\ Acknowledged(c)'
                           \/ /\ clearing'.tailing /\ (c \in active.channels => Here \subseteq {c})
                              /\ \A d \in Here \ {c} : Acknowledged(d)' \/ ~Ceased(Own(d))'
    BY <1>1, <1>9 DEF Clearing
  <2>1. Clears(c, {"stop", "ok", "err", "clear"})' => source = clearing'.source
    <3>1. Clears(c, {"stop", "ok", "err", "clear"})' => Clears(c, {"stop", "ok", "err", "clear"})
      BY <1>1, <1>3 DEF Clears
    <3> QED BY <1>0, <1>3, <3>1 DEF Clearing, Clears
  <2>2. ASSUME Clears(c, {"stop", "err"})'
        PROVE  c \in shown.channels /\ ~Acknowledged(c)'
    <3>1. /\ Clears(c, {"stop", "err"})
          /\ clearing.step = "stop" /\ k = Own(c) => stop[k] = "err"
          /\ clearing # NoClear
      BY <1>1, <1>3, <2>2 DEF Clears, Own
    <3>2. c \in shown.channels /\ ~Acknowledged(c)
      BY <1>0, <3>1 DEF Clearing
    <3>3. ASSUME Acknowledged(c)'
          PROVE  FALSE
      <4>1. Stopping /\ c \in DOMAIN halting.out /\ halting'.out[c] = "ok"
        BY <1>2, <1>9, <3>3 DEF Acknowledged
      <4>2. halting.out[c] # "ok" /\ Own(c) = <<halting.tail, c>>
        BY <3>2, <4>1 DEF Acknowledged, Stopping, Own
      <4>3. k = Own(c) /\ halting.out[c] = "wait" /\ stop[k] = "ok"
        BY <1>2, <4>1, <4>2
      <4>4. clearing.step = "err"
        BY <3>1, <4>3 DEF Clears
      <4>5. Ceased(<<clearing.tail, clearing.channel>>)
        BY <1>0, <3>1, <4>4 DEF Answers, Types, Called
      <4>6. Ceased(k)
        BY <3>1, <4>3, <4>5 DEF Clears, Own
      <4> QED BY <4>3, <4>6 DEF Ceased
    <3> QED BY <3>2, <3>3
  <2>3. ASSUME Clears(c, {"stop"})'
        PROVE  c \notin active.channels \/ Ceased(Own(c))'
    <3>1. Clears(c, {"stop"})
      BY <1>1, <1>3, <2>3 DEF Clears
    <3> QED BY <1>0, <1>11, <3>1 DEF Clearing
  <2>4. ASSUME Clears(c, {"ok", "clear"})'
        PROVE  \/ c \notin active.channels /\ c \notin Here
               \/ clearing'.tailing /\ c \notin active.channels /\ Acknowledged(c)'
               \/ /\ clearing'.tailing /\ (c \in active.channels => Here \subseteq {c})
                  /\ \A d \in Here \ {c} : Acknowledged(d)' \/ ~Ceased(Own(d))'
    <3>0. clearing # NoClear /\ clearing'.tailing = clearing.tailing /\ Here \subseteq Channels
      BY <1>3, <1>12, <2>4 DEF Clears, Here
    <3>1. CASE Clears(c, {"ok", "clear"})
      <4>1. ASSUME NEW d \in Here \ {c}, Acknowledged(d) \/ ~Ceased(Own(d))
            PROVE  Acknowledged(d)' \/ ~Ceased(Own(d))'
        <5>0. d \in Channels
          BY <3>0
        <5>1. CASE Acknowledged(d) \/ Own(d) # k
          BY <1>11, <1>13, <4>1, <5>0, <5>1
        <5>2. CASE ~Acknowledged(d) /\ Own(d) = k
          <6>1. ~Ceased(k) /\ stop[Own(d)] # "none"
            BY <1>1, <4>1, <5>2
          <6>2. Stopping
            <7> SUFFICES ASSUME ~Stopping PROVE FALSE
              OBVIOUS
            <7>1. d \in shown.channels
              BY DEF Here
            <7>2. Clears(d, {"stop"})
              BY <1>0, <5>2, <6>1, <7>1 DEF Alone
            <7> QED BY <3>1, <7>2 DEF Clears
          <6>3. d \in DOMAIN halting.out
            BY <1>0, <6>2 DEF Here, Covers
          <6> QED BY <1>14, <5>2, <6>1, <6>2, <6>3
        <5> QED BY <5>1, <5>2
      <4>2. \/ c \notin active.channels /\ c \notin Here
            \/ clearing.tailing /\ c \notin active.channels /\ Acknowledged(c)
            \/ /\ clearing.tailing /\ (c \in active.channels => Here \subseteq {c})
               /\ \A d \in Here \ {c} : Acknowledged(d) \/ ~Ceased(Own(d))
        BY <1>0, <3>1 DEF Clearing
      <4> QED BY <1>13, <3>0, <4>1, <4>2
    <3>2. CASE ~Clears(c, {"ok", "clear"})
      <4>1. /\ clearing.step = "stop" /\ Clears(c, {"stop"}) /\ k = Own(c) /\ stop[k] = "ok"
            /\ clearing.tailing
        <5>1. clearing.step = "stop" /\ Clears(c, {"stop"}) /\ k = Own(c) /\ stop[k] = "ok"
          BY <1>1, <1>3, <2>4, <3>2 DEF Clears, Own
        <5> QED BY <1>0, <3>0, <5>1 DEF Types, Called
      <4>2. ~Ceased(k)
        BY <4>1 DEF Ceased
      <4>3. c \notin active.channels /\ c \in shown.channels
        <5>1. Clears(c, {"stop", "err"})
          BY <4>1 DEF Clears
        <5> QED BY <1>0, <4>1, <4>2, <5>1 DEF Clearing
      <4>4. CASE Stopping
        <5>1. c \in DOMAIN halting.out
          BY <1>0, <4>3, <4>4 DEF Covers
        <5> QED BY <1>14, <3>0, <4>1, <4>2, <4>3, <4>4, <5>1
      <4>5. CASE ~Stopping
        <5>1. Here = shown.channels
          BY <4>5 DEF Here
        <5>2. ASSUME NEW d \in shown.channels \ {c}
              PROVE  ~Ceased(Own(d))'
          <6>1. ~Ceased(Own(d))
            <7> SUFFICES ASSUME Ceased(Own(d)) PROVE FALSE
              OBVIOUS
            <7>1. Clears(d, {"ok", "clear"}) \/ Ceased(Own(c))
              BY <1>0, <4>3, <4>5 DEF Alone
            <7> QED BY <4>1, <4>2, <7>1 DEF Clears
          <6>2. d \in Channels /\ Own(d) # k
            BY <1>12, <4>1 DEF Own
          <6> QED BY <1>11, <6>1, <6>2
        <5> QED BY <3>0, <4>1, <4>3, <5>1, <5>2
      <4> QED BY <4>4, <4>5
    <3> QED BY <3>1, <3>2
  <2> QED BY <2>1, <2>2, <2>3, <2>4
<1> QED BY <1>6, <1>7, <1>8, <1>10, <1>15, <1>17, <1>18 DEF AccountInv

\* stopLiveTail goes on: the channels it puts back have ceased.
LEMMA HaltResumesAccounts ==
  ASSUME AccInv, HaltResumes
  PROVE  AccountInv'
<1>0. /\ Types /\ Stages /\ Owners /\ StopEnds
      /\ Closes /\ Remembered /\ Answers /\ Shows /\ Covers /\ Alone /\ Clearing
  BY AccParts
<1>a. /\ active \in Views /\ shown \in Views
      /\ shown.tail = 0 => shown.channels = {}
      /\ \A k \in Key : k[1] # 0
  BY <1>0, OwnTypes DEF Types, Key, TailId
<1> PICK halt : halt = halting
  OBVIOUS
<1> DEFINE t == halt.tail
           remaining == {c \in DOMAIN halt.out : halt.out[c] = "err"}
           left == IF remaining = {} THEN NoTail ELSE [tail |-> t, channels |-> remaining]
<1>1. /\ halting # NoHalt /\ halting' = NoHalt
      /\ \A c \in DOMAIN halt.out : halt.out[c] # "wait"
      /\ UNCHANGED <<native, emitting, start, stop, source, loaded, starting, pending, clearing,
                     applied>>
  BY DEF HaltResumes, HaltReady, nativeVars, wires
<1>2. \/ /\ shown.tail = t /\ active.tail \in {0, t}
         /\ active' = IF active.tail = t THEN left ELSE active
         /\ shown' = left
      \/ (shown.tail # t \/ active.tail \notin {0, t}) /\ UNCHANGED <<active, shown>>
  BY DEF HaltResumes
<1>3. \A k \in Key : snapshot'[k] \in {snapshot[k], {received[k]}, {Known(k)}, {}}
  <2>1. \E keys : snapshot' = Forgotten(snapshot, keys) \/ snapshot' = snapshot
    BY DEF HaltResumes
  <2> QED BY <2>1 DEF Forgotten
<1>4. /\ t # 0 /\ t \notin starting
      /\ \A c \in remaining : c \in Channels /\ <<t, c>> \in Key
  <2>1. t # 0 /\ t \notin starting
    BY <1>0, <1>1 DEF Types, Called, Halt, TailId, Owners, Halted
  <2> QED BY <1>0, <2>1, CallTypes
<1>5. \A c \in remaining : c \in DOMAIN halt.out /\ halt.out[c] = "err" /\ Ceased(<<t, c>>)
  BY <1>0 DEF Answers
<1>6. \A c \in DOMAIN halt.out : c \notin remaining => halt.out[c] = "ok"
  BY <1>0, <1>1, CallTypes
<1>7. \A k \in Key : Ceased(k)' <=> Ceased(k)
  BY <1>1 DEF Ceased
<1>8. active'.tail \in {0, t, active.tail} /\ (active'.tail \notin {0, t} => UNCHANGED active)
  BY <1>2 DEF NoTail
<1> HIDE DEF remaining
<1>9. Closes'
  <2>1. ASSUME NEW k \in Key, k[1] = active'.tail, k[1] \in starting'
        PROVE  /\ stop'[k] = "none" /\ k \notin pending'
               /\ start'[k] = "ok" => native[k].stage = "registered"
    BY <1>0, <1>1, <1>4, <1>8, <1>a, <2>1 DEF Closes
  <2> QED BY <1>0, <1>1, <2>1, PageCloses
<1>10. Remembered'
  <2>1. DOMAIN halting'.out = {}
    BY <1>1 DEF NoHalt
  <2> QED BY <1>0, <1>1, <1>3, <2>1, RememberedKept
<1>11. Answers'
  BY <1>0, <1>1, <1>7, AnswersKept
<1>12. CASE shown.tail = t /\ active.tail \in {0, t}
  <2>1. shown.tail = t /\ active.tail = t /\ active' = left /\ shown' = left
    BY <1>0, <1>2, <1>4, <1>12 DEF Shows
  <2>2. CASE remaining = {}
    <3>1. active'.tail = 0 /\ shown'.tail = 0
      BY <2>1, <2>2 DEF NoTail
    <3>2. Shows' /\ Covers' /\ Alone' /\ Clearing'
      BY <3>1, NotHeld DEF Held
    <3> QED BY <1>9, <1>10, <1>11, <3>2 DEF AccountInv
  <2>3. CASE remaining # {}
    <3>1. /\ active'.tail = t /\ shown'.tail = t
          /\ active'.channels = remaining /\ shown'.channels = remaining
      BY <2>1, <2>3
    <3>2. Held /\ Stopping /\ ~Stopping'
      BY <1>1, <1>4, <2>1, <3>1 DEF Held, Stopping, NoHalt
    <3>3. Here' = remaining
      BY <3>1, <3>2 DEF Here
    <3>4. \A c : Own(c)' = <<t, c>> /\ Own(c) = <<t, c>> /\ ~Acknowledged(c)'
      BY <2>1, <3>1, <3>2 DEF Own, Acknowledged
    <3>5. \A c \in remaining : Ceased(Own(c))'
      <4> SUFFICES ASSUME NEW c \in remaining PROVE Ceased(Own(c))'
        OBVIOUS
      <4> PICK k \in Key : k = <<t, c>>
        BY <1>4
      <4>1. Ceased(k)'
        BY <1>5, <1>7
      <4>2. Own(c)' = k
        BY <3>4
      <4> QED BY <4>1, <4>2 DEF Ceased
    <3>6. \A c, steps : Clears(c, steps)' <=> Clears(c, steps)
      BY <1>1, <2>1, <3>1 DEF Clears, NoClear
    <3>7. Shows' /\ Covers' /\ Alone'
      BY <1>4, <3>1, <3>2, <3>5 DEF Shows, Covers, Alone
    <3>8. Clearing'
      <4> SUFFICES ASSUME NEW c \in Channels
                   PROVE  /\ Clears(c, {"stop", "ok", "err", "clear"}) => source = clearing.source
                          /\ Clears(c, {"stop", "err"}) => c \in remaining
                          /\ Clears(c, {"ok", "clear"}) =>
                               \/ c \notin remaining
                               \/ clearing.tailing /\ remaining \subseteq {c}
        BY <1>1, <3>1, <3>3, <3>4, <3>5, <3>6 DEF Clearing
      <4>1. Clears(c, {"stop", "ok", "err", "clear"}) => source = clearing.source
        BY <1>0, <3>2 DEF Clearing
      <4>2. ASSUME Clears(c, {"stop", "err"})
            PROVE  c \in remaining
        <5>1. c \in shown.channels /\ ~Acknowledged(c)
          BY <1>0, <3>2, <4>2 DEF Clearing
        <5>2. c \in DOMAIN halt.out
          BY <1>0, <3>2, <5>1 DEF Covers
        <5> QED BY <1>6, <3>2, <5>1, <5>2 DEF Acknowledged
      <4>3. ASSUME Clears(c, {"ok", "clear"}), c \in remaining
            PROVE  clearing.tailing /\ remaining \subseteq {c}
        <5>1. \A d \in remaining : d \in Here /\ ~Acknowledged(d) /\ Ceased(Own(d))
          BY <1>5, <3>2, <3>4 DEF Here, Acknowledged
        <5>2. \/ c \notin active.channels /\ c \notin Here
              \/ clearing.tailing /\ c \notin active.channels /\ Acknowledged(c)
              \/ /\ clearing.tailing /\ (c \in active.channels => Here \subseteq {c})
                 /\ \A d \in Here \ {c} : Acknowledged(d) \/ ~Ceased(Own(d))
          BY <1>0, <3>2, <4>3 DEF Clearing
        <5> QED BY <4>3, <5>1, <5>2
      <4> QED BY <4>1, <4>2, <4>3
    <3> QED BY <1>9, <1>10, <1>11, <3>7, <3>8 DEF AccountInv
  <2> QED BY <2>2, <2>3
<1>13. CASE shown.tail # t \/ active.tail \notin {0, t}
  <2>0. UNCHANGED <<active, shown>>
    BY <1>2, <1>13
  <2>1. Shows' /\ (Held' <=> Held)
    BY <1>0, <1>1, <2>0 DEF Shows, Held
  <2>2. CASE ~Held
    BY <1>9, <1>10, <1>11, <2>1, <2>2 DEF AccountInv, Covers, Alone, Clearing
  <2>3. CASE Held
    <3>1. ~Stopping' /\ active.tail # 0
      BY <1>1, <2>0, <2>3 DEF Stopping, NoHalt, Held
    <3>2. /\ Here' = shown.channels /\ \A c : Own(c)' = Own(c) /\ ~Acknowledged(c)'
          /\ \A c, steps : Clears(c, steps)' <=> Clears(c, steps)
      BY <1>1, <2>0, <3>1 DEF Here, Own, Acknowledged, Clears, NoClear
    <3>3. \A c : Ceased(Own(c))' <=> Ceased(Own(c))
      BY <1>1, <3>2 DEF Ceased
    <3>4. CASE Stopping
      <4>1. active.tail = t
        BY <3>4 DEF Stopping
      <4>2. shown.channels = {} /\ active.channels = {}
        BY <1>0, <1>13, <1>a, <2>3, <3>1, <4>1 DEF Shows
      <4>3. Alone' /\ Covers'
        BY <2>0, <3>1, <4>2 DEF Alone, Covers
      <4>4. \A c \in Channels :
              /\ Clears(c, {"stop", "ok", "err", "clear"}) => source = clearing.source
              /\ ~Clears(c, {"stop", "err"})
        BY <1>0, <2>3, <4>2 DEF Clearing
      <4>5. \A c : Clears(c, {"stop"}) => Clears(c, {"stop", "err"})
        BY DEF Clears
      <4>6. Clearing'
        BY <1>1, <2>0, <3>2, <4>2, <4>4, <4>5 DEF Clearing
      <4> QED BY <1>9, <1>10, <1>11, <2>1, <4>3, <4>6 DEF AccountInv
    <3>5. CASE ~Stopping
      <4>1. Here = shown.channels /\ \A c : ~Acknowledged(c)
        BY <3>5 DEF Here, Acknowledged
      <4>2. Covers'
        BY <3>1 DEF Covers
      <4>3. Alone'
        <5> SUFFICES ASSUME NEW c \in shown.channels
                     PROVE  /\ ~Ceased(Own(c)) /\ (stop[Own(c)] # "none" \/ Own(c) \in pending) =>
                                 Clears(c, {"stop"})
                            /\ Ceased(Own(c)) => \/ Clears(c, {"ok", "clear"})
                                                 \/ \A d \in shown.channels : Ceased(Own(d))
          BY <1>1, <2>0, <3>2, <3>3 DEF Alone
        <5> QED BY <1>0, <2>3, <3>5 DEF Alone
      <4>4. Clearing'
        <5> SUFFICES ASSUME NEW c \in Channels
                     PROVE  /\ Clears(c, {"stop", "ok", "err", "clear"}) => source = clearing.source
                            /\ Clears(c, {"stop", "err"}) => c \in shown.channels
                            /\ Clears(c, {"stop"}) => c \notin active.channels \/ Ceased(Own(c))
                            /\ Clears(c, {"ok", "clear"}) =>
                                 \/ c \notin active.channels /\ c \notin Here
                                 \/ /\ clearing.tailing
                                    /\ (c \in active.channels => Here \subseteq {c})
                                    /\ \A d \in Here \ {c} : ~Ceased(Own(d))
          BY <1>1, <2>0, <3>2, <3>3, <4>1 DEF Clearing
        <5> QED BY <1>0, <2>3, <4>1 DEF Clearing
      <4> QED BY <1>9, <1>10, <1>11, <2>1, <4>2, <4>3, <4>4 DEF AccountInv
    <3> QED BY <3>4, <3>5
  <2> QED BY <2>2, <2>3
<1> QED BY <1>12, <1>13

\* A stop that is asked for anew: stopLiveTail takes the answer it had for a failure.
LEMMA OutdatedIs ==
  ASSUME Types, Owners, NEW k \in Key, halting' = Outdated(k)
  PROVE  /\ halting'.tail = halting.tail /\ halting'.received = halting.received
         /\ DOMAIN halting'.out = DOMAIN halting.out
         /\ \A c \in DOMAIN halting.out :
              halting'.out[c] = IF k = <<halting.tail, c>> /\ stop[k] = "none" THEN "err"
                                ELSE halting.out[c]
<1>1. \A c \in DOMAIN halting.out :
        k = <<halting.tail, c>> <=> k \in Keys(halting.tail, DOMAIN halting.out) /\ c = k[2]
  <2>1. k = <<k[1], k[2]>>
    BY DEF Key
  <2> QED BY <2>1 DEF Keys
<1>2. CASE k \in Keys(halting.tail, DOMAIN halting.out) /\ stop[k] = "none"
  <2>1. k[2] \in DOMAIN halting.out /\ halting' = [halting EXCEPT !.out[k[2]] = "err"]
    BY <1>2 DEF Outdated, Keys
  <2>2. halting \in Halt
    BY <2>1, CallTypes
  <2>3. /\ halting'.tail = halting.tail /\ halting'.received = halting.received
        /\ halting'.out = [halting.out EXCEPT ![k[2]] = "err"]
    BY <2>1, <2>2 DEF Halt
  <2>4. /\ DOMAIN halting'.out = DOMAIN halting.out
        /\ \A c \in DOMAIN halting.out :
             halting'.out[c] = IF c = k[2] THEN "err" ELSE halting.out[c]
    <3> PICK D \in SUBSET Channels : halting.out \in [D -> {"wait", "ok", "err"}]
      BY <2>2 DEF Halt
    <3> QED BY <2>3
  <2> QED BY <1>1, <1>2, <2>3, <2>4
<1>3. CASE ~(k \in Keys(halting.tail, DOMAIN halting.out) /\ stop[k] = "none")
  BY <1>1, <1>3 DEF Outdated
<1> QED BY <1>2, <1>3

\* A channel of the tail is to be cleared: its stop is asked for, whatever stopLiveTail has of it.
LEMMA ClearStopAccounts ==
  ASSUME AccInv, ~Early, NEW c \in Channels, ClearChannel(c), c \in shown.channels
  PROVE  AccountInv'
<1>0. /\ Types /\ Stages /\ Owners /\ StopEnds
      /\ Closes /\ Remembered /\ Answers /\ Shows /\ Covers /\ Alone /\ Clearing
  BY AccParts
<1>a. /\ active \in Views /\ shown \in Views
      /\ shown.tail = 0 => shown.channels = {}
      /\ \A d \in Channels : active.tail # 0 => Own(d) \in Key
  BY <1>0, OwnTypes DEF Types
<1> DEFINE k == <<shown.tail, c>>
<1>1. /\ clearing = NoClear /\ c \in loaded /\ shown.tail \notin starting
      /\ active' = (IF active.tail = shown.tail
                    THEN [active EXCEPT !.channels = @ \ {c}] ELSE active)
      /\ snapshot' = [snapshot EXCEPT ![k] = {Known(k)}]
      /\ AskStops({k}) /\ halting' = Outdated(k)
      /\ clearing' = [step |-> "stop", channel |-> c, tail |-> shown.tail, source |-> source,
                      tailing |-> TRUE, received |-> Known(k)]
      /\ UNCHANGED <<native, emitting, start, source, shown, loaded, starting, received, applied>>
  BY DEF ClearChannel, MayPress
<1>2. k \in Key /\ k[1] = shown.tail /\ shown.tail # 0
  BY <1>a, TailAssumption DEF Key, TailId, Views
<1>3. k = <<shown.tail, c>>
  OBVIOUS
<1> HIDE DEF k
<1>4. ASSUME NEW l \in Key
      PROVE  /\ Ceased(l)' <=> Ceased(l)
             /\ stop'[l] = stop[l] \/ (stop[l] = "none" /\ stop'[l] = "asked")
             /\ l # k => stop'[l] = stop[l] /\ (l \in pending' <=> l \in pending)
  <2>1. {k} \in SUBSET Key
    BY <1>2
  <2> QED BY <1>0, <1>1, <2>1, AskCeased
<1>5. /\ halting'.tail = halting.tail /\ halting'.received = halting.received
      /\ DOMAIN halting'.out = DOMAIN halting.out
      /\ \A d \in DOMAIN halting.out :
           halting'.out[d] = IF k = <<halting.tail, d>> /\ stop[k] = "none" THEN "err"
                             ELSE halting.out[d]
  BY <1>0, <1>1, <1>2, OutdatedIs
<1>6. Closes'
  <2>1. active'.tail = active.tail
    BY <1>1, <1>a DEF Views
  <2>2. ASSUME NEW l \in Key, l[1] = active'.tail, l[1] \in starting'
        PROVE  /\ stop'[l] = "none" /\ l \notin pending'
               /\ start'[l] = "ok" => native[l].stage = "registered"
    BY <1>0, <1>1, <1>2, <1>4, <2>1, <2>2 DEF Closes
  <2> QED BY <1>0, <1>1, <1>4, <2>2, PageCloses
<1>7. Remembered'
  <2>1. \A l \in Key : snapshot'[l] \in {snapshot[l], {received[l]}, {Known(l)}, {}}
    BY <1>0, <1>1 DEF Types, TailTypeOK
  <2>2. \A d \in DOMAIN halting.out :
          <<halting.tail, d>> \in Key /\ d \in DOMAIN halting.received
    BY <1>0, CallTypes DEF Remembered
  <2> QED BY <1>0, <1>1, <1>5, <2>1, <2>2, RememberedKept
<1>8. Answers'
  <2>1. ASSUME NEW d \in DOMAIN halting'.out, NEW l, l = <<halting'.tail, d>>
        PROVE  /\ halting'.out[d] # "wait" => Ceased(l)'
               /\ halting'.out[d] = "ok" => native'[l].stage = "closed"
    <3>1. l \in Key /\ d \in DOMAIN halting.out /\ l = <<halting.tail, d>> /\ halting # NoHalt
      BY <1>0, <1>5, <2>1, CallTypes
    <3>2. k = l /\ stop[k] = "none" => halting.out[d] # "wait"
      BY <3>1 DEF AccInv, GapInv, Ends, HaltEnds, Keys
    <3>3. halting.out[d] # "wait" => Ceased(l)
      BY <1>0, <3>1 DEF Answers
    <3>4. halting.out[d] = "ok" => native[l].stage = "closed"
      BY <1>0, <3>1 DEF Answers
    <3> QED BY <1>1, <1>4, <1>5, <3>1, <3>2, <3>3, <3>4
  <2>2. clearing'.step = "stop" /\ clearing'.channel \in loaded'
    BY <1>1
  <2> QED BY <2>1, <2>2 DEF Answers, NoClear
<1>9. /\ active'.tail = active.tail /\ active'.channels \subseteq active.channels
      /\ Held' <=> Held
      /\ Stopping' <=> Stopping
      /\ Here' = Here
      /\ \A d : Own(d)' = Own(d)
  <2>1. active'.tail = active.tail /\ active'.channels \subseteq active.channels
    BY <1>1, <1>a DEF Views
  <2> QED BY <1>1, <1>5, <2>1 DEF Held, Stopping, Here, Own
<1>10. Shows'
  BY <1>0, <1>1, <1>9 DEF Shows
<1>11. CASE ~Held
  BY <1>6, <1>7, <1>8, <1>9, <1>10, <1>11 DEF AccountInv, Covers, Alone, Clearing
<1>12. CASE Held
  <2>1. shown.tail = active.tail /\ k = Own(c)
    BY <1>0, <1>2, <1>3, <1>12 DEF Shows, Own
  <2>2. c \notin active'.channels
    BY <1>1, <1>a, <2>1 DEF Views
  <2>3. ASSUME NEW d \in Channels
        PROVE  /\ Ceased(Own(d))' <=> Ceased(Own(d))
               /\ d # c => /\ stop'[Own(d)] = stop[Own(d)]
                           /\ Own(d) \in pending' <=> Own(d) \in pending
    <3> PICK l \in Key : l = Own(d)
      BY <1>12, <1>a DEF Held
    <3>1. Ceased(Own(d))' <=> Ceased(l)'
      BY <1>9 DEF Ceased
    <3>2. d # c => l # k
      BY <2>1 DEF Own
    <3> QED BY <1>4, <3>1, <3>2
  <2>4. DOMAIN halting.out \subseteq Channels /\ shown.channels \subseteq Channels
    BY <1>0, <1>a, CallTypes DEF Views
  <2>5. ASSUME Stopping, NEW d \in DOMAIN halting.out, halting'.out[d] = "ok"
        PROVE  d # c /\ halting.out[d] = "ok"
    <3>1. Own(d) = <<halting.tail, d>>
      BY <2>5 DEF Stopping, Own
    <3>2. halting.out[d] = "ok"
      BY <1>5, <2>5
    <3>3. stop[Own(d)] = "none"
      BY <1>0, <1>12, <2>5, <3>2 DEF Covers
    <3> QED BY <1>5, <2>1, <2>5, <3>1, <3>2, <3>3
  <2>6. Covers'
    <3> SUFFICES ASSUME Stopping
                 PROVE  /\ shown.channels \subseteq DOMAIN halting.out
                        /\ DOMAIN halting.out \cap loaded \subseteq shown.channels
                        /\ \A d \in DOMAIN halting.out : halting'.out[d] = "ok" =>
                             stop'[Own(d)] = "none" /\ Own(d) \notin pending'
      BY <1>1, <1>5, <1>9 DEF Covers
    <3>1. ASSUME NEW d \in DOMAIN halting.out, halting'.out[d] = "ok"
          PROVE  stop'[Own(d)] = "none" /\ Own(d) \notin pending'
      <4>1. d # c /\ halting.out[d] = "ok" /\ d \in Channels
        BY <2>4, <2>5, <3>1
      <4> QED BY <1>0, <1>12, <2>3, <4>1 DEF Covers
    <3> QED BY <1>0, <1>12, <3>1 DEF Covers
  <2>7. Alone'
    <3> SUFFICES ASSUME ~Stopping, NEW d \in shown.channels
                 PROVE  /\ /\ ~Ceased(Own(d))'
                           /\ stop'[Own(d)] # "none" \/ Own(d) \in pending'
                           => Clears(d, {"stop"})'
                        /\ Ceased(Own(d))' => \A e \in shown.channels : Ceased(Own(e))'
      BY <1>1, <1>9 DEF Alone
    <3>1. Clears(c, {"stop"})'
      BY <1>1, <1>9, <2>1 DEF Clears, NoClear
    <3>2. \A e, steps : ~Clears(e, steps)
      BY <1>1 DEF Clears
    <3> QED BY <1>0, <1>12, <2>3, <2>4, <3>1, <3>2 DEF Alone
  <2>8. Clearing'
    <3>1. \A d, steps : Clears(d, steps)' => d = c /\ "stop" \in steps
      BY <1>1 DEF Clears
    <3>2. ~Acknowledged(c)'
      BY <1>5, <1>9, <2>5 DEF Acknowledged
    <3>3. source' = clearing'.source /\ shown' = shown
      BY <1>1
    <3> QED BY <2>2, <3>1, <3>2, <3>3 DEF Clearing
  <2> QED BY <1>6, <1>7, <1>8, <1>10, <2>6, <2>7, <2>8 DEF AccountInv
<1> QED BY <1>11, <1>12

\* A channel outside the tail is to be cleared: nothing stops, and nothing can put it back.
LEMMA ClearOtherAccounts ==
  ASSUME AccInv, NEW c \in Channels, ClearChannel(c), c \notin shown.channels
  PROVE  AccountInv'
<1>0. /\ Types /\ Stages /\ Owners /\ StopEnds
      /\ Closes /\ Remembered /\ Answers /\ Shows /\ Covers /\ Alone /\ Clearing
  BY AccParts
<1>1. /\ clearing = NoClear /\ c \in loaded
      /\ clearing' = [step |-> "clear", channel |-> c, tail |-> shown.tail, source |-> source,
                      tailing |-> FALSE, received |-> {}]
      /\ UNCHANGED <<native, emitting, start, stop, source, active, shown, loaded, starting,
                     pending, received, snapshot, halting, applied>>
  BY DEF ClearChannel
<1>2. \A k \in Key : Ceased(k)' <=> Ceased(k)
  BY <1>1 DEF Ceased
<1>3. Closes' /\ Remembered' /\ Shows' /\ Covers'
  BY <1>0, <1>1 DEF Closes, Remembered, Shows, Covers, Held, Stopping, Own, Ceased
<1>4. Answers'
  <2>1. ASSUME NEW d \in DOMAIN halting'.out, NEW l, l = <<halting'.tail, d>>
        PROVE  /\ halting'.out[d] # "wait" => Ceased(l)'
               /\ halting'.out[d] = "ok" => native'[l].stage = "closed"
    BY <1>0, <1>1, <2>1 DEF Answers, Ceased
  <2>2. ~clearing'.tailing /\ clearing'.channel \in loaded'
    BY <1>1
  <2> QED BY <2>1, <2>2 DEF Answers, NoClear
<1>5. /\ (Held' <=> Held) /\ (Stopping' <=> Stopping) /\ Here' = Here
      /\ \A d : Own(d)' = Own(d) /\ (Ceased(Own(d))' <=> Ceased(Own(d)))
      /\ \A d, steps : ~Clears(d, steps)
      /\ \A d, steps : Clears(d, steps)' => d = c /\ "clear" \in steps
  BY <1>1 DEF Held, Stopping, Here, Own, Ceased, Clears
<1>6. Alone'
  <2> SUFFICES ASSUME Held, ~Stopping, NEW d \in shown.channels
               PROVE  /\ Ceased(Own(d)) \/ (stop[Own(d)] = "none" /\ Own(d) \notin pending)
                      /\ Ceased(Own(d)) => \A e \in shown.channels : Ceased(Own(e))
    BY <1>1, <1>5 DEF Alone
  <2> QED BY <1>0, <1>5 DEF Alone
<1>7. Held => c \notin active.channels /\ c \notin Here
  <2> SUFFICES ASSUME Held PROVE c \notin active.channels /\ c \notin Here
    OBVIOUS
  <2>1. c \notin active.channels
    BY <1>0 DEF Shows
  <2>2. Stopping => c \notin DOMAIN halting.out
    BY <1>0, <1>1 DEF Covers
  <2> QED BY <2>1, <2>2 DEF Here
<1>8. Clearing'
  <2>1. \A d, steps : Clears(d, steps)' => d = c /\ "clear" \in steps
    BY <1>5
  <2>2. source' = clearing'.source /\ active' = active
    BY <1>1
  <2> QED BY <1>5, <1>7, <2>1, <2>2 DEF Clearing
<1> QED BY <1>3, <1>4, <1>6, <1>8 DEF AccountInv

\* The channel of a clearChannel that is about the tail the page has and shows: the call is still
\* about the page's source and tail.
LEMMA StillAbout ==
  ASSUME Types, Shows, Clearing, Held, NEW c \in shown.channels,
         Clears(c, {"stop", "ok", "err", "clear"})
  PROVE  StillClearing
<1>1. shown.tail = active.tail
  BY DEF Shows, Types
<1>2. c \in Channels
  BY OwnTypes DEF Views
<1>3. source = clearing.source
  BY <1>2 DEF Clearing
<1> QED BY <1>1, <1>3 DEF Clears, StillClearing

\* clearChannel goes on after the answer of its stop.
LEMMA ClearResumesAccounts ==
  ASSUME AccInv, ClearResumes
  PROVE  AccountInv'
<1>0. /\ Types /\ Stages /\ Owners /\ StopEnds
      /\ Closes /\ Remembered /\ Answers /\ Shows /\ Covers /\ Alone /\ Clearing
  BY AccParts
<1>a. /\ active \in Views /\ shown \in Views
      /\ shown.tail = 0 => shown.channels = {}
  BY <1>0, OwnTypes DEF Types
<1>1. /\ clearing \in Clear /\ clearing # NoClear /\ clearing.tailing
      /\ clearing.step \in {"ok", "err"}
      /\ UNCHANGED <<native, emitting, start, stop, source, shown, loaded, starting, pending,
                     halting, applied>>
  <2>1. clearing.step \in {"ok", "err"} /\ clearing # NoClear
    BY DEF ClearResumes, ClearReady, NoClear
  <2> QED BY <1>0, <2>1 DEF ClearResumes, Types, Called, nativeVars, wires
<1>2. /\ active'.tail = active.tail
      /\ \/ active'.channels = active.channels
         \/ /\ clearing.step = "err" /\ active.tail = clearing.tail
            /\ active'.channels = active.channels \cup {clearing.channel}
  BY <1>1, <1>a DEF ClearResumes, Views
<1>3. \/ clearing' = NoClear /\ (clearing.step = "ok" => ~StillClearing)
      \/ /\ clearing.step = "ok" /\ clearing'.step = "clear" /\ clearing' # NoClear
         /\ clearing'.tail = clearing.tail /\ clearing'.channel = clearing.channel
         /\ clearing'.source = clearing.source /\ clearing'.tailing = clearing.tailing
  <2>1. \/ clearing' = NoClear /\ (clearing.step = "ok" => ~StillClearing)
        \/ clearing.step = "ok" /\ clearing' = [clearing EXCEPT !.step = "clear"]
    BY <1>1 DEF ClearResumes
  <2> QED BY <1>1, <2>1 DEF Clear, NoClear
<1>4. \A k \in Key : snapshot'[k] \in {snapshot[k], {received[k]}, {Known(k)}, {}}
  BY DEF ClearResumes, Forgotten
<1>5. \A k \in Key : Ceased(k)' <=> Ceased(k)
  BY <1>1 DEF Ceased
<1>6. Closes'
  BY <1>0, <1>1, <1>2 DEF Closes, Ceased
<1>7. Remembered'
  <2>1. \A c \in DOMAIN halting.out :
          <<halting.tail, c>> \in Key /\ c \in DOMAIN halting.received
    BY <1>0, CallTypes DEF Remembered
  <2> QED BY <1>0, <1>1, <1>4, <2>1, RememberedKept
<1>8. Answers'
  BY <1>0, <1>1, <1>3, <1>5, AnswersKept
<1>9. /\ (Held' <=> Held) /\ (Stopping' <=> Stopping) /\ Here' = Here
      /\ \A c : /\ Own(c)' = Own(c) /\ (Ceased(Own(c))' <=> Ceased(Own(c)))
                /\ Acknowledged(c)' <=> Acknowledged(c)
  BY <1>1, <1>2 DEF Held, Stopping, Here, Own, Ceased, Acknowledged
<1>10. Shows'
  <2>1. active.tail = 0 => shown.tail = 0
    BY <1>0 DEF Shows
  <2>2. ASSUME Held
        PROVE  shown.tail \in {0, active.tail} /\ active'.channels \subseteq shown.channels
    <3>1. ASSUME clearing.step = "err", active.tail = clearing.tail
          PROVE  clearing.channel \in shown.channels
      <4>1. Clears(clearing.channel, {"stop", "err"}) /\ clearing.channel \in Channels
        BY <1>1, <3>1 DEF Clears, Clear
      <4> QED BY <1>0, <2>2, <4>1 DEF Clearing
    <3> QED BY <1>0, <1>2, <2>2, <3>1 DEF Shows
  <2> QED BY <1>1, <1>2, <1>9, <2>1, <2>2 DEF Shows
<1>11. Covers'
  BY <1>0, <1>1, <1>9 DEF Covers
<1>12. /\ \A c : ~Clears(c, {"stop"}) /\ ~Clears(c, {"stop", "err"})'
       /\ \A c, steps : Clears(c, steps)' =>
            /\ "clear" \in steps /\ Clears(c, {"ok", "clear"})
            /\ clearing'.source = clearing.source /\ clearing'.tailing = clearing.tailing
            /\ clearing.step = "ok"
       /\ Held => \A c \in shown.channels :
            Clears(c, {"ok", "clear"}) => Clears(c, {"ok", "clear"})'
  <2>1. \A c : ~Clears(c, {"stop"}) /\ ~Clears(c, {"stop", "err"})'
    BY <1>1, <1>3 DEF Clears
  <2>2. \A c, steps : Clears(c, steps)' =>
          /\ "clear" \in steps /\ Clears(c, {"ok", "clear"})
          /\ clearing'.source = clearing.source /\ clearing'.tailing = clearing.tailing
          /\ clearing.step = "ok"
    BY <1>1, <1>2, <1>3 DEF Clears
  <2>3. ASSUME Held, NEW c \in shown.channels, Clears(c, {"ok", "clear"})
        PROVE  Clears(c, {"ok", "clear"})'
    <3>1. Clears(c, {"stop", "ok", "err", "clear"}) /\ clearing.step = "ok"
      BY <1>1, <2>3 DEF Clears
    <3>2. StillClearing
      BY <1>0, <2>3, <3>1, StillAbout
    <3> QED BY <1>2, <1>3, <2>3, <3>1, <3>2 DEF Clears
  <2> QED BY <2>1, <2>2, <2>3
<1>13. Alone'
  <2> SUFFICES ASSUME Held, ~Stopping, NEW c \in shown.channels
               PROVE  /\ Ceased(Own(c)) \/ (stop[Own(c)] = "none" /\ Own(c) \notin pending)
                      /\ Ceased(Own(c)) => \/ Clears(c, {"ok", "clear"})'
                                           \/ \A d \in shown.channels : Ceased(Own(d))
    BY <1>1, <1>9 DEF Alone
  <2> QED BY <1>0, <1>12 DEF Alone
<1>14. Clearing'
  <2> SUFFICES ASSUME Held, NEW c \in Channels
               PROVE  /\ Clears(c, {"stop", "ok", "err", "clear"})' => source = clearing'.source
                      /\ ~Clears(c, {"stop", "err"})' /\ ~Clears(c, {"stop"})'
                      /\ Clears(c, {"ok", "clear"})' =>
                           \/ c \notin active'.channels /\ c \notin Here
                           \/ clearing'.tailing /\ c \notin active'.channels /\ Acknowledged(c)
                           \/ /\ clearing'.tailing /\ (c \in active'.channels => Here \subseteq {c})
                              /\ \A d \in Here \ {c} : Acknowledged(d) \/ ~Ceased(Own(d))
    BY <1>1, <1>9 DEF Clearing
  <2>1. ASSUME Clears(c, {"stop", "ok", "err", "clear"})'
        PROVE  source = clearing'.source
    <3>1. Clears(c, {"ok", "clear"}) /\ clearing'.source = clearing.source
      BY <1>12, <2>1
    <3>2. Clears(c, {"stop", "ok", "err", "clear"})
      BY <3>1 DEF Clears
    <3> QED BY <1>0, <3>1, <3>2 DEF Clearing
  <2>2. ~Clears(c, {"stop", "err"})' /\ ~Clears(c, {"stop"})'
    BY <1>12
  <2>3. ASSUME Clears(c, {"ok", "clear"})'
        PROVE  \/ c \notin active'.channels /\ c \notin Here
               \/ clearing'.tailing /\ c \notin active'.channels /\ Acknowledged(c)
               \/ /\ clearing'.tailing /\ (c \in active'.channels => Here \subseteq {c})
                  /\ \A d \in Here \ {c} : Acknowledged(d) \/ ~Ceased(Own(d))
    <3>1. /\ Clears(c, {"ok", "clear"}) /\ clearing'.tailing = clearing.tailing
          /\ active'.channels = active.channels
      BY <1>2, <1>12, <2>3
    <3> QED BY <1>0, <3>1 DEF Clearing
  <2> QED BY <2>1, <2>2, <2>3
<1> QED BY <1>6, <1>7, <1>8, <1>10, <1>11, <1>13, <1>14 DEF AccountInv

\* clearChannel lets its channel be: it is about another source or tail, or about a channel that was
\* not in the tail.
LEMMA LetGo ==
  ASSUME AccInv, clearing.step = "clear", clearing' = NoClear,
         ~StillClearing \/ ~clearing.tailing,
         UNCHANGED <<native, emitting, start, stop, source, active, shown, loaded, starting,
                     pending, halting, snapshot, applied>>
  PROVE  AccountInv'
<1>0. /\ Types /\ Stages /\ Owners /\ StopEnds
      /\ Closes /\ Remembered /\ Answers /\ Shows /\ Covers /\ Alone /\ Clearing
  BY AccParts
<1>1. \A k \in Key : Ceased(k)' <=> Ceased(k)
  BY DEF Ceased
<1>2. Closes' /\ Remembered'
  BY <1>0 DEF Closes, Remembered, Ceased
<1>3. Answers'
  BY <1>0, <1>1, AnswersKept
<1>4. /\ (Held' <=> Held) /\ (Stopping' <=> Stopping)
      /\ \A c : Own(c)' = Own(c) /\ (Ceased(Own(c))' <=> Ceased(Own(c)))
      /\ \A c, steps : ~Clears(c, steps)'
      /\ \A c : ~Clears(c, {"stop"})
  BY DEF Held, Stopping, Own, Ceased, Clears
<1>5. Shows' /\ Covers'
  BY <1>0, <1>4 DEF Shows, Covers
<1>6. ASSUME Held, NEW c \in shown.channels
      PROVE  ~Clears(c, {"ok", "clear"})
  <2> SUFFICES ASSUME Clears(c, {"ok", "clear"}) PROVE FALSE
    OBVIOUS
  <2>1. Clears(c, {"stop", "ok", "err", "clear"})
    BY DEF Clears
  <2>2. ~clearing.tailing
    BY <1>0, <1>6, <2>1, StillAbout
  <2>3. c \in Channels /\ c \in Here
    BY <1>0, <1>6, OwnTypes DEF Views, Here
  <2> QED BY <1>0, <1>6, <2>2, <2>3 DEF Clearing
<1>7. Alone'
  <2> SUFFICES ASSUME Held, ~Stopping, NEW c \in shown.channels
               PROVE  /\ Ceased(Own(c)) \/ (stop[Own(c)] = "none" /\ Own(c) \notin pending)
                      /\ Ceased(Own(c)) => \A d \in shown.channels : Ceased(Own(d))
    BY <1>4 DEF Alone
  <2> QED BY <1>0, <1>4, <1>6 DEF Alone
<1>8. Clearing'
  BY <1>4 DEF Clearing
<1> QED BY <1>2, <1>3, <1>5, <1>7, <1>8 DEF AccountInv

\* clearChannel drops its channel.
LEMMA ChannelClearedAccounts ==
  ASSUME AccInv, ChannelCleared
  PROVE  AccountInv'
<1>0. /\ Types /\ Stages /\ Owners /\ StopEnds
      /\ Closes /\ Remembered /\ Answers /\ Shows /\ Covers /\ Alone /\ Clearing
  BY AccParts
<1>a. /\ active \in Views /\ shown \in Views
  BY <1>0, OwnTypes
<1> DEFINE c0 == clearing.channel
           remaining == shown.channels \ {c0}
<1>1. /\ clearing.step = "clear" /\ clearing' = NoClear /\ clearing # NoClear
      /\ UNCHANGED <<native, emitting, start, stop, source, starting, pending, halting, snapshot,
                     applied>>
  BY DEF ChannelCleared, nativeVars, wires, NoClear
<1>2. CASE ~StillClearing
  BY <1>1, <1>2, LetGo DEF ChannelCleared
<1>3. CASE StillClearing
  <2>1. /\ shown.tail = active.tail /\ clearing.tail = active.tail
        /\ active' = (IF clearing.tailing /\ remaining = {} THEN NoTail ELSE active)
        /\ shown' = (IF remaining = {} THEN NoTail ELSE [shown EXCEPT !.channels = remaining])
        /\ loaded' = loaded \ {c0}
    BY <1>3 DEF StillClearing, ChannelCleared
  <2>2. /\ active' = active \/ active'.tail = 0
        /\ shown'.tail \in {0, active.tail}
        /\ remaining # {} => /\ active' = active /\ shown'.tail = active.tail
                             /\ shown'.channels = remaining
        /\ remaining = {} => shown'.tail = 0 /\ shown'.channels = remaining
        /\ clearing.tailing /\ remaining = {} => active'.tail = 0
    <3>1. NoTail.tail = 0 /\ NoTail.channels = {}
      BY DEF NoTail
    <3>2. CASE remaining # {}
      <4>1. shown' = [shown EXCEPT !.channels = remaining] /\ active' = active
        BY <2>1, <3>2
      <4> HIDE DEF remaining
      <4>2. shown'.tail = shown.tail /\ shown'.channels = remaining
        BY <4>1, <1>a DEF Views
      <4> QED BY <2>1, <3>2, <4>1, <4>2
    <3>3. CASE remaining = {}
      BY <2>1, <3>1, <3>3
    <3> QED BY <3>2, <3>3
  <2> HIDE DEF remaining
  <2>3. \A k \in Key : Ceased(k)' <=> Ceased(k)
    BY <1>1 DEF Ceased
  <2>4. Closes'
    <3>1. \A k \in Key : k[1] # 0
      BY DEF Key, TailId
    <3>2. \A k \in Key : k[1] = active'.tail => active' = active
      BY <2>2, <3>1
    <3> QED BY <1>0, <1>1, <3>2 DEF Closes, Ceased
  <2>5. Remembered' /\ Answers'
    <3>1. Remembered'
      BY <1>0, <1>1 DEF Remembered
    <3>2. Answers'
      BY <1>0, <1>1, <2>3, AnswersKept
    <3> QED BY <3>1, <3>2
  <2>6. active'.tail = 0 => shown'.tail = 0
    BY <1>0, <2>1, <2>2 DEF Shows
  <2>7. CASE ~Held'
    <3>1. Shows' /\ Covers' /\ Alone' /\ Clearing'
      BY <2>6, <2>7, NotHeld
    <3> QED BY <2>4, <2>5, <3>1 DEF AccountInv
  <2>8. CASE Held'
    <3>1. /\ active' = active /\ Held /\ ~(clearing.tailing /\ remaining = {})
          /\ shown'.channels = remaining
      BY <1>1, <2>2, <2>8 DEF Held
    <3>2. /\ Stopping' <=> Stopping
          /\ \A c : /\ Own(c)' = Own(c) /\ (Ceased(Own(c))' <=> Ceased(Own(c)))
                    /\ Acknowledged(c)' <=> Acknowledged(c)
          /\ \A c, steps : ~Clears(c, steps)'
          /\ \A c, steps : Clears(c, steps) => c = c0 /\ "clear" \in steps
      BY <1>1, <3>1 DEF Stopping, Own, Ceased, Acknowledged, Clears
    <3>3. c0 \in Channels /\ Clears(c0, {"ok", "clear"})
      BY <1>0, <1>1, <2>1 DEF Types, Called, Clear, Clears
    <3>4. c0 \notin active.channels
      <4> SUFFICES ASSUME c0 \in active.channels PROVE FALSE
        OBVIOUS
      <4>1. clearing.tailing /\ Here \subseteq {c0}
        BY <1>0, <3>1, <3>3 DEF Clearing
      <4>2. remaining = {}
        BY <4>1 DEF Here, remaining
      <4> QED BY <3>1, <4>1, <4>2
    <3>5. Shows'
      <4>1. active.channels \subseteq shown.channels
        BY <1>0, <3>1 DEF Shows
      <4>2. active'.channels \subseteq shown'.channels
        BY <3>1, <3>4, <4>1 DEF remaining
      <4>3. shown'.tail \in {0, active'.tail}
        BY <2>2, <3>1
      <4> QED BY <2>6, <4>2, <4>3 DEF Shows
    <3>6. Covers'
      <4> SUFFICES ASSUME Stopping
                   PROVE  /\ remaining \subseteq DOMAIN halting.out
                          /\ DOMAIN halting.out \cap loaded' \subseteq remaining
                          /\ \A c \in DOMAIN halting.out :
                               halting.out[c] = "ok" =>
                                 stop[Own(c)] = "none" /\ Own(c) \notin pending
        BY <1>1, <3>1, <3>2 DEF Covers
      <4>1. /\ shown.channels \subseteq DOMAIN halting.out
            /\ DOMAIN halting.out \cap loaded \subseteq shown.channels
            /\ \A c \in DOMAIN halting.out :
                 halting.out[c] = "ok" => stop[Own(c)] = "none" /\ Own(c) \notin pending
        BY <1>0, <3>1 DEF Covers
      <4>2. /\ remaining \subseteq DOMAIN halting.out
            /\ DOMAIN halting.out \cap loaded' \subseteq remaining
        BY <2>1, <4>1 DEF remaining
      <4> QED BY <4>1, <4>2
    <3>7. Alone'
      <4> SUFFICES ASSUME ~Stopping, NEW c \in remaining
                   PROVE  /\ Ceased(Own(c)) \/ (stop[Own(c)] = "none" /\ Own(c) \notin pending)
                          /\ Ceased(Own(c)) => \A d \in remaining : Ceased(Own(d))
        BY <1>1, <3>1, <3>2 DEF Alone
      <4>1. c \in shown.channels /\ c # c0 /\ remaining \subseteq shown.channels
        BY DEF remaining
      <4>2. \A steps : ~Clears(c, steps)
        BY <3>2, <4>1
      <4> QED BY <1>0, <3>1, <4>1, <4>2 DEF Alone
    <3>8. Clearing'
      BY <3>2 DEF Clearing
    <3> QED BY <2>4, <2>5, <3>5, <3>6, <3>7, <3>8 DEF AccountInv
  <2> QED BY <2>7, <2>8
<1> QED BY <1>2, <1>3

\* The channel was not cleared.
LEMMA ClearFailsAccounts ==
  ASSUME AccInv, ClearFails
  PROVE  AccountInv'
<1>1. /\ clearing.step = "clear" /\ clearing' = NoClear
      /\ UNCHANGED <<native, emitting, source, shown, loaded, received, halting, applied>>
  BY DEF ClearFails, nativeVars
<1>2. CASE startLiveTail
  BY <1>1, <1>2, StartAccounts
<1>3. CASE /\ ~StillClearing \/ ~clearing.tailing
           /\ UNCHANGED <<tails, told, snapshot, pending, stop, active, starting, start>>
  BY <1>1, <1>3, LetGo
<1> QED BY <1>2, <1>3 DEF ClearFails

\* The accounts of every state.
LEMMA AccInit == Init => AccInv
<1> SUFFICES ASSUME Init PROVE AccInv
  OBVIOUS
<1>1. GapInv
  BY GapInit
<1>2. /\ \A k \in Key : /\ native[k].stage = "none" /\ stop[k] = "none" /\ emitting[k] = {}
                        /\ snapshot[k] = {}
      /\ starting = {} /\ DOMAIN halting.out = {} /\ clearing = NoClear
      /\ active.tail = 0 /\ shown.tail = 0
  BY DEF Init, NoHalt, NoTail
<1>3. Closes /\ Remembered /\ Answers
  BY <1>2 DEF Closes, Remembered, Answers
<1>4. Shows /\ Covers /\ Alone /\ Clearing
  BY <1>2 DEF Shows, Covers, Alone, Clearing, Held
<1> QED BY <1>1, <1>3, <1>4 DEF AccInv, AccountInv

LEMMA AccKept == ASSUME ~Early, AccInv, [Next]_vars PROVE AccInv'
<1>1. GapInv'
  BY GapKept DEF AccInv
<1>2. CASE UNCHANGED vars
  <2>1. AccountInv
    BY DEF AccInv
  <2>2. UNCHANGED <<native, emitting, start, stop, source, active, shown, loaded, starting, pending,
                    snapshot, halting, clearing, applied>>
    BY <1>2 DEF vars, nativeVars, wires, page
  <2>3. Closes' /\ Remembered' /\ Answers'
    BY <2>1, <2>2 DEF AccountInv, Closes, Remembered, Answers, Ceased
  <2>4. Shows' /\ Covers' /\ Alone' /\ Clearing'
    BY <2>1, <2>2 DEF AccountInv, Shows, Covers, Alone, Clearing, Ceased, Held, Own, Stopping,
                      Acknowledged, Here, Clears
  <2> QED BY <1>1, <2>3, <2>4 DEF AccInv, AccountInv
<1>3. ASSUME NEW k \in Key,
             \/ Subscribe(k) \/ Register(k) \/ Capture(k) \/ Take(k) \/ Emit(k) \/ StopRuns(k)
             \/ Closed(k)
      PROVE  AccountInv'
  BY <1>3, NativeAccounts
<1>4. ASSUME NEW k \in Key, StartAnswered(k) \/ StopAnswered(k)
      PROVE  AccountInv'
  BY <1>4, StartAnsweredAccounts, StopAnsweredAccounts
<1>5. ASSUME StartLive
      PROVE  AccountInv'
  BY <1>5, StartAccounts DEF StartLive, nativeVars
<1>6. ASSUME NEW c \in Channels, ClearChannel(c)
      PROVE  AccountInv'
  BY <1>6, ClearStopAccounts, ClearOtherAccounts
<1>7. ASSUME StopLive \/ NewSource
      PROVE  AccountInv'
  BY <1>7, StopLiveAccounts, SourceAccounts
<1>8. ASSUME NEW t \in TailId, StartResumes(t)
      PROVE  AccountInv'
  BY <1>8, StartResumesAccounts
<1>9. ASSUME HaltResumes \/ ClearResumes
      PROVE  AccountInv'
  BY <1>9, HaltResumesAccounts, ClearResumesAccounts
<1>10. ASSUME Listen \/ ChannelCleared \/ ClearFails
       PROVE  AccountInv'
  BY <1>10, ListenAccounts, ChannelClearedAccounts, ClearFailsAccounts
<1> QED
  BY <1>1, <1>2, <1>3, <1>4, <1>5, <1>6, <1>7, <1>8, <1>9, <1>10
     DEF AccInv, Next, SystemSteps, UserSteps, Continuations

\* Of a tail that its stops have closed everything is accounted for.
LEMMA HaltAccounted ==
  ASSUME AccInv, HaltResumes, shown.tail # 0, shown'.tail = 0,
         NEW k \in Keys(shown.tail, shown.channels)
  PROVE  /\ ~native[k].waits /\ emitting[k] = {}
         /\ \A n \in Upto(native[k].number) : n \in applied[k] \/ <<k[2], n>> \in told'
<1>0. /\ Types /\ Owners
      /\ Closes /\ Remembered /\ Answers /\ Shows /\ Covers
  BY AccParts
<1> DEFINE t == halting.tail
           remaining == {c \in DOMAIN halting.out : halting.out[c] = "err"}
           stopped == DOMAIN halting.out \ remaining
           left == IF remaining = {} THEN NoTail ELSE [tail |-> t, channels |-> remaining]
<1>1. /\ halting # NoHalt /\ \A c \in DOMAIN halting.out : halting.out[c] # "wait"
      /\ shown.tail = t /\ active.tail \in {0, t} /\ shown' = left
      /\ told' = told \cup UNION {FinalGaps(<<t, c>>, halting.received[c]) : c \in stopped}
  BY DEF HaltResumes, HaltReady
<1>2. remaining = {}
  <2> SUFFICES ASSUME remaining # {} PROVE FALSE
    OBVIOUS
  <2> HIDE DEF remaining
  <2>1. shown'.tail = t
    BY <1>1
  <2> QED BY <1>1, <2>1
<1>3. active.tail = t /\ t \notin starting
  <2>1. active.tail # 0
    BY <1>0 DEF Shows
  <2> QED BY <1>0, <1>1, <2>1 DEF Owners, Halted
<1>4. shown.channels \subseteq DOMAIN halting.out
  BY <1>0, <1>1, <1>3 DEF Covers, Held, Stopping
<1> PICK c : c = k[2]
  OBVIOUS
<1>5. k \in Key /\ k = <<t, c>> /\ c \in DOMAIN halting.out /\ c \in stopped
  <2>1. k \in Key /\ k[1] = shown.tail /\ c \in shown.channels
    BY DEF Keys
  <2>2. k = <<k[1], k[2]>>
    BY <2>1 DEF Key
  <2> QED BY <1>1, <1>2, <1>4, <2>1, <2>2
<1>6. halting.out[c] = "ok"
  BY <1>0, <1>1, <1>5, CallTypes
<1>7. native[k].stage = "closed" /\ ~native[k].waits /\ emitting[k] = {}
  <2>1. native[k].stage = "closed"
    BY <1>0, <1>5, <1>6 DEF Answers
  <2> QED BY <1>0, <1>5, <2>1 DEF Closes
<1>8. halting.received[c] \subseteq applied[k]
  BY <1>0, <1>5 DEF Remembered
<1>9. FinalGaps(k, halting.received[c]) \subseteq told'
  BY <1>1, <1>5
<1>10. ASSUME NEW n \in Upto(native[k].number), n \notin applied[k]
       PROVE  <<k[2], n>> \in told'
  <2>1. n \in Upto(native[k].number) \ halting.received[c]
    BY <1>8, <1>10
  <2>2. <<k[2], n>> \in FinalGaps(k, halting.received[c])
    BY <2>1 DEF FinalGaps, Gaps
  <2> QED BY <1>9, <2>2
<1> QED BY <1>7, <1>10

\* No other step lets go of a tail, but for another source or the last channel that is cleared.
LEMMA OnlyHaltLetsGo ==
  ASSUME AccInv, [Next]_vars, shown.tail # 0, shown'.tail = 0, source' = source, loaded' = loaded
  PROVE  HaltResumes
<1>0. Types /\ Answers
  BY AccParts
<1> SUFFICES ASSUME shown' # shown, ~HaltResumes PROVE FALSE
  OBVIOUS
<1>1. CASE UNCHANGED vars
  BY <1>1 DEF vars, page
<1>2. ASSUME NEW k \in Key,
             \/ Subscribe(k) \/ Register(k) \/ Capture(k) \/ Take(k) \/ Emit(k) \/ StopRuns(k)
             \/ Closed(k)
      PROVE  FALSE
  BY <1>2 DEF Subscribe, Register, Capture, Take, Emit, StopRuns, Closed, page
<1>3. ASSUME \/ StartLive \/ StopLive \/ ClearResumes \/ ClearFails
             \/ (\E c \in Channels : ClearChannel(c))
             \/ \E k \in Key : StartAnswered(k) \/ StopAnswered(k)
      PROVE  FALSE
  BY <1>3
  DEF StartLive, StopLive, ClearResumes, ClearFails, ClearChannel, StartAnswered, StopAnswered
<1>4. CASE NewSource
  <2>1. source' = source + 1
    BY <1>4 DEF NewSource
  <2>2. source \in Nat
    BY <1>0, TailAssumption DEF Types, TailTypeOK
  <2> QED BY <2>1, <2>2
<1>5. ASSUME NEW t \in TailId, StartResumes(t)
      PROVE  FALSE
  <2>1. t # 0
    BY DEF TailId
  <2>2. shown' = [tail |-> t, channels |-> {c \in Channels : start[<<t, c>>] = "ok"}]
    BY <1>5 DEF StartResumes
  <2> QED BY <2>1, <2>2
<1>6. CASE Listen
  <2> PICK k : k = Head(events).key
    OBVIOUS
  <2>1. events # <<>> /\ shown' = [tail |-> k[1], channels |-> shown.channels \cup {k[2]}]
    BY <1>6 DEF Listen
  <2>2. k \in Key
    BY <1>0, <2>1, EventTypes
  <2> QED BY <2>1, <2>2 DEF Key, TailId
<1>7. CASE ChannelCleared
  <2>1. /\ clearing # NoClear /\ loaded' = loaded \ {clearing.channel}
    BY <1>7 DEF ChannelCleared, NoClear
  <2>2. clearing.channel \in loaded
    BY <1>0, <2>1 DEF Answers
  <2> QED BY <2>1, <2>2
<1> QED
  BY <1>1, <1>2, <1>3, <1>4, <1>5, <1>6, <1>7 DEF Next, SystemSteps, UserSteps, Continuations

\* Where no tail is stopped and no channel cleared before its start is through, the page lets go of
\* its tail (stopLiveTail) only when everything the tail ever captured is in the view or reported:
\* nothing waits to be emitted, and the answers of its stops tell of every batch not received.
THEOREM StopAccounted == ASSUME ~Early PROVE Spec => StopAccountsForAll
<1>1. ASSUME AccInv, [Next]_vars
      PROVE  [(shown.tail # 0 /\ shown'.tail = 0 /\ source' = source /\ loaded' = loaded) =>
                \A k \in Keys(shown.tail, shown.channels) :
                  /\ ~native[k].waits /\ emitting[k] = {}
                  /\ \A n \in Upto(native[k].number) :
                       n \in applied[k] \/ <<k[2], n>> \in told']_vars
  BY <1>1, OnlyHaltLetsGo, HaltAccounted
<1> QED BY <1>1, AccInit, AccKept, PTL DEF Spec, StopAccountsForAll
=============================================================================
