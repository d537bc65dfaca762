------------------------------ MODULE LiveTail ------------------------------
(***************************************************************************)
(* The live tail of the event-log workspace: the subscriptions of the      *)
(* native side, which number what they capture and emit it in batches      *)
(* (src-tauri/src/event_log/live.rs), and the page that starts, stops and  *)
(* supersedes them and accounts for every number                           *)
(* (src/workspaces/event-log/evtx-store.ts).                               *)
(*                                                                         *)
(* Commands run on threads of their own, their answers arrive in any order,*)
(* also against the batches, and batches arrive in the order emitted.  The *)
(* page is one event loop: what awaits an answer goes on before the next   *)
(* event is handled.                                                       *)
(***************************************************************************)
EXTENDS Integers, Sequences, FiniteSets

CONSTANTS Channels,   \* the channels of the source
          MaxTail,    \* starts of the tail
          MaxBatch,   \* times an event arrives when none is waiting
          MaxTurn,    \* starts that fail, batches not taken by the event sink, sources, and clears
          Early       \* whether a tail is stopped, or a channel cleared, before its start is through

ASSUME TailAssumption ==
  /\ Channels # {} /\ IsFiniteSet(Channels)
  /\ {MaxTail, MaxBatch, MaxTurn} \subseteq Nat /\ Early \in BOOLEAN

VARIABLES
  native,    \* each tail's stage, whether events wait, its next number, the losses it remembers
  emitting,  \* the numbers taken for a batch that is not emitted yet
  start,     \* evtx_start_tail of each tail
  stop,      \* evtx_stop_tail of each tail: tailStopInFlight
  events,    \* batches on their way to the page
  source,    \* activeRequestId
  active,    \* activeTailRequestId and activeTailChannels
  shown,     \* tailRequestId and tailChannels
  loaded,    \* loadedChannels
  starting,  \* the calls of startLiveTail that wait
  answered,  \* the starts whose answer the page has had; the others are pendingTailStarts
  pending,   \* pendingTailStops
  received,  \* tailSequences
  snapshot,  \* tailSequenceSnapshots: of each tail none or one
  told,      \* tailCoverageGaps: the batches reported as not received or not delivered
  halting,   \* the call of stopLiveTail that waits
  clearing,  \* the call of clearChannel that waits
  tails, batches, turns,  \* starts made; arrivals, and turns of any kind, left
  applied    \* history: the batches whose records were merged into the view

nativeVars == <<native, emitting, batches, turns>>
wires == <<start, stop, events>>
page == <<source, active, shown, loaded, starting, answered, pending, received, snapshot, told,
          halting, clearing, tails, applied>>
vars == <<nativeVars, wires, page>>

----------------------------------------------------------------------------
(* Types *)

\* A tail is one request of the page for one channel: the key of ACTIVE_TAILS.
TailId == 1..MaxTail
Key == TailId \X Channels
Keys(tail, channels) == {k \in Key : k[1] = tail /\ k[2] \in channels}

NoTail == [tail |-> 0, channels |-> {}]
NoHalt == [tail |-> 0, received |-> <<>>, out |-> <<>>]
NoClear == [step |-> "none"]

Numbers == 0..MaxBatch
Stage == {"none", "subscribed", "registered", "closing", "closed"}
Running == {"subscribed", "registered"}

TailTypeOK ==
  /\ native \in [Key -> [stage : Stage, waits : BOOLEAN, number : Numbers, lost : SUBSET Numbers]]
  /\ emitting \in [Key -> SUBSET Numbers]
  /\ start \in [Key -> {"none", "asked", "ok", "err"}]
  /\ stop \in [Key -> {"none", "asked", "closing", "ok", "err"}]
  /\ events \in Seq([key : Key, number : Numbers, lost : SUBSET Numbers])
  /\ source \in 0..MaxTurn /\ tails \in 0..MaxTail
  /\ {active, shown} \subseteq [tail : 0..MaxTail, channels : SUBSET Channels]
  /\ active.tail # 0 => active.tail = tails
  /\ shown.tail \in {0} \cup TailId /\ loaded \subseteq Channels
  /\ starting \subseteq TailId /\ answered \subseteq Key /\ pending \subseteq Key
  /\ received \in [Key -> SUBSET Numbers] /\ applied \in [Key -> SUBSET Numbers]
  /\ \A k \in Key : received[k] \subseteq applied[k] /\ Cardinality(snapshot[k]) < 2
  /\ told \subseteq Channels \X Numbers
  /\ batches \in 0..MaxBatch /\ turns \in 0..MaxTurn

Init ==
  /\ native = [k \in Key |-> [stage |-> "none", waits |-> FALSE, number |-> 0, lost |-> {}]]
  /\ emitting = [k \in Key |-> {}]
  /\ start = [k \in Key |-> "none"] /\ stop = [k \in Key |-> "none"] /\ events = <<>>
  /\ source = 0 /\ active = NoTail /\ shown = NoTail /\ loaded = Channels
  /\ starting = {} /\ answered = {} /\ pending = {}
  /\ received = [k \in Key |-> {}] /\ snapshot = [k \in Key |-> {}] /\ told = {}
  /\ halting = NoHalt /\ clearing = NoClear
  /\ tails = 0 /\ batches = MaxBatch /\ turns = MaxTurn
  /\ applied = [k \in Key |-> {}]

----------------------------------------------------------------------------
(* The native side *)

\* start_channel_tail subscribes, or polls where the service cannot, or fails.
Subscribe(k) ==
  /\ start[k] = "asked" /\ native[k].stage = "none"
  /\ \/ native' = [native EXCEPT ![k].stage = "subscribed"] /\ UNCHANGED start
        /\ UNCHANGED turns
     \/ turns > 0 /\ turns' = turns - 1 /\ start' = [start EXCEPT ![k] = "err"] /\ UNCHANGED native
  /\ UNCHANGED <<emitting, batches, stop, events, page>>

\* It enters the tail into ACTIVE_TAILS and answers.
Register(k) ==
  /\ native[k].stage = "subscribed"
  /\ native' = [native EXCEPT ![k].stage = "registered"]
  /\ start' = [start EXCEPT ![k] = "ok"]
  /\ UNCHANGED <<emitting, batches, turns, stop, events, page>>

\* evt_subscribe_callback, or a poll that finds something new: an event waits to be emitted.
\* Callbacks come from the moment of the subscription until it is closed.
Capture(k) ==
  /\ native[k].stage \in Running \cup {"closing"}
  /\ ~native[k].waits /\ batches > 0
  /\ batches' = batches - 1
  /\ native' = [native EXCEPT ![k].waits = TRUE]
  /\ UNCHANGED <<emitting, turns, wires, page>>

\* Mutant: flush does not take the emission lock.
Take_unlocked(k) ==
  /\ native[k].waits
  /\ native' = [native EXCEPT ![k].waits = FALSE, ![k].number = @ + 1]
  /\ emitting' = [emitting EXCEPT ![k] = @ \cup {native[k].number}]
  /\ UNCHANGED <<batches, turns, wires, page>>

\* TailBatcher.flush, called by a callback that filled the batch, by the flush worker and by the
\* stop: under the emission lock it takes what waits, and numbers it.
Take(k) ==
  /\ native[k].waits /\ emitting[k] = {}
  /\ native' = [native EXCEPT ![k].waits = FALSE, ![k].number = @ + 1]
  /\ emitting' = [emitting EXCEPT ![k] = {native[k].number}]
  /\ UNCHANGED <<batches, turns, wires, page>>

\* emit_tail_event: the losses go with the batch, and stay if it, too, is lost.
Emit(k) ==
  \E n \in emitting[k] :
    /\ emitting' = [emitting EXCEPT ![k] = @ \ {n}]
    /\ \/ /\ events' = Append(events, [key |-> k, number |-> n, lost |-> native[k].lost])
          /\ native' = [native EXCEPT ![k].lost = {}]
          /\ UNCHANGED turns
       \/ /\ turns > 0 /\ turns' = turns - 1
          /\ native' = [native EXCEPT ![k].lost = @ \cup {n}]
          /\ UNCHANGED events
    /\ UNCHANGED <<batches, start, stop, page>>

\* Mutant: a tail that is not there gets no answer.
StopRuns_silent(k) ==
  /\ stop[k] = "asked" /\ native[k].stage = "registered"
  /\ native' = [native EXCEPT ![k].stage = "closing"]
  /\ stop' = [stop EXCEPT ![k] = "closing"]
  /\ UNCHANGED <<emitting, batches, turns, start, events, page>>

\* stop_channel_tail removes the tail from ACTIVE_TAILS, if it is there.
StopRuns(k) ==
  /\ stop[k] = "asked"
  /\ \/ /\ native[k].stage = "registered"
        /\ native' = [native EXCEPT ![k].stage = "closing"]
        /\ stop' = [stop EXCEPT ![k] = "closing"]
     \/ /\ native[k].stage # "registered"
        /\ stop' = [stop EXCEPT ![k] = "err"]
        /\ UNCHANGED native
  /\ UNCHANGED <<emitting, batches, turns, start, events, page>>

\* Mutant: what the last callbacks queued is dropped.
Closed_unflushed(k) ==
  /\ native[k].stage = "closing" /\ emitting[k] = {}
  /\ native' = [native EXCEPT ![k].stage = "closed"]
  /\ stop' = [stop EXCEPT ![k] = "ok"]
  /\ UNCHANGED <<emitting, batches, turns, start, events, page>>

\* Dropping the tail closes the subscription, which waits for the callbacks in flight, flushes, joins
\* the worker, which flushes too, and answers with the next number and the losses remembered.
Closed(k) ==
  /\ native[k].stage = "closing" /\ ~native[k].waits /\ emitting[k] = {}
  /\ native' = [native EXCEPT ![k].stage = "closed"]
  /\ stop' = [stop EXCEPT ![k] = "ok"]
  /\ UNCHANGED <<emitting, batches, turns, start, events, page>>
----------------------------------------------------------------------------
(* The page: starting *)

Unanswered == {k \in Key : start[k] # "none"} \ answered

\* stopTailRequest remembers the tail and sends its stop, unless one is in flight.
AskStops(keys) ==
  /\ pending' = pending \cup keys
  /\ stop' = [k \in Key |-> IF k \in keys /\ stop[k] = "none" THEN "asked" ELSE stop[k]]

captureTailSequenceSnapshot(keys) ==
  snapshot' = [k \in Key |-> IF k \in keys THEN {received[k]} ELSE snapshot[k]]

\* cleanupStaleTailStart, for tails that have been superseded.
cleanupStaleTailStart(keys) == captureTailSequenceSnapshot(keys) /\ AskStops(keys)

\* Mutant: the tail the page has is left to run.
startLiveTail_keeps ==
  /\ tails' = tails + 1
  /\ told' = {}
  /\ AskStops(pending)
  /\ active' = [tail |-> tails', channels |-> loaded]
  /\ starting' = starting \cup {tails'}
  /\ start' = [k \in Key |-> IF k \in Keys(tails', loaded) THEN "asked" ELSE start[k]]
  /\ UNCHANGED snapshot

\* startLiveTail: the tail the page has is stopped, but for the starts that are not answered, every
\* stop that failed is tried again, and a new tail is started for each channel.
startLiveTail ==
  LET superseded == Keys(active.tail, active.channels) \ Unanswered
  IN /\ tails' = tails + 1
     /\ told' = {}
     /\ captureTailSequenceSnapshot(superseded)
     /\ AskStops(superseded \cup pending)
     /\ active' = [tail |-> tails', channels |-> loaded]
     /\ starting' = starting \cup {tails'}
     /\ start' = [k \in Key |-> IF k \in Keys(tails', loaded) THEN "asked" ELSE start[k]]

\* The button reads "Start live tail".
StartLive ==
  /\ shown.tail = 0 /\ loaded # {} /\ tails < MaxTail
  /\ startLiveTail
  /\ UNCHANGED <<nativeVars, events, source, shown, loaded, answered, received, halting, clearing,
                 applied>>

\* A start is answered: one that has been superseded is stopped now.
StartAnswered(k) ==
  /\ k \in Unanswered /\ start[k] \in {"ok", "err"}
  /\ answered' = answered \cup {k}
  /\ cleanupStaleTailStart(IF start[k] = "ok" /\ active.tail # k[1] THEN {k} ELSE {})
  /\ UNCHANGED <<nativeVars, start, events, source, active, shown, loaded, starting, received, told,
                 halting, clearing, tails, applied>>

AllAnswered(t) == \A k \in Unanswered : k[1] # t

\* Mutant: a start that was superseded takes the page over.
StartResumes_late(t) ==
  /\ t \in starting /\ AllAnswered(t)
  /\ starting' = starting \ {t}
  /\ active' = [tail |-> t, channels |-> {c \in Channels : start[<<t, c>>] = "ok"}]
  /\ shown' = active'
  /\ UNCHANGED <<nativeVars, wires, source, loaded, answered, pending, received, snapshot, told,
                 halting, clearing, tails, applied>>

\* Once all are answered the tail is shown, or, when superseded, stopped in every channel.
StartResumes(t) ==
  /\ t \in starting /\ AllAnswered(t)
  /\ starting' = starting \ {t}
  /\ LET started == {c \in Channels : start[<<t, c>>] = "ok"}
     IN \/ /\ active.tail = t
           /\ active' = [tail |-> t, channels |-> started]
           /\ shown' = active'
           /\ UNCHANGED <<stop, pending, snapshot>>
        \/ /\ active.tail # t
           /\ cleanupStaleTailStart(Keys(t, started))
           /\ UNCHANGED <<active, shown>>
  /\ UNCHANGED <<nativeVars, start, events, source, loaded, answered, received, told, halting,
                 clearing, tails, applied>>

\* beginRequest: a load or another source.  Starts that are not answered are left to their answer.
NewSource ==
  /\ turns > 0 /\ turns' = turns - 1
  /\ source' = source + 1
  /\ LET stale == Keys(active.tail, active.channels)
     IN captureTailSequenceSnapshot(stale) /\ AskStops((stale \ Unanswered) \cup pending)
  /\ active' = NoTail /\ shown' = NoTail /\ told' = {} /\ loaded' = Channels
  /\ received' = [k \in Key |-> {}]
  /\ UNCHANGED <<native, emitting, batches, start, events, starting, answered, halting, clearing, tails,
                 applied>>

----------------------------------------------------------------------------
(* The page: listening *)

Upto(n) == 0..(n - 1)
Gaps(c, numbers) == {c} \X numbers

\* The numbers skipped since the highest one received.
Missing(k, n) == {m \in Upto(n) : \A r \in received[k] : m > r}

\* The listener takes a batch of a channel of the tail the page has.
Listen ==
  /\ events # <<>>
  /\ events' = Tail(events)
  /\ LET k == Head(events).key  n == Head(events).number
     IN \/ /\ active.tail = k[1] /\ k[2] \in active.channels /\ n \notin received[k]
           /\ received' = [received EXCEPT ![k] = @ \cup {n}]
           /\ applied' = [applied EXCEPT ![k] = @ \cup {n}]
           /\ told' = told \cup Gaps(k[2], Missing(k, n) \cup Head(events).lost)
           /\ shown' = [tail |-> k[1], channels |-> shown.channels \cup {k[2]}]
        \/ /\ active.tail # k[1] \/ k[2] \notin active.channels \/ n \in received[k]
           /\ UNCHANGED <<received, applied, told, shown>>
  /\ UNCHANGED <<nativeVars, start, stop, source, active, loaded, starting, answered, pending,
                 snapshot, halting, clearing, tails>>

----------------------------------------------------------------------------
(* The page: stopping *)

\* The page shows a tail from its first batch on, which may come before the start is through.
MayPress == Early \/ shown.tail \notin starting

\* What was received when the first stop of the tail was asked for.
Known(k) == UNION (IF snapshot[k] # {} THEN snapshot[k] ELSE {received[k]})

\* stopLiveTail: the button reads "Stop live tail".  One call at a time.
StopLive ==
  /\ shown.tail # 0 /\ halting = NoHalt /\ MayPress
  /\ LET t == shown.tail  keys == Keys(t, shown.channels)
     IN /\ snapshot' = [k \in Key |-> IF k \in keys THEN {Known(k)} ELSE snapshot[k]]
        /\ AskStops(keys)
        /\ halting' = [tail |-> t, received |-> [c \in shown.channels |-> Known(<<t, c>>)],
                       out |-> [c \in shown.channels |-> "wait"]]
  /\ UNCHANGED <<nativeVars, start, events, source, active, shown, loaded, starting, answered,
                 received, told, clearing, tails, applied>>

\* A stop is answered: a tail that is gone is forgotten, any other stays to be stopped.
StopAnswered(k) ==
  /\ stop[k] \in {"ok", "err"}
  /\ stop' = [stop EXCEPT ![k] = "none"]
  /\ \/ /\ stop[k] = "ok"
        /\ pending' = pending \ {k}
        /\ received' = [received EXCEPT ![k] = {}] /\ snapshot' = [snapshot EXCEPT ![k] = {}]
     \/ stop[k] = "err" /\ UNCHANGED <<pending, received, snapshot>>
  /\ halting' = IF k \in Keys(halting.tail, {c \in DOMAIN halting.out : halting.out[c] = "wait"})
                THEN [halting EXCEPT !.out[k[2]] = stop[k]] ELSE halting
  /\ clearing' = IF clearing.step = "stop" /\ k = <<clearing.tail, clearing.channel>>
                 THEN [clearing EXCEPT !.step = stop[k]] ELSE clearing
  /\ UNCHANGED <<nativeVars, start, events, source, active, shown, loaded, starting, answered, told,
                 tails, applied>>

\* What the answer of a stop adds to the gaps: the numbers not among those known, and the losses.
FinalGaps(k, had) == Gaps(k[2], (Upto(native[k].number) \ had) \cup native[k].lost)

HaltReady == halting # NoHalt /\ \A c \in DOMAIN halting.out : halting.out[c] # "wait"

Forgotten(sets, keys) == [k \in Key |-> IF k \in keys THEN {} ELSE sets[k]]

\* All stops are answered.  If the tail is still the page's own it keeps the channels whose stop
\* failed.
HaltResumes ==
  /\ HaltReady
  /\ halting' = NoHalt
  /\ LET t == halting.tail  out == halting.out
         remaining == {c \in DOMAIN out : out[c] = "err"}
         stopped == DOMAIN out \ remaining
         left == IF remaining = {} THEN NoTail ELSE [tail |-> t, channels |-> remaining]
     IN \/ /\ shown.tail = t /\ active.tail \in {0, t}
           /\ told' = told \cup UNION {FinalGaps(<<t, c>>, halting.received[c]) : c \in stopped}
           /\ received' = Forgotten(received, Keys(t, stopped))
           /\ snapshot' = Forgotten(snapshot, Keys(t, stopped))
           /\ active' = IF active.tail = t THEN left ELSE active
           /\ shown' = left
        \/ /\ shown.tail # t \/ active.tail \notin {0, t}
           /\ received' = Forgotten(received, Keys(t, DOMAIN out))
           /\ UNCHANGED <<told, snapshot, active, shown>>
  /\ UNCHANGED <<nativeVars, wires, source, loaded, starting, answered, pending, clearing, tails,
                 applied>>

----------------------------------------------------------------------------
(* The page: clearing a channel *)

\* The source and the tail are those the call began with.
StillClearing ==
  source = clearing.source /\ shown.tail = clearing.tail /\ active.tail = clearing.tail

\* isLatestTailStop: stopLiveTail takes the answer it had for a failure once it is asked anew.
Outdated(k) == IF k \in Keys(halting.tail, DOMAIN halting.out) /\ stop[k] = "none"
               THEN [halting EXCEPT !.out[k[2]] = "err"] ELSE halting

\* clearChannel: a channel in the tail is stopped first.
ClearChannel(c) ==
  /\ clearing = NoClear /\ turns > 0 /\ tails < MaxTail
  /\ c \in loaded /\ MayPress
  /\ turns' = turns - 1
  /\ LET k == <<shown.tail, c>>
         call(step, had) == [step |-> step, channel |-> c, tail |-> shown.tail, source |-> source,
                             tailing |-> step = "stop", received |-> had]
     IN \/ /\ c \in shown.channels
           /\ active' = IF active.tail = shown.tail
                        THEN [active EXCEPT !.channels = @ \ {c}] ELSE active
           /\ snapshot' = [snapshot EXCEPT ![k] = {Known(k)}]
           /\ AskStops({k}) /\ halting' = Outdated(k)
           /\ clearing' = call("stop", Known(k))
        \/ /\ c \notin shown.channels /\ active.tail = shown.tail
           /\ clearing' = call("clear", {})
           /\ UNCHANGED <<active, snapshot, stop, pending, halting>>
  /\ UNCHANGED <<native, emitting, batches, start, events, source, shown, loaded, starting, answered,
                 received, told, tails, applied>>

ClearReady == clearing.step \in {"ok", "err"}

\* The stop is answered.  If it failed the channel goes back to the tail and is not cleared.
ClearResumes ==
  /\ ClearReady
  /\ LET k == <<clearing.tail, clearing.channel>>
     IN \/ /\ clearing.step = "err"
           /\ active' = IF active.tail = clearing.tail
                        THEN [active EXCEPT !.channels = @ \cup {clearing.channel}] ELSE active
           /\ clearing' = NoClear
           /\ UNCHANGED <<told, received, snapshot>>
        \/ /\ clearing.step = "ok"
           /\ told' = IF StillClearing THEN told \cup FinalGaps(k, clearing.received) ELSE told
           /\ received' = Forgotten(received, {k}) /\ snapshot' = Forgotten(snapshot, {k})
           /\ clearing' = IF StillClearing THEN [clearing EXCEPT !.step = "clear"] ELSE NoClear
           /\ UNCHANGED active
  /\ UNCHANGED <<nativeVars, wires, source, shown, loaded, starting, answered, pending, halting,
                 tails, applied>>

\* The system has cleared the channel: the page drops all it has of it.
ChannelCleared ==
  /\ clearing.step = "clear"
  /\ clearing' = NoClear
  /\ LET c == clearing.channel  remaining == shown.channels \ {c}
     IN \/ /\ StillClearing
           /\ active' = IF clearing.tailing /\ remaining = {} THEN NoTail ELSE active
           /\ shown' = IF remaining = {} THEN NoTail ELSE [shown EXCEPT !.channels = remaining]
           /\ loaded' = loaded \ {c}
           /\ told' = {gap \in told : gap[1] # c}
        \/ ~StillClearing /\ UNCHANGED <<active, shown, loaded, told>>
  /\ UNCHANGED <<nativeVars, wires, source, starting, answered, pending, received, snapshot, halting,
                 tails, applied>>

\* It was not cleared: what was tailed is tailed again.
ClearFails ==
  /\ clearing.step = "clear"
  /\ clearing' = NoClear
  /\ \/ /\ StillClearing /\ clearing.tailing
        /\ startLiveTail
     \/ /\ ~StillClearing \/ ~clearing.tailing
        /\ UNCHANGED <<tails, told, snapshot, pending, stop, active, starting, start>>
  /\ UNCHANGED <<nativeVars, events, source, shown, loaded, answered, received, halting,
                 applied>>

----------------------------------------------------------------------------
(* Specification *)

\* Calls that can go on do so before the page handles another event.
Due == HaltReady \/ ClearReady \/ \E t \in starting : AllAnswered(t)

Continuations == HaltResumes \/ ClearResumes \/ \E t \in TailId : StartResumes(t)

\* The commands end, and their threads and the page run.
SystemSteps ==
  \/ \E k \in Key : Subscribe(k) \/ Register(k) \/ Take(k) \/ Emit(k)
                    \/ StopRuns(k) \/ Closed(k)
  \/ Continuations
  \/ ~Due /\ (Listen \/ ChannelCleared \/ ClearFails)
  \/ ~Due /\ \E k \in Key : StartAnswered(k) \/ StopAnswered(k)

UserSteps == ~Due /\ (StartLive \/ StopLive \/ NewSource \/ \E c \in Channels : ClearChannel(c))

Next == SystemSteps \/ UserSteps \/ \E k \in Key : Capture(k)

Spec == Init /\ [][Next]_vars

----------------------------------------------------------------------------
(* Properties *)

\* No tail runs that the page will not stop: it is of the page's own tail, of a start that is not
\* through, or among the stops to be made (supersedeActiveTailStart: "stopping before it resolves
\* can race the backend registration and leave the newly-created worker orphaned").
NoOrphanTail ==
  \A k \in Key : native[k].stage \in Running =>
    \/ k[1] \in starting
    \/ active.tail = k[1] /\ k[2] \in active.channels
    \/ k \in pending

\* While a channel is tailed no batch that is in the view is reported as missing.
GapsAreReal ==
  \A c \in active.channels :
    LET k == <<active.tail, c>>
    IN native[k].stage \in Running => \A n \in applied[k] : <<c, n>> \notin told

\* When the page lets go of its tail, everything the tail ever captured is in the view or reported:
\* nothing waits, and no batch is neither.
StopAccountsForAll ==
  [][(shown.tail # 0 /\ shown'.tail = 0 /\ source' = source /\ loaded' = loaded) =>
       \A k \in Keys(shown.tail, shown.channels) :
         /\ ~native[k].waits /\ emitting[k] = {}
         /\ \A n \in Upto(native[k].number) : n \in applied[k] \/ <<k[2], n>> \in told']_vars

\* stopLiveTail and clearChannel do not wait for ever: while one waits the system can take a step,
\* and it can take each of its steps finitely often.
CallsGoOn == halting # NoHalt \/ clearing # NoClear => ENABLED SystemSteps
=============================================================================
