--------------------------- MODULE FirewallWatch ---------------------------
(***************************************************************************)
(* The whole live view of one firewall log: the native side (FirewallOwner)*)
(* composed with the webview that watches it.  The webview keeps the source*)
(* session and the watch epoch (src/stores/firewall-state.ts, log-store.ts)*)
(* starts and stops a watch when the tab is shown and left                 *)
(* (src/hooks/use-file-watcher.ts), reloads the file and drops the reply of*)
(* a load the user has moved away from (src/lib/log-source.ts), and merges *)
(* the published rows into the view and the tab cache.                     *)
(*                                                                         *)
(* Commands, their replies and events travel separately: the webview and   *)
(* the native side never see a consistent state of each other.             *)
(***************************************************************************)
EXTENDS FirewallOwner

CONSTANTS InOrder,    \* whether commands are handled in the order sent
          MaxLoad,    \* how many loads and tab switches the user makes
          MaxToggle,  \* how many times the user toggles pause
          Tabs        \* the other tabs: "cached" or to "load"

ASSUME ChannelAssumption == InOrder \in BOOLEAN
ASSUME UserAssumption == /\ MaxLoad \in Nat /\ MaxToggle \in Nat
                         /\ MaxLoad < MaxSession \* every load can be served
                         /\ Tabs \subseteq {"cached", "load"}

VARIABLES
  source,    \* firewallSources[path]: session, watchEpoch, active
  watch,     \* the token in the cleanup of the mounted watch effect
  shown,     \* openFilePath = path
  selected,  \* the tab of the path is the active tab
  view,      \* the rows of the path: entries when shown, else the tab cache
  cached,    \* whether the tab cache still holds the snapshot
  isPaused,  \* the pause button
  isLoading, \* the loading indicator: refresh and pause are disabled
  toggles,   \* pause toggles made so far
  switches,  \* tabSwitchGeneration
  away,      \* loads of other tabs under way
  leaving,   \* loads of this tab that wait for another file's tail to stop
  commands,  \* commands on their way to the native side
  parsing,   \* the load whose open_log_file is running; 0 when none is
  opened,    \* replies of open_log_file on their way back
  started,   \* start_tail commands that resolved, not yet seen
  events     \* "tail-new-entries" payloads the webview has not handled

webview == <<source, watch, shown, selected, view, cached, isPaused, isLoading,
             toggles, switches, away, leaving>>
wires == <<commands, parsing, opened, started, events>>
vars == <<backend, webview, wires>>

----------------------------------------------------------------------------
(* Types *)

Command ==
  [op : {"open"}, load : 1..MaxLoad] \cup
  [op : {"start", "stop", "pause", "resume"}, token : Token] \cup
  [op : {"stop"}, token : Token, load : 1..MaxLoad]   \* a stop that a load awaits
Source == [session : 1..MaxSession, epoch : 0..MaxEpoch, active : BOOLEAN]

\* The reply to a load: the session is None when the load failed and when the
\* content is no longer a firewall log.
Reply(load, session, failed, rows) ==
  [load |-> load, session |-> session, failed |-> failed, rows |-> rows]

Elements(rows) == {rows[i] : i \in DOMAIN rows}
SourceToken(s) == [session |-> s.session, epoch |-> s.epoch]
Control(op, t) == [op |-> op, token |-> t]
PauseForgotten(t) == Control("resume", t)
PauseControl(t) == Control(IF isPaused THEN "pause" ELSE "resume", t)

----------------------------------------------------------------------------
(* The webview *)

\* sourceFromSnapshot and beginFirewallWatch: the watch of a source begins at
\* the next epoch, unless the epochs are used up.
CanBegin(s) == s.epoch < MaxEpoch
Begin(s) == IF CanBegin(s) THEN [s EXCEPT !.epoch = @ + 1, !.active = TRUE] ELSE s

\* The two effects of useFileWatcher when a source comes into view: start_tail,
\* then the pause state.
WatchCommands(s) ==
  IF CanBegin(s)
  THEN <<Control("start", SourceToken(Begin(s))), PauseControl(SourceToken(Begin(s)))>>
  ELSE <<>>
Mounted(s) == IF CanBegin(s) THEN {SourceToken(Begin(s))} ELSE {}

\* The cleanup of the watch effect: endFirewallWatch, which ends only the watch
\* it began, and stop_tail.
endFirewallWatch(s, tokens) == IF SourceToken(s) \in tokens THEN [s EXCEPT !.active = FALSE] ELSE s
CleanupCommands(tokens) ==
  IF tokens = {} THEN <<>> ELSE <<Control("stop", CHOOSE t \in tokens : TRUE)>>

\* Another file takes the view.
Unmount ==
  /\ shown' = FALSE
  /\ watch' = {}
  /\ source' = endFirewallWatch(source, watch)
  /\ commands' = commands \o CleanupCommands(watch)

\* A reply is used only by the load that is still the latest.
isCurrentTabSwitch(load) == load = switches

\* Refresh of the shown file: the same path keeps its tail until the reply.
refreshActiveSource ==
  /\ shown /\ ~isLoading
  /\ switches < MaxLoad
  /\ switches' = switches + 1
  /\ isLoading' = TRUE
  /\ commands' = Append(commands, [op |-> "open", load |-> switches'])
  /\ UNCHANGED <<source, watch, shown, selected, view, cached, isPaused, toggles, away, leaving>>
  /\ UNCHANGED <<parsing, opened, started, events>> /\ UNCHANGED backend

\* switchToTab to another tab that is in the cache.
switchToCachedTab ==
  /\ "cached" \in Tabs
  /\ switches < MaxLoad
  /\ switches' = switches + 1
  /\ isLoading' = FALSE
  /\ selected' = FALSE
  /\ IF shown THEN Unmount ELSE UNCHANGED <<shown, watch, source, commands>>
  /\ UNCHANGED <<view, cached, isPaused, toggles, away, leaving>>
  /\ UNCHANGED <<parsing, opened, started, events>> /\ UNCHANGED backend

\* switchToTab to another tab that must be loaded: stopCurrentTailIfNeeded
\* stops the tail of the file in view, which stays in view until the reply.
loadOtherTab ==
  /\ "load" \in Tabs
  /\ switches < MaxLoad
  /\ switches' = switches + 1
  /\ isLoading' = TRUE
  /\ selected' = FALSE
  /\ away' = away \cup {switches'}
  /\ IF shown /\ source.epoch > 0
     THEN /\ source' = [source EXCEPT !.active = FALSE]
          /\ commands' = Append(commands, [op |-> "stop", token |-> SourceToken(source),
                                            load |-> switches'])
     ELSE UNCHANGED <<source, commands>>
  /\ UNCHANGED <<watch, shown, view, cached, isPaused, toggles, leaving>>
  /\ UNCHANGED <<parsing, opened, started, events>> /\ UNCHANGED backend

\* A load goes on when the stop it awaits has been handled.
TailStopped(load) ==
  \A i \in DOMAIN commands :
    ~(commands[i].op = "stop" /\ "load" \in DOMAIN commands[i] /\ commands[i].load = load)

\* The other file has been opened; when its load is no longer the latest, the
\* result is dropped.
otherTabLoaded ==
  \E load \in away :
    /\ TailStopped(load)
    /\ away' = away \ {load}
    /\ IF isCurrentTabSwitch(load) /\ shown THEN Unmount
                                            ELSE UNCHANGED <<shown, watch, source, commands>>
    /\ isLoading' = (isLoading /\ ~isCurrentTabSwitch(load))
    /\ UNCHANGED <<selected, view, cached, isPaused, toggles, switches, leaving>>
    /\ UNCHANGED <<parsing, opened, started, events>> /\ UNCHANGED backend

\* The other file cannot be opened: the file in view stays in view.
otherTabFails ==
  \E load \in away :
    /\ TailStopped(load)
    /\ away' = away \ {load}
    /\ isLoading' = (isLoading /\ ~isCurrentTabSwitch(load))
    /\ UNCHANGED <<source, watch, shown, selected, view, cached, isPaused, toggles, switches, leaving>>
    /\ UNCHANGED wires /\ UNCHANGED backend

\* switchToTab to this tab: already in view, from the cache at once, or by
\* loading the file again.
switchToTab ==
  /\ ~selected
  /\ switches < MaxLoad
  /\ switches' = switches + 1
  /\ selected' = TRUE
  /\ isLoading' = (~shown /\ ~cached)
  /\ CASE shown -> UNCHANGED <<shown, watch, source, commands, leaving>>
       [] ~shown /\ cached ->
            /\ shown' = TRUE
            /\ source' = Begin(source)
            /\ watch' = Mounted(source)
            /\ commands' = commands \o WatchCommands(source)
            /\ UNCHANGED leaving
       [] ~shown /\ ~cached ->
            /\ leaving' = leaving \cup {switches'}
            /\ UNCHANGED <<shown, watch, source, commands>>
  /\ UNCHANGED <<view, cached, isPaused, toggles, away>>
  /\ UNCHANGED <<parsing, opened, started, events>> /\ UNCHANGED backend

\* The tail of the file in view has stopped: this tab is loaded, unless the
\* user has moved on meanwhile.
loadSelectedLogFile ==
  \E load \in leaving :
    /\ leaving' = leaving \ {load}
    /\ commands' = IF isCurrentTabSwitch(load)
                   THEN Append(commands, [op |-> "open", load |-> load]) ELSE commands
    /\ UNCHANGED <<source, watch, shown, selected, view, cached, isPaused, isLoading,
                   toggles, switches, away>>
    /\ UNCHANGED <<parsing, opened, started, events>> /\ UNCHANGED backend

\* Thirty other tabs push the snapshot out of the cache.  What the cache holds
\* of the shown tab is read only after the tab is left.
evictSnapshot ==
  /\ ~shown /\ cached
  /\ cached' = FALSE
  /\ UNCHANGED <<source, watch, shown, selected, view, isPaused, isLoading, toggles, switches, away, leaving>>
  /\ UNCHANGED wires /\ UNCHANGED backend

\* applyParseResultToStore, then the effects of the new session.
applyParseResult ==
  \E reply \in opened :
    LET fresh == [session |-> reply.session, epoch |-> 0, active |-> FALSE]
    IN /\ isCurrentTabSwitch(reply.load) /\ reply.session # None
       /\ opened' = opened \ {reply}
       /\ source' = Begin(fresh)
       /\ watch' = Mounted(fresh)
       /\ shown' = TRUE
       /\ selected' = TRUE
       /\ view' = reply.rows
       /\ cached' = TRUE
       /\ isLoading' = FALSE
       /\ commands' = commands \o CleanupCommands(watch) \o WatchCommands(fresh)
       /\ UNCHANGED <<isPaused, toggles, switches, away, leaving>>
       /\ UNCHANGED <<parsing, started, events>> /\ UNCHANGED backend

\* A failed refresh clears the view; a tab that fails to load changes nothing.
loadFails ==
  \E reply \in opened :
    /\ isCurrentTabSwitch(reply.load) /\ reply.failed
    /\ opened' = opened \ {reply}
    /\ isLoading' = FALSE
    /\ IF shown THEN Unmount /\ isPaused' = FALSE
                ELSE UNCHANGED <<shown, watch, source, commands, isPaused>>
    /\ UNCHANGED <<selected, view, cached, toggles, switches, away, leaving>>
    /\ UNCHANGED <<parsing, started, events>> /\ UNCHANGED backend

\* registerFirewallSource without a session: the source is forgotten and the
\* path becomes an ordinary file.
firewallGone ==
  \E reply \in opened :
    /\ isCurrentTabSwitch(reply.load) /\ reply.session = None /\ ~reply.failed
    /\ opened' = opened \ {reply}
    /\ shown' = FALSE
    /\ selected' = TRUE
    /\ source' = [source EXCEPT !.active = FALSE]
    /\ watch' = {}
    /\ view' = {}
    /\ cached' = FALSE
    /\ isLoading' = FALSE
    /\ commands' = commands \o CleanupCommands(watch)
    /\ UNCHANGED <<isPaused, toggles, switches, away, leaving>>
    /\ UNCHANGED <<parsing, started, events>> /\ UNCHANGED backend

\* The user has moved on: the reply is dropped.
dropReply ==
  \E reply \in opened :
    /\ ~isCurrentTabSwitch(reply.load)
    /\ opened' = opened \ {reply}
    /\ UNCHANGED webview
    /\ UNCHANGED <<commands, parsing, started, events>> /\ UNCHANGED backend

togglePause ==
  /\ ~isLoading
  /\ toggles < MaxToggle
  /\ toggles' = toggles + 1
  /\ isPaused' = ~isPaused
  /\ commands' = IF shown /\ source.active
                 THEN Append(commands, Control(IF isPaused THEN "resume" ELSE "pause",
                                               SourceToken(source)))
                 ELSE commands
  /\ UNCHANGED <<source, watch, shown, selected, view, cached, isLoading, switches, away, leaving>>
  /\ UNCHANGED <<parsing, opened, started, events>> /\ UNCHANGED backend

\* start_tail has resolved: the latest pause state is sent to that watch.
startResolved ==
  \E t \in started :
    /\ started' = started \ {t}
    /\ commands' = IF source.active /\ SourceToken(source) = t
                   THEN Append(commands, PauseControl(t)) ELSE commands
    /\ UNCHANGED webview /\ UNCHANGED <<parsing, opened, events>> /\ UNCHANGED backend

\* reconcileFirewallRows: a row already shown is skipped; a line or an id that
\* is already used by another row refuses the whole payload.
Clash(base, row) ==
  \E r \in base : (r.line = row.line /\ r.id # row.id) \/ (r.line # row.line /\ r.id = row.id)
reconcileAppending(rows, event) == rows \cup Elements(event.entries)
reconcileFirewallRows(rows, event) ==
  LET base == IF event.reset THEN {} ELSE rows
      new == Elements(event.entries)
  IN IF \E row \in new : Clash(base, row) THEN rows ELSE base \cup new

\* applyFirewallTail: only for the file in view and the watch it began.
AppliesByPath(s, event) == shown /\ s.active
Applies(s, event) == shown /\ s.active /\ SourceToken(s) = event.token
applyFirewallTail ==
  /\ events # <<>>
  /\ events' = Tail(events)
  /\ view' = IF Applies(source, Head(events))
             THEN reconcileFirewallRows(view, Head(events)) ELSE view
  /\ UNCHANGED <<source, watch, shown, selected, cached, isPaused, isLoading, toggles, switches, away, leaving>>
  /\ UNCHANGED <<commands, parsing, opened, started>> /\ UNCHANGED backend

----------------------------------------------------------------------------
(* The native side *)

\* open_log_file runs in two steps; no other command is handled meanwhile.
nativeOpen(command) ==
  /\ command.op = "open"
  /\ \/ /\ parse_file
        /\ parsing' = command.load
        /\ UNCHANGED opened
     \/ /\ open_log_file_fails
        /\ opened' = opened \cup {Reply(command.load, None, TRUE, {})}
        /\ UNCHANGED parsing
  /\ UNCHANGED started

nativeInstall ==
  /\ open_log_file
  /\ opened' = opened \cup {Reply(parsing, IF owner'.firewall THEN owner'.session ELSE None,
                                  FALSE, Elements(owner'.checkpoint.rows))}
  /\ parsing' = 0
  /\ UNCHANGED webview /\ UNCHANGED <<commands, started, events>>

\* A command the owner refuses changes nothing and resolves all the same.
nativeStart(command) ==
  /\ command.op = "start"
  /\ \/ /\ IF Starts(owner, command.token) THEN admit_tail_start(command.token)
                                           ELSE UNCHANGED backend
        /\ started' = started \cup {command.token}
     \/ /\ admit_tail_start_fails(command.token)
        /\ UNCHANGED started
  /\ UNCHANGED <<parsing, opened>>

nativeStop(command) ==
  /\ command.op = "stop"
  /\ IF Stops(owner, command.token) THEN stop_tail(command.token) ELSE UNCHANGED backend
  /\ UNCHANGED <<parsing, opened, started>>

nativePause(command) ==
  /\ command.op \in {"pause", "resume"}
  /\ IF is_current(owner, command.token)
     THEN set_paused(command.token, command.op = "pause") ELSE UNCHANGED backend
  /\ UNCHANGED <<parsing, opened, started>>

handleCommand ==
  /\ parsing = 0
  /\ \E i \in IF InOrder THEN {1} \cap DOMAIN commands ELSE DOMAIN commands :
       /\ \/ nativeOpen(commands[i]) \/ nativeStart(commands[i])
          \/ nativeStop(commands[i]) \/ nativePause(commands[i])
       /\ commands' = SubSeq(commands, 1, i - 1) \o SubSeq(commands, i + 1, Len(commands))
       /\ UNCHANGED webview /\ UNCHANGED events

nativeWorker(t) ==
  /\ WorkerStep(t)
  /\ events' = events \o emitted'
  /\ UNCHANGED webview /\ UNCHANGED <<commands, parsing, opened, started>>

fileChanges == FileStep /\ UNCHANGED webview /\ UNCHANGED wires

----------------------------------------------------------------------------
(* The specification *)

\* The file has just been opened: the first watch is being started.
WatchInit ==
  /\ Init
  /\ LET fresh == [session |-> 1, epoch |-> 0, active |-> FALSE]
     IN /\ source = Begin(fresh)
        /\ watch = Mounted(fresh)
        /\ isPaused = FALSE
        /\ commands = WatchCommands(fresh)
  /\ shown = TRUE
  /\ selected = TRUE
  /\ view = Elements(owner.checkpoint.rows)
  /\ cached = TRUE
  /\ isLoading = FALSE
  /\ toggles = 0
  /\ switches = 0
  /\ away = {} /\ leaving = {}
  /\ parsing = 0
  /\ opened = {}
  /\ started = {}
  /\ events = <<>>

UserStep ==
  \/ refreshActiveSource \/ switchToCachedTab \/ loadOtherTab \/ switchToTab
  \/ evictSnapshot \/ togglePause
LoadStep == otherTabLoaded \/ otherTabFails \/ loadSelectedLogFile
            \/ applyParseResult \/ loadFails \/ firewallGone \/ dropReply
WebviewStep == LoadStep \/ startResolved \/ applyFirewallTail

WatchNext ==
  \/ UserStep
  \/ WebviewStep
  \/ handleCommand
  \/ nativeInstall
  \/ \E t \in Token : nativeWorker(t)
  \/ fileChanges

WatchSpec == WatchInit /\ [][WatchNext]_vars

\* The threads and the event loops run; the user and other programs need not
\* do anything.  A read is not assumed to succeed: failures are finite.
WatchFairness ==
  /\ WF_vars(LoadStep) /\ WF_vars(startResolved) /\ WF_vars(applyFirewallTail)
  /\ WF_vars(handleCommand) /\ WF_vars(nativeInstall)
  /\ \A t \in Token : WF_vars(nativeWorker(t))

FairWatchSpec == WatchSpec /\ WatchFairness

----------------------------------------------------------------------------
(* Properties *)

\* The type invariant of the webview and of what is under way.
WatchTypeOK ==
  /\ source \in Source /\ watch \subseteq Token
  /\ {shown, selected, cached, isPaused, isLoading} \subseteq BOOLEAN
  /\ \A row \in view : row \in Row
  /\ toggles \in 0..MaxToggle /\ switches \in 0..MaxLoad /\ away \cup leaving \subseteq 1..MaxLoad
  /\ \A i \in DOMAIN commands : commands[i] \in Command
  /\ parsing \in 0..MaxLoad
  /\ \A reply \in opened : reply.load \in 1..MaxLoad /\ reply.session \in 0..MaxSession
  /\ started \subseteq Token
  /\ \A i \in DOMAIN events : events[i] \in Event

\* No command, reply or load is under way.
Settled ==
  /\ commands = <<>> /\ parsing = 0 /\ opened = {} /\ started = {}
  /\ away = {} /\ leaving = {}

\* When everything under way has been handled, the watch the webview believes
\* to be active is the one the native side runs (useFileWatcher: "Starts
\* tailing after a file is opened").
WatchIsHonoured ==
  Settled /\ shown /\ source.active => is_current(owner, SourceToken(source))

\* When every command has been handled, the native side tails nothing that the
\* webview does not show, in whatever order the commands arrived: no delayed
\* start outlives the stop that was sent after it.
NoOrphanWatch ==
  commands = <<>> /\ owner.active => source.active /\ is_current(owner, SourceToken(source))

\* When every command and reply has been handled, the worker of the active
\* watch is paused exactly when the pause button says so.
PauseIsHonoured ==
  Settled /\ shown /\ is_current(owner, SourceToken(source)) => owner.paused = isPaused

\* The rows that were committed and whose payload could not be emitted.
UnsentRows == UNION {Elements(event.entries) : event \in unsent}
NoResetUnsent == \A event \in unsent : ~event.reset

\* While a watch is active and no event is under way, the view holds exactly the
\* rows of the committed checkpoint but those whose own emission failed: a failed
\* emission (start_session) costs the rows of that payload and no other row, and
\* nothing else is in the view.  Nothing is said while the emission of a reset
\* is the one that failed: the rows of the old generation stay in the view and
\* later payloads may be refused for their lines.
ViewIsCheckpoint ==
  /\ shown /\ source.active
  /\ is_current(owner, SourceToken(source))
  /\ events = <<>>
  /\ NoResetUnsent
  => view = Elements(owner.checkpoint.rows) \ UnsentRows

\* Every row in the view of the open source was produced by that source, and
\* one whose id the present generation of the checkpoint covers is a row of it.
ViewIsFaithful ==
  /\ WatchTypeOK
  /\ source.session = owner.session =>
       LET ck == owner.checkpoint
       IN \A row \in view :
            /\ row.id < ck.next_id
            /\ row.id >= ck.next_id - Len(ck.rows) => row \in Elements(ck.rows)

\* Once the file, the user and the failures come to rest with the tab shown and
\* not paused, every line of the file and of no older generation is in the view
\* or was lost by a failed emission, as long as that of no reset failed.
ViewCatchesUp ==
  <>[](shown /\ ~isPaused /\ NoResetUnsent =>
         /\ {<<row.gen, row.line>> : row \in view \cup UnsentRows}
              = {<<file.gen, i>> : i \in DOMAIN file.data}
         /\ view \cap UnsentRows = {})
============================================================================
