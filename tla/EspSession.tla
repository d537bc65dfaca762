----------------------------- MODULE EspSession -----------------------------
(***************************************************************************)
(* The live ESP diagnostics sessions (src-tauri/src/esp/session.rs):       *)
(* EspSessionManager, whose start, stop and shutdown may run at the same   *)
(* time, and the worker thread of each session, which collects evidence    *)
(* and publishes numbered updates until it is stopped, expires or fails.   *)
(*                                                                         *)
(* A request to start is also the session it creates.  Every step is what  *)
(* runs under one lock, or between two waits.                              *)
(***************************************************************************)
EXTENDS Naturals, FiniteSets

CONSTANTS Sessions,   \* the sessions asked for
          MaxUpdate,  \* updates with new evidence a session publishes
          MaxFault,   \* threads not started, worker panics and updates not delivered
          MaxStop,    \* stops asked for
          None        \* no session

ASSUME BoundsAssumption == MaxUpdate \in Nat /\ MaxFault \in Nat /\ MaxStop \in Nat
ASSUME NoneAssumption == None \notin Sessions /\ "shutdown" \notin Sessions

VARIABLES
  gate,       \* who holds start_shutdown_gate
  control,    \* the SessionControl
  published,  \* the PublishedSession of each session: its state and its sequence
  cancelled,  \* the sessions whose cancellation is set
  released,   \* the sessions whose activation is released
  worker,     \* the step of the worker thread
  wanted,     \* the state the worker publishes next
  joins,      \* the WorkerJoin of each session
  start,      \* the step of the start command, or its answer
  stale,      \* the terminal session the start that holds the gate replaces
  stop,       \* the step of the stop command, or its answer
  shutdown,   \* the step of the application's shutdown
  found,      \* the session shutdown found active
  emitted,    \* history: the last update each session handed to the event sink
  asks,       \* stops left
  faults      \* failures left

vars == <<gate, control, published, cancelled, released, worker, wanted, joins, start, stale, stop,
          shutdown, found, emitted, asks, faults>>

----------------------------------------------------------------------------
(* Types *)

Terminal == {"Stopped", "Expired", "Failed"}
State == Terminal \cup {"none", "Starting", "Live", "Stopping"}
WorkerStep == {"none", "spawned", "blocked", "collect", "loop", "publish", "emit", "exited"}
JoinState == {"none", "handle", "joining", "joined"}
Control == [reservation : Sessions \cup {None}, active : Sessions \cup {None},
            shutting_down : BOOLEAN]
Update == [sequence : Nat, state : State]

\* A session is started, replaces a terminal one, and stopped in these steps.
StartStep == {"none", "gate", "reserve", "join", "joining", "spawn", "activate", "release",
              "ok", "err"}
StopStep == {"none", "find", "mark", "join", "joining", "clear", "ok", "err"}
ShutdownStep == {"none", "gate", "mark", "join", "joining", "clear", "done"}

EspTypeOK ==
  /\ gate \in Sessions \cup {None}
  /\ control \in Control
  /\ published \in [Sessions -> Update] /\ emitted \in [Sessions -> Update]
  /\ cancelled \subseteq Sessions /\ released \subseteq Sessions
  /\ worker \in [Sessions -> WorkerStep] /\ wanted \in [Sessions -> State]
  /\ joins \in [Sessions -> JoinState]
  /\ \A s \in Sessions : worker[s] = "none" <=> joins[s] = "none"
  /\ start \in [Sessions -> StartStep] /\ stop \in [Sessions -> StopStep]
  /\ stale \in Sessions \cup {None} /\ found \in Sessions \cup {None}
  /\ shutdown \in ShutdownStep
  /\ asks \in 0..MaxStop /\ faults \in 0..MaxFault

EspInit ==
  /\ gate = None
  /\ control = [reservation |-> None, active |-> None, shutting_down |-> FALSE]
  /\ published = [s \in Sessions |-> [sequence |-> 0, state |-> "none"]]
  /\ emitted = published
  /\ cancelled = {} /\ released = {}
  /\ worker = [s \in Sessions |-> "none"] /\ wanted = [s \in Sessions |-> "none"]
  /\ joins = [s \in Sessions |-> "none"]
  /\ start = [s \in Sessions |-> "none"] /\ stop = [s \in Sessions |-> "none"]
  /\ stale = None /\ found = None
  /\ shutdown = "none"
  /\ asks = MaxStop /\ faults = MaxFault

----------------------------------------------------------------------------
(* What several commands do *)

thread == <<published, worker, wanted, emitted>>
manager == <<gate, control, start, stale, stop, shutdown, found, asks>>

Fault == faults > 0 /\ faults' = faults - 1
is_terminal(s) == published[s].state \in Terminal

\* cancel_and_mark_stopping takes the publication gate, which a worker holds while it delivers.
cancel_and_mark_stopping(s) ==
  /\ worker[s] # "emit"
  /\ cancelled' = cancelled \cup {s}
  /\ published' = [published EXCEPT ![s].state =
                     IF @ \in {"Starting", "Live"} THEN "Stopping" ELSE @]

\* WorkerJoin::join up to the point where the thread is waited for, and that wait.  The second
\* caller waits for the first.
\* Mutant: the handle is taken and nothing says that it is waited for.
BeginJoin_takes(s) == joins[s] = "handle" /\ joins' = [joins EXCEPT ![s] = "none"]
BeginJoin(s) == joins[s] = "handle" /\ joins' = [joins EXCEPT ![s] = "joining"]
Joined(s) == joins[s] = "joined" /\ UNCHANGED joins
\* Mutant: the others are not told that the thread has ended.
EndJoin_silent(s) == worker[s] = "exited" /\ UNCHANGED joins
EndJoin(s) == worker[s] = "exited" /\ joins' = [joins EXCEPT ![s] = "joined"]

\* Mutant: whichever session is active is forgotten.
Forget_any(s) == control' = [control EXCEPT !.active = None]

\* SessionControl::active is cleared if it is still the same session.
Forget(s) == control' = [control EXCEPT !.active = IF @ = s THEN None ELSE @]

----------------------------------------------------------------------------
(* start *)

StartTo(s, step) == start' = [start EXCEPT ![s] = step]

\* start takes start_shutdown_gate and keeps it until it returns.
EnterStart(s) ==
  /\ start[s] = "gate"
  /\ gate = None
  /\ gate' = s
  /\ StartTo(s, "reserve")
  /\ UNCHANGED <<thread, control, cancelled, released, joins, stale, stop, shutdown, found, faults, asks>>

\* start returns.
Answer(s, step) == gate' = None /\ StartTo(s, step)

\* reserve under the control lock: a shutdown, a reservation or a session that is not terminal
\* refuses, a terminal session is taken out to be joined.
Reserve(s) ==
  /\ start[s] = "reserve"
  /\ LET a == control.active
         refused == \/ control.shutting_down
                    \/ control.reservation # None
                    \/ a # None /\ ~is_terminal(a)
     IN \/ refused /\ Answer(s, "err") /\ UNCHANGED <<control, stale>>
        \/ /\ ~refused /\ a # None
           /\ control' = [control EXCEPT !.active = None]
           /\ stale' = a
           /\ StartTo(s, "join")
           /\ UNCHANGED gate
        \/ /\ ~refused /\ a = None
           /\ control' = [control EXCEPT !.reservation = s]
           /\ StartTo(s, "spawn")
           /\ UNCHANGED <<gate, stale>>
  /\ UNCHANGED <<thread, cancelled, released, joins, stop, shutdown, found, faults, asks>>

\* Mutant: the ended session is taken out and not joined.
JoinStale_skips(s) ==
  /\ start[s] = "join"
  /\ StartTo(s, "reserve") /\ stale' = None
  /\ UNCHANGED <<thread, gate, control, cancelled, released, joins, stop, shutdown, found, faults, asks>>

\* join_active of the session taken out, then reserve tries again.
JoinStale(s) ==
  /\ \/ start[s] = "join" /\ BeginJoin(stale) /\ StartTo(s, "joining") /\ UNCHANGED stale
     \/ start[s] = "join" /\ Joined(stale) /\ StartTo(s, "reserve") /\ stale' = None
     \/ start[s] = "joining" /\ EndJoin(stale) /\ StartTo(s, "reserve") /\ stale' = None
  /\ UNCHANGED <<thread, gate, control, cancelled, released, stop, shutdown, found, faults, asks>>

\* The worker thread is created and its handle installed, or cannot be created.
Spawn(s) ==
  /\ start[s] = "spawn"
  /\ \/ /\ published' = [published EXCEPT ![s].state = "Starting"]
        /\ worker' = [worker EXCEPT ![s] = "spawned"]
        /\ joins' = [joins EXCEPT ![s] = "handle"]
        /\ StartTo(s, "activate")
        /\ UNCHANGED <<gate, control, faults>>
     \/ /\ Fault
        /\ control' = [control EXCEPT !.reservation = IF @ = s THEN None ELSE @]
        /\ Answer(s, "err")
        /\ UNCHANGED <<published, worker, joins>>
  /\ UNCHANGED <<cancelled, released, wanted, emitted, stale, stop, shutdown, found, asks>>

\* The reservation becomes the active session.  That it was lost meanwhile, or that the application
\* is shutting down, is ruled out by the gate: ReservationIsKept.
Activate(s) ==
  /\ start[s] = "activate"
  /\ control.reservation = s /\ ~control.shutting_down
  /\ control' = [control EXCEPT !.reservation = None, !.active = s]
  /\ StartTo(s, "release")
  /\ UNCHANGED <<thread, gate, cancelled, released, joins, stale, stop, shutdown, found, faults, asks>>

\* The worker may go on, and start answers with the Starting envelope.
ReleaseWorker(s) ==
  /\ start[s] = "release"
  /\ released' = released \cup {s}
  /\ Answer(s, "ok")
  /\ UNCHANGED <<thread, control, cancelled, joins, stale, stop, shutdown, found, faults, asks>>

----------------------------------------------------------------------------
(* stop and shutdown *)

StopTo(s, step) == stop' = [stop EXCEPT ![s] = step]

FindActive(s) ==
  /\ stop[s] = "find"
  /\ StopTo(s, IF control.active = s THEN "mark" ELSE "err")
  /\ UNCHANGED <<thread, gate, control, cancelled, released, joins, start, stale, shutdown, found, faults, asks>>

StopMarks(s) ==
  /\ stop[s] = "mark"
  /\ cancel_and_mark_stopping(s)
  /\ StopTo(s, "join")
  /\ UNCHANGED <<gate, control, released, worker, wanted, emitted, joins, start, stale, shutdown, found, faults, asks>>

\* Mutant: stop does not wait for the worker.
StopJoins_skips(s) ==
  /\ stop[s] = "join" /\ StopTo(s, "clear")
  /\ UNCHANGED <<thread, gate, control, cancelled, released, joins, start, stale, shutdown, found, faults, asks>>

StopJoins(s) ==
  /\ \/ stop[s] = "join" /\ BeginJoin(s) /\ StopTo(s, "joining")
     \/ stop[s] = "join" /\ Joined(s) /\ StopTo(s, "clear")
     \/ stop[s] = "joining" /\ EndJoin(s) /\ StopTo(s, "clear")
  /\ UNCHANGED <<thread, gate, control, cancelled, released, start, stale, shutdown, found, faults, asks>>

StopClears(s) ==
  /\ stop[s] = "clear"
  /\ Forget(s)
  /\ StopTo(s, "ok")
  /\ UNCHANGED <<thread, gate, cancelled, released, joins, start, stale, shutdown, found, faults, asks>>

\* Mutant: shutdown does not wait for a start under way.
ShutdownEnters_ungated ==
  /\ shutdown = "gate"
  /\ control' = [control EXCEPT !.shutting_down = TRUE, !.reservation = None]
  /\ found' = control.active
  /\ shutdown' = IF control.active = None THEN "done" ELSE "mark"
  /\ UNCHANGED <<thread, gate, cancelled, released, joins, start, stale, stop, faults, asks>>

\* shutdown waits for a start under way, then bars every later one.
ShutdownEnters ==
  /\ shutdown = "gate"
  /\ gate = None
  /\ control' = [control EXCEPT !.shutting_down = TRUE, !.reservation = None]
  /\ found' = control.active
  /\ shutdown' = IF control.active = None THEN "done" ELSE "mark"
  /\ UNCHANGED <<thread, gate, cancelled, released, joins, start, stale, stop, faults, asks>>

ShutdownMarks ==
  /\ shutdown = "mark"
  /\ cancel_and_mark_stopping(found)
  /\ released' = released \cup {found}
  /\ shutdown' = "join"
  /\ UNCHANGED <<gate, control, worker, wanted, emitted, joins, start, stale, stop, found, faults, asks>>

ShutdownJoins ==
  /\ \/ shutdown = "join" /\ BeginJoin(found) /\ shutdown' = "joining"
     \/ shutdown = "join" /\ Joined(found) /\ shutdown' = "clear"
     \/ shutdown = "joining" /\ EndJoin(found) /\ shutdown' = "clear"
  /\ UNCHANGED <<thread, gate, control, cancelled, released, start, stale, stop, found, faults, asks>>

ShutdownClears ==
  /\ shutdown = "clear"
  /\ Forget(found)
  /\ shutdown' = "done"
  /\ UNCHANGED <<thread, gate, cancelled, released, joins, start, stale, stop, found, faults, asks>>

----------------------------------------------------------------------------
(* The worker thread *)

\* The worker goes on to publish a state.
Publishes(s, state) ==
  /\ worker' = [worker EXCEPT ![s] = "publish"]
  /\ wanted' = [wanted EXCEPT ![s] = state]

\* WorkerActivation::wait looks at the release and at the cancellation before it blocks; from then
\* on only a release wakes it.
Awake(s) == \/ worker[s] = "spawned" /\ s \in released \cup cancelled
            \/ worker[s] = "blocked" /\ s \in released

WorkerBlocks(s) ==
  /\ worker[s] = "spawned"
  /\ ~Awake(s)
  /\ worker' = [worker EXCEPT ![s] = "blocked"]
  /\ UNCHANGED <<manager, published, cancelled, released, wanted, joins, emitted, faults>>

\* run_worker begins, unless the session was cancelled meanwhile.
WorkerBegins(s) ==
  /\ Awake(s)
  /\ \/ s \in cancelled /\ Publishes(s, "Stopped")
     \/ s \notin cancelled /\ worker' = [worker EXCEPT ![s] = "collect"] /\ UNCHANGED wanted
  /\ UNCHANGED <<manager, published, cancelled, released, joins, emitted, faults>>

\* initialize runs the providers, the discovery and the first reconcile, looking at the
\* cancellation between them.
Collect(s) ==
  /\ worker[s] = "collect"
  /\ Publishes(s, IF s \in cancelled THEN "Stopped" ELSE "Live")
  /\ UNCHANGED <<manager, published, cancelled, released, joins, emitted, faults>>

\* An iteration finds new evidence after the update debounce.
Evidence(s) ==
  /\ worker[s] = "loop"
  /\ s \notin cancelled
  /\ published[s].sequence <= MaxUpdate
  /\ Publishes(s, "Live")
  /\ UNCHANGED <<manager, published, cancelled, released, joins, emitted, faults>>

\* An iteration finds the session cancelled, at one of its three looks.
Cancelled(s) ==
  /\ worker[s] = "loop"
  /\ s \in cancelled
  /\ Publishes(s, "Stopped")
  /\ UNCHANGED <<manager, published, cancelled, released, joins, emitted, faults>>

\* An iteration finds that MAX_SESSION_DURATION has passed.
Expire(s) ==
  /\ worker[s] = "loop"
  /\ Publishes(s, "Expired")
  /\ UNCHANGED <<manager, published, cancelled, released, joins, emitted, faults>>

\* The worker panics outside of publish, and the thread publishes that it failed.
Panic(s) ==
  /\ worker[s] \in {"collect", "loop"}
  /\ Fault
  /\ Publishes(s, "Failed")
  /\ UNCHANGED <<manager, published, cancelled, released, joins, emitted>>

\* After publish returns the worker goes on or ends, as it wanted.
Returns(s) == worker' = [worker EXCEPT ![s] = IF wanted[s] = "Live" THEN "loop" ELSE "exited"]

\* publish takes the publication gate and numbers the update, unless the session has already ended;
\* a cancellation wins over what the worker wanted.
Publish(s) ==
  /\ worker[s] = "publish"
  /\ \/ /\ ~is_terminal(s)
        /\ published' = [published EXCEPT ![s] =
             [sequence |-> @.sequence + 1,
              state |-> IF s \in cancelled \/ @.state = "Stopping" THEN "Stopped" ELSE wanted[s]]]
        /\ worker' = [worker EXCEPT ![s] = "emit"]
     \/ /\ is_terminal(s)
        /\ Returns(s)
        /\ UNCHANGED published
  /\ UNCHANGED <<manager, cancelled, released, wanted, joins, emitted, faults>>

\* The update is handed to the event sink, then the gate is left.
Emit(s) ==
  /\ worker[s] = "emit"
  /\ emitted' = [emitted EXCEPT ![s] = published[s]]
  /\ Returns(s)
  /\ UNCHANGED <<manager, published, cancelled, released, wanted, joins>>

----------------------------------------------------------------------------
(* Specification *)

\* The page asks for a session, or for the end of one; the application exits.
AskStart(s) ==
  /\ start[s] = "none"
  /\ StartTo(s, "gate")
  /\ UNCHANGED <<thread, gate, control, cancelled, released, joins, stale, stop, shutdown, found, faults, asks>>

AskStop(s) ==
  /\ stop[s] \in {"none", "ok", "err"}
  /\ asks > 0
  /\ asks' = asks - 1
  /\ StopTo(s, "find")
  /\ UNCHANGED <<thread, gate, control, cancelled, released, joins, start, stale, shutdown, found, faults>>

AskShutdown ==
  /\ shutdown = "none"
  /\ shutdown' = "gate"
  /\ UNCHANGED <<thread, gate, control, cancelled, released, joins, start, stale, stop, found, faults, asks>>

StartSteps(s) ==
  EnterStart(s) \/ Reserve(s) \/ JoinStale(s) \/ Spawn(s) \/ Activate(s) \/ ReleaseWorker(s)
StopSteps(s) == FindActive(s) \/ StopMarks(s) \/ StopJoins(s) \/ StopClears(s)
ShutdownSteps == ShutdownEnters \/ ShutdownMarks \/ ShutdownJoins \/ ShutdownClears
WorkerSteps(s) ==
  \/ WorkerBlocks(s) \/ WorkerBegins(s) \/ Collect(s)
  \/ Evidence(s) \/ Cancelled(s) \/ Expire(s) \/ Panic(s) \/ Publish(s)
NativeSteps == ShutdownSteps \/ \E s \in Sessions : StartSteps(s) \/ StopSteps(s) \/ WorkerSteps(s)

\* The manager under callers that may ask for anything at any time.
EspNext ==
  \/ NativeSteps
  \/ AskShutdown
  \/ \E s \in Sessions : AskStart(s) \/ AskStop(s) \/ (Emit(s) /\ (Fault \/ UNCHANGED faults))

EspSpec == EspInit /\ [][EspNext]_vars

\* The steps of a worker that wait neither for evidence nor for time.
WorkerProgress(s) ==
  \/ WorkerBlocks(s) \/ WorkerBegins(s) \/ Collect(s) \/ Cancelled(s) \/ Publish(s)
  \/ Emit(s) /\ (Fault \/ UNCHANGED faults)
Progress == ShutdownSteps \/ \E s \in Sessions : StartSteps(s) \/ StopSteps(s) \/ WorkerProgress(s)

\* The threads that can go on do not all stand still.  Each of their steps can be taken finitely
\* often, so this weak form of their fairness is enough.
FairEspSpec == EspSpec /\ WF_vars(Progress)

----------------------------------------------------------------------------
(* Properties *)

Alive == {s \in Sessions : worker[s] \notin {"none", "exited"}}

\* However starts, stops and expiries overlap, there is one worker thread at a time: evidence is
\* never collected twice.
OneWorker == \A s, t \in Alive : s = t

\* The reservation of a start is still there when its worker is activated, and no shutdown has
\* begun: the error the code keeps for that case is never returned.  No start that has answered,
\* however it failed, leaves a reservation that would bar every later one.
ReservationIsKept ==
  /\ \A s \in Sessions : start[s] = "activate" => control.reservation = s /\ ~control.shutting_down
  /\ control.reservation # None => gate = control.reservation

\* When stop has answered, the worker is gone and the last update it handed over says how the
\* session ended; once shutdown has returned, no worker runs, and none is started by a command
\* still under way.
StopIsFinal ==
  /\ \A s \in Sessions : stop[s] = "ok" =>
       worker[s] = "exited" /\ emitted[s] = published[s] /\ is_terminal(s)
  /\ shutdown = "done" => Alive = {}

\* Every command returns: no order of starts, stops, a shutdown and a worker that is delivering,
\* collecting or not yet released leaves one waiting for the gate, the control lock, the
\* publication gate or a join.
CommandsReturn ==
  /\ shutdown = "gate" ~> shutdown = "done"
  /\ \A s \in Sessions : /\ start[s] = "gate" ~> start[s] \in {"ok", "err"}
                         /\ stop[s] = "find" ~> stop[s] \in {"ok", "err"}

\* The manager keeps its promise to the page, for which a session begins when it is activated: updates
\* reach the event sink one by one in the order of their numbers, the one that ends the session last,
\* and a session told to stop ends as stopped, not as expired, live or failed.
Service ==
  INSTANCE EspService WITH
    active <- control.active,
    published <- [s \in Sessions |-> IF start[s] = "activate" THEN emitted[s] ELSE published[s]],
    closed <- control.shutting_down,
    start <- [s \in Sessions |-> IF start[s] \in {"none", "ok", "err"} THEN start[s] ELSE "asked"],
    stop <- [s \in Sessions |-> IF stop[s] \in {"none", "ok", "err"} THEN stop[s] ELSE "asked"]
ServiceSpec == Service!ServiceSpec
=============================================================================
