-------------------------- MODULE EspSessionProofs --------------------------
(***************************************************************************)
(* The type invariant of EspSession, the reservation, the single worker,   *)
(* the finality of stop and shutdown, and that it implements EspService,   *)
(* for every set of sessions and every bound.                              *)
(***************************************************************************)
EXTENDS EspSession, TLAPS

----------------------------------------------------------------------------
(* The inductive invariant *)

\* The types; and shutdown joins a session only after it has found one.
Types ==
  /\ EspTypeOK
  /\ shutdown \in {"mark", "join", "joining", "clear"} => found \in Sessions

\* One start is inside the gate, and a session is reserved exactly while its worker is created.  No
\* start is that far once the application shuts down, and the active session is gone before.
Inside == {"reserve", "join", "joining", "spawn", "activate", "release"}
Beyond == {"join", "joining", "spawn", "activate"}
Gated ==
  /\ \A s \in Sessions : start[s] \in Inside <=> gate = s
  /\ \A s \in Sessions : start[s] \in {"spawn", "activate"} <=> control.reservation = s
  /\ \A s \in Sessions : start[s] \in Beyond => control.active = None
  /\ control.shutting_down => \A s \in Sessions : start[s] \notin Beyond \cup {"release"}
  /\ control.shutting_down <=> shutdown \notin {"none", "gate"}

\* A thread that was joined, or waited for to the end, has ended.
Joins ==
  /\ \A s \in Sessions : joins[s] = "joined" => worker[s] = "exited"
  /\ \A s \in Sessions : stop[s] \in {"clear", "ok"} => worker[s] = "exited"
  /\ shutdown = "clear" => worker[found] = "exited"

\* A thread is created by its start, and one that runs can be found: it is that of the active session,
\* of the one about to be, or of the one a start joins before it reserves.
Known ==
  /\ \A s \in Sessions : start[s] \in {"none", "gate", "reserve", "join", "joining", "spawn"}
                           => worker[s] = "none"
  /\ \A t \in Alive :
       \/ control.active = t
       \/ start[t] = "activate"
       \/ stale = t /\ \E s \in Sessions : start[s] \in {"join", "joining"}
  /\ shutdown \in {"mark", "join", "joining", "clear"} => control.active \in {None, found}
  /\ shutdown = "done" => control.active = None

\* A worker ends by publishing how, and what a session published last is handed over before its
\* worker goes on.
Settled(s) ==
  /\ worker[s] \in {"publish", "emit"} => wanted[s] \in Terminal \cup {"Live"}
  /\ worker[s] = "emit" /\ wanted[s] # "Live" => is_terminal(s)
  /\ worker[s] = "exited" => is_terminal(s)
  /\ is_terminal(s) /\ worker[s] # "emit" => emitted[s] = published[s]
Final == \A s \in Sessions : Settled(s)

\* The update of a session that has published none.
Nothing == [sequence |-> 0, state |-> "none"]

\* What a session is at every point of its life: nothing is published before its thread is there, a
\* cancelled one is stopping or has ended, and its worker goes on only after its start was answered or
\* the session was cancelled.
Begun == {"release", "ok"}
Lived(s) ==
  /\ worker[s] = "none" => published[s] = Nothing /\ emitted[s] = Nothing
  /\ worker[s] # "none" => published[s].state # "none"
  /\ start[s] = "activate" =>
       /\ worker[s] \in {"spawned", "blocked"}
       /\ published[s] = [sequence |-> 0, state |-> "Starting"] /\ emitted[s] = Nothing
  /\ s \in released \cup cancelled => start[s] \in Begun
  /\ s \in released \ cancelled => start[s] = "ok"
  /\ s \in cancelled => published[s].state \notin {"Starting", "Live"}
  /\ published[s].state = "Stopping" => s \in cancelled
  /\ worker[s] \in {"collect", "loop", "publish", "emit", "exited"} => s \in released \cup cancelled
  /\ worker[s] # "emit" <=> emitted[s].sequence = published[s].sequence
  /\ worker[s] \in {"publish", "emit"} /\ wanted[s] = "Stopped" => s \in cancelled
  /\ start[s] = "release" => control.active = s \/ is_terminal(s)
  /\ start[s] \in {"join", "joining"} => stale \in Sessions /\ is_terminal(stale)
  /\ stop[s] \in {"mark", "join", "joining", "clear", "ok"} => start[s] \in Begun
  /\ control.active = s => start[s] \in Begun
Life ==
  /\ \A s \in Sessions : Lived(s)
  /\ shutdown \in {"mark", "join", "joining", "clear"} => start[found] \in Begun

EspInv == Types /\ Gated /\ Joins /\ Known /\ Final /\ Life

----------------------------------------------------------------------------
(* Every step keeps it *)

\* Every command, and every step of a worker, keeps the types.
LEMMA TypesKept ==
  ASSUME Types, [EspNext]_vars
  PROVE  Types'
<1> USE DEF Types, EspTypeOK, Control, Update, State, Terminal, WorkerStep, JoinState, StartStep,
    StopStep, ShutdownStep
<1>1. ASSUME NEW s \in Sessions, AskStart(s)
       PROVE  Types'
  BY <1>1 DEF AskStart, StartTo, thread
<1>2. ASSUME NEW s \in Sessions, AskStop(s)
       PROVE  Types'
  BY <1>2, BoundsAssumption DEF AskStop, StopTo, thread
<1>3. ASSUME AskShutdown
       PROVE  Types'
  BY <1>3 DEF AskShutdown, thread
<1>4. ASSUME NEW s \in Sessions, EnterStart(s)
       PROVE  Types'
  BY <1>4 DEF EnterStart, StartTo, thread
<1>5. ASSUME NEW s \in Sessions, Reserve(s)
       PROVE  Types'
  <2> DEFINE a == control.active
             refused == \/ control.shutting_down
                        \/ control.reservation # None
                        \/ a # None /\ ~is_terminal(a)
  <2>1. CASE refused /\ Answer(s, "err") /\ UNCHANGED <<control, stale>>
    BY <1>5, <2>1 DEF Reserve, StartTo, Answer, thread
  <2>2. CASE ~refused /\ a # None
    <3>1. a \in Sessions /\ control' = [control EXCEPT !.active = None] /\ stale' = a
          /\ StartTo(s, "join") /\ UNCHANGED gate
      BY <1>5, <2>2 DEF Reserve, Answer
    <3>2. control' \in Control /\ stale' \in Sessions
      BY <3>1
    <3> QED BY <1>5, <3>1, <3>2 DEF Reserve, StartTo, thread
  <2>3. CASE ~refused /\ a = None
    <3>1. control' = [control EXCEPT !.reservation = s] /\ StartTo(s, "spawn")
          /\ UNCHANGED <<gate, stale>>
      BY <1>5, <2>3 DEF Reserve, Answer
    <3>2. control' \in Control
      BY <3>1
    <3> QED BY <1>5, <3>1, <3>2 DEF Reserve, StartTo, thread
  <2> QED BY <1>5, <2>1, <2>2, <2>3 DEF Reserve
<1>6. ASSUME NEW s \in Sessions, JoinStale(s)
       PROVE  Types'
  <2>1. /\ joins' \in [Sessions -> JoinState]
        /\ \A t \in Sessions : joins'[t] = "none" <=> joins[t] = "none"
    <3>1. CASE BeginJoin(stale)
      BY <3>1 DEF BeginJoin
    <3>2. CASE Joined(stale)
      BY <3>2 DEF Joined
    <3>3. CASE EndJoin(stale)
      BY <3>3 DEF EndJoin
    <3> QED BY <1>6, <3>1, <3>2, <3>3 DEF JoinStale
  <2>2. start' \in [Sessions -> StartStep] /\ stale' \in Sessions \cup {None}
    <3> HIDE DEF JoinState
    <3> QED BY <1>6 DEF JoinStale, StartTo, StopTo
  <2> QED BY <1>6, <2>1, <2>2 DEF JoinStale, thread
<1>7. ASSUME NEW s \in Sessions, Spawn(s)
       PROVE  Types'
  <2>1. CASE UNCHANGED <<published, worker, joins>>
    <3>1. /\ start' \in [Sessions -> StartStep] /\ gate' \in Sessions \cup {None}
      BY <1>7 DEF Spawn, StartTo, Answer
    <3>2. control' \in Control
      BY <1>7 DEF Spawn
    <3>3. faults' \in 0..MaxFault
      BY <1>7, BoundsAssumption DEF Spawn, Fault
    <3> QED BY <1>7, <2>1, <3>1, <3>2, <3>3 DEF Spawn
  <2>2. CASE ~UNCHANGED <<published, worker, joins>>
    <3>1. /\ published' = [published EXCEPT ![s].state = "Starting"]
          /\ worker' = [worker EXCEPT ![s] = "spawned"]
          /\ joins' = [joins EXCEPT ![s] = "handle"]
          /\ start' = [start EXCEPT ![s] = "activate"]
          /\ UNCHANGED <<gate, control, faults>>
      BY <1>7, <2>2 DEF Spawn, StartTo
    <3>2. published' \in [Sessions -> Update]
      BY <3>1
    <3>3. worker' \in [Sessions -> WorkerStep] /\ joins' \in [Sessions -> JoinState]
          /\ \A t \in Sessions : worker'[t] = "none" <=> joins'[t] = "none"
      BY <3>1
    <3> QED BY <1>7, <3>1, <3>2, <3>3 DEF Spawn
  <2> QED BY <2>1, <2>2
<1>8. ASSUME NEW s \in Sessions, Activate(s)
       PROVE  Types'
  BY <1>8 DEF Activate, StartTo, thread
<1>9. ASSUME NEW s \in Sessions, ReleaseWorker(s)
       PROVE  Types'
  BY <1>9 DEF ReleaseWorker, StartTo, Answer, thread
<1>10. ASSUME NEW s \in Sessions, FindActive(s)
       PROVE  Types'
  BY <1>10 DEF FindActive, StopTo, thread
<1>11. ASSUME NEW s \in Sessions, StopMarks(s)
       PROVE  Types'
  BY <1>11, BoundsAssumption DEF StopMarks, StopTo, cancel_and_mark_stopping
<1>12. ASSUME NEW s \in Sessions, StopJoins(s)
       PROVE  Types'
  <2>1. /\ joins' \in [Sessions -> JoinState]
        /\ \A t \in Sessions : joins'[t] = "none" <=> joins[t] = "none"
    <3>1. CASE BeginJoin(s)
      BY <3>1 DEF BeginJoin
    <3>2. CASE Joined(s)
      BY <3>2 DEF Joined
    <3>3. CASE EndJoin(s)
      BY <3>3 DEF EndJoin
    <3> QED BY <1>12, <3>1, <3>2, <3>3 DEF StopJoins
  <2>2. stop' \in [Sessions -> StopStep]
    <3> HIDE DEF JoinState
    <3> QED BY <1>12 DEF StopJoins, StartTo, StopTo
  <2> QED BY <1>12, <2>1, <2>2 DEF StopJoins, thread
<1>13. ASSUME NEW s \in Sessions, StopClears(s)
       PROVE  Types'
  BY <1>13 DEF StopClears, StopTo, Forget, thread
<1>14. ASSUME ShutdownEnters
       PROVE  Types'
  BY <1>14 DEF ShutdownEnters, thread
<1>15. ASSUME ShutdownMarks
       PROVE  Types'
  BY <1>15 DEF ShutdownMarks, cancel_and_mark_stopping
<1>16. ASSUME ShutdownJoins
       PROVE  Types'
  <2>1. /\ joins' \in [Sessions -> JoinState]
        /\ \A t \in Sessions : joins'[t] = "none" <=> joins[t] = "none"
    <3>1. CASE BeginJoin(found)
      BY <3>1 DEF BeginJoin
    <3>2. CASE Joined(found)
      BY <3>2 DEF Joined
    <3>3. CASE EndJoin(found)
      BY <3>3 DEF EndJoin
    <3> QED BY <1>16, <3>1, <3>2, <3>3 DEF ShutdownJoins
  <2>2. shutdown' \in ShutdownStep
    <3> HIDE DEF JoinState
    <3> QED BY <1>16 DEF ShutdownJoins
  <2>3. found \in Sessions
    BY <1>16 DEF ShutdownJoins
  <2> QED BY <1>16, <2>1, <2>2, <2>3 DEF ShutdownJoins, thread
<1>17. ASSUME ShutdownClears
       PROVE  Types'
  BY <1>17 DEF ShutdownClears, Forget, thread
<1>18. ASSUME NEW s \in Sessions, WorkerBlocks(s)
       PROVE  Types'
  BY <1>18 DEF WorkerBlocks, manager
<1>19. ASSUME NEW s \in Sessions, WorkerBegins(s)
       PROVE  Types'
  <2>1. worker[s] \in {"spawned", "blocked"}
    BY <1>19 DEF WorkerBegins, Awake
  <2>2. \/ s \in cancelled /\ Publishes(s, "Stopped")
        \/ worker' = [worker EXCEPT ![s] = "collect"] /\ UNCHANGED wanted
    BY <1>19 DEF WorkerBegins
  <2>3. worker' \in [Sessions -> WorkerStep] /\ wanted' \in [Sessions -> State]
        /\ \A t \in Sessions : worker'[t] = "none" <=> worker[t] = "none"
    <3>1. CASE Publishes(s, "Stopped")
      BY <2>1, <3>1 DEF Publishes
    <3>2. CASE worker' = [worker EXCEPT ![s] = "collect"] /\ UNCHANGED wanted
      BY <2>1, <3>2
    <3> QED BY <2>2, <3>1, <3>2
  <2> QED BY <1>19, <2>3 DEF WorkerBegins, manager
<1>20. ASSUME NEW s \in Sessions, Collect(s)
       PROVE  Types'
  BY <1>20 DEF Collect, Publishes, manager
<1>21. ASSUME NEW s \in Sessions, Evidence(s)
       PROVE  Types'
  BY <1>21 DEF Evidence, Publishes, manager
<1>22. ASSUME NEW s \in Sessions, Cancelled(s)
       PROVE  Types'
  BY <1>22 DEF Cancelled, Publishes, manager
<1>23. ASSUME NEW s \in Sessions, Expire(s)
       PROVE  Types'
  BY <1>23 DEF Expire, Publishes, manager
<1>24. ASSUME NEW s \in Sessions, Panic(s)
       PROVE  Types'
  BY <1>24, BoundsAssumption DEF Panic, Publishes, Fault, manager
<1>25. ASSUME NEW s \in Sessions, Publish(s)
       PROVE  Types'
  <2>1. published' \in [Sessions -> Update]
    <3> DEFINE u == [sequence |-> published[s].sequence + 1,
                     state |-> IF s \in cancelled \/ published[s].state = "Stopping" THEN "Stopped"
                               ELSE wanted[s]]
    <3>1. u \in Update
      OBVIOUS
    <3>2. published' = [published EXCEPT ![s] = u] \/ UNCHANGED published
      BY <1>25 DEF Publish
    <3> HIDE DEF u, Update
    <3> QED BY <3>1, <3>2
  <2>2. /\ worker' \in [Sessions -> WorkerStep]
        /\ \A t \in Sessions : worker'[t] = "none" <=> worker[t] = "none"
    <3>1. worker[s] = "publish"
      BY <1>25 DEF Publish
    <3>2. PICK step \in {"emit", "loop", "exited"} : worker' = [worker EXCEPT ![s] = step]
      <4>1. CASE is_terminal(s)
        BY <1>25, <4>1 DEF Publish, Returns
      <4>2. CASE ~is_terminal(s)
        BY <1>25, <4>2 DEF Publish
      <4> QED BY <4>1, <4>2
    <3> QED BY <3>1, <3>2
  <2> QED BY <1>25, <2>1, <2>2 DEF Publish, manager
<1>26. ASSUME NEW s \in Sessions, Emit(s) /\ (Fault \/ UNCHANGED faults)
       PROVE  Types'
  BY <1>26, BoundsAssumption DEF Emit, Returns, Fault, manager
<1>27. CASE UNCHANGED vars
  BY <1>27 DEF vars
<1> QED
  BY <1>1, <1>2, <1>3, <1>4, <1>5, <1>6, <1>7, <1>8, <1>9, <1>10, <1>11, <1>12, <1>13, <1>14,
      <1>15, <1>16, <1>17, <1>18, <1>19, <1>20, <1>21, <1>22, <1>23, <1>24, <1>25, <1>26, <1>27
  DEF EspNext, NativeSteps, ShutdownSteps, StartSteps, StopSteps, WorkerSteps

\* start and shutdown take start_shutdown_gate only when it is free, and reserve only inside it.
LEMMA GatedKept ==
  ASSUME Types, Gated, [EspNext]_vars
  PROVE  Gated'
<1> USE DEF Types, EspTypeOK, Gated, Inside, Beyond, Control, StartStep, ShutdownStep
<1>1. ASSUME NEW s \in Sessions, AskStart(s)
       PROVE  Gated'
  BY <1>1 DEF AskStart, StartTo
<1>2. ASSUME NEW s \in Sessions, AskStop(s)
       PROVE  Gated'
  BY <1>2 DEF AskStop, StopTo
<1>3. ASSUME AskShutdown
       PROVE  Gated'
  BY <1>3 DEF AskShutdown
<1>4. ASSUME NEW s \in Sessions, EnterStart(s)
       PROVE  Gated'
  BY <1>4, NoneAssumption DEF EnterStart, StartTo
<1>5. ASSUME NEW s \in Sessions, Reserve(s)
       PROVE  Gated'
  BY <1>5 DEF Reserve, StartTo, Answer
<1>6. ASSUME NEW s \in Sessions, JoinStale(s)
       PROVE  Gated'
  BY <1>6 DEF JoinStale, StartTo, BeginJoin, Joined, EndJoin
<1>7. ASSUME NEW s \in Sessions, Spawn(s)
       PROVE  Gated'
  BY <1>7, NoneAssumption DEF Spawn, StartTo, Answer, Fault
<1>8. ASSUME NEW s \in Sessions, Activate(s)
       PROVE  Gated'
  BY <1>8, NoneAssumption DEF Activate, StartTo
<1>9. ASSUME NEW s \in Sessions, ReleaseWorker(s)
       PROVE  Gated'
  BY <1>9 DEF ReleaseWorker, StartTo, Answer
<1>10. ASSUME NEW s \in Sessions, FindActive(s)
       PROVE  Gated'
  BY <1>10 DEF FindActive, StopTo
<1>11. ASSUME NEW s \in Sessions, StopMarks(s)
       PROVE  Gated'
  BY <1>11 DEF StopMarks, StopTo, cancel_and_mark_stopping
<1>12. ASSUME NEW s \in Sessions, StopJoins(s)
       PROVE  Gated'
  BY <1>12 DEF StopJoins, StopTo, BeginJoin, Joined, EndJoin
<1>13. ASSUME NEW s \in Sessions, StopClears(s)
       PROVE  Gated'
  BY <1>13 DEF StopClears, StopTo, Forget
<1>14. ASSUME ShutdownEnters
       PROVE  Gated'
  BY <1>14, NoneAssumption DEF ShutdownEnters
<1>15. ASSUME ShutdownMarks
       PROVE  Gated'
  BY <1>15 DEF ShutdownMarks, cancel_and_mark_stopping
<1>16. ASSUME ShutdownJoins
       PROVE  Gated'
  BY <1>16 DEF ShutdownJoins, BeginJoin, Joined, EndJoin
<1>17. ASSUME ShutdownClears
       PROVE  Gated'
  BY <1>17 DEF ShutdownClears, Forget
<1>18. ASSUME NEW s \in Sessions, WorkerBlocks(s)
       PROVE  Gated'
  BY <1>18 DEF WorkerBlocks, manager
<1>19. ASSUME NEW s \in Sessions, WorkerBegins(s)
       PROVE  Gated'
  BY <1>19 DEF WorkerBegins, Publishes, Awake, manager
<1>20. ASSUME NEW s \in Sessions, Collect(s)
       PROVE  Gated'
  BY <1>20 DEF Collect, Publishes, manager
<1>21. ASSUME NEW s \in Sessions, Evidence(s)
       PROVE  Gated'
  BY <1>21 DEF Evidence, Publishes, manager
<1>22. ASSUME NEW s \in Sessions, Cancelled(s)
       PROVE  Gated'
  BY <1>22 DEF Cancelled, Publishes, manager
<1>23. ASSUME NEW s \in Sessions, Expire(s)
       PROVE  Gated'
  BY <1>23 DEF Expire, Publishes, manager
<1>24. ASSUME NEW s \in Sessions, Panic(s)
       PROVE  Gated'
  BY <1>24 DEF Panic, Publishes, Fault, manager
<1>25. ASSUME NEW s \in Sessions, Publish(s)
       PROVE  Gated'
  BY <1>25 DEF Publish, Returns, manager
<1>26. ASSUME NEW s \in Sessions, Emit(s) /\ (Fault \/ UNCHANGED faults)
       PROVE  Gated'
  BY <1>26 DEF Emit, Returns, Fault, manager
<1>27. CASE UNCHANGED vars
  BY <1>27 DEF vars
<1> QED
  BY <1>1, <1>2, <1>3, <1>4, <1>5, <1>6, <1>7, <1>8, <1>9, <1>10, <1>11, <1>12, <1>13, <1>14,
      <1>15, <1>16, <1>17, <1>18, <1>19, <1>20, <1>21, <1>22, <1>23, <1>24, <1>25, <1>26, <1>27
  DEF EspNext, NativeSteps, ShutdownSteps, StartSteps, StopSteps, WorkerSteps

\* A join, by whichever of the three commands, ends only after the thread has; a thread that has
\* ended does not run again.
LEMMA JoinsKept ==
  ASSUME Types, Joins, Known, [EspNext]_vars
  PROVE  Joins'
<1> USE DEF Types, EspTypeOK, Joins, WorkerStep, JoinState, StopStep, ShutdownStep
<1>1. ASSUME NEW s \in Sessions, AskStart(s)
       PROVE  Joins'
  BY <1>1 DEF AskStart, StartTo, thread
<1>2. ASSUME NEW s \in Sessions, AskStop(s)
       PROVE  Joins'
  BY <1>2 DEF AskStop, StopTo, thread
<1>3. ASSUME AskShutdown
       PROVE  Joins'
  BY <1>3 DEF AskShutdown, thread
<1>4. ASSUME NEW s \in Sessions, EnterStart(s)
       PROVE  Joins'
  BY <1>4 DEF EnterStart, StartTo, thread
<1>5. ASSUME NEW s \in Sessions, Reserve(s)
       PROVE  Joins'
  BY <1>5 DEF Reserve, StartTo, Answer, thread
<1>6. ASSUME NEW s \in Sessions, JoinStale(s)
       PROVE  Joins'
  BY <1>6 DEF JoinStale, StartTo, BeginJoin, Joined, EndJoin, thread
<1>7. ASSUME NEW s \in Sessions, Spawn(s)
       PROVE  Joins'
  <2>1. worker[s] = "none"
    BY <1>7 DEF Known, Spawn
  <2>2. \A t \in Sessions : joins'[t] = "joined" => joins[t] = "joined"
    BY <1>7 DEF Spawn
  <2>3. \A t \in Sessions : worker[t] = "exited" => worker'[t] = "exited"
    BY <1>7, <2>1 DEF Spawn
  <2> QED BY <1>7, <2>2, <2>3 DEF Spawn
<1>8. ASSUME NEW s \in Sessions, Activate(s)
       PROVE  Joins'
  BY <1>8 DEF Activate, StartTo, thread
<1>9. ASSUME NEW s \in Sessions, ReleaseWorker(s)
       PROVE  Joins'
  BY <1>9 DEF ReleaseWorker, StartTo, Answer, thread
<1>10. ASSUME NEW s \in Sessions, FindActive(s)
       PROVE  Joins'
  BY <1>10 DEF FindActive, StopTo, thread
<1>11. ASSUME NEW s \in Sessions, StopMarks(s)
       PROVE  Joins'
  BY <1>11 DEF StopMarks, StopTo, cancel_and_mark_stopping
<1>12. ASSUME NEW s \in Sessions, StopJoins(s)
       PROVE  Joins'
  BY <1>12 DEF StopJoins, StopTo, BeginJoin, Joined, EndJoin, thread
<1>13. ASSUME NEW s \in Sessions, StopClears(s)
       PROVE  Joins'
  BY <1>13 DEF StopClears, StopTo, Forget, thread
<1>14. ASSUME ShutdownEnters
       PROVE  Joins'
  BY <1>14 DEF ShutdownEnters, thread
<1>15. ASSUME ShutdownMarks
       PROVE  Joins'
  BY <1>15 DEF ShutdownMarks, cancel_and_mark_stopping
<1>16. ASSUME ShutdownJoins
       PROVE  Joins'
  BY <1>16 DEF ShutdownJoins, BeginJoin, Joined, EndJoin, thread
<1>17. ASSUME ShutdownClears
       PROVE  Joins'
  BY <1>17 DEF ShutdownClears, Forget, thread
<1>18. ASSUME NEW s \in Sessions, WorkerBlocks(s)
       PROVE  Joins'
  BY <1>18 DEF WorkerBlocks, manager
<1>19. ASSUME NEW s \in Sessions, WorkerBegins(s)
       PROVE  Joins'
  BY <1>19 DEF WorkerBegins, Publishes, Awake, manager
<1>20. ASSUME NEW s \in Sessions, Collect(s)
       PROVE  Joins'
  BY <1>20 DEF Collect, Publishes, manager
<1>21. ASSUME NEW s \in Sessions, Evidence(s)
       PROVE  Joins'
  BY <1>21 DEF Evidence, Publishes, manager
<1>22. ASSUME NEW s \in Sessions, Cancelled(s)
       PROVE  Joins'
  BY <1>22 DEF Cancelled, Publishes, manager
<1>23. ASSUME NEW s \in Sessions, Expire(s)
       PROVE  Joins'
  BY <1>23 DEF Expire, Publishes, manager
<1>24. ASSUME NEW s \in Sessions, Panic(s)
       PROVE  Joins'
  BY <1>24 DEF Panic, Publishes, Fault, manager
<1>25. ASSUME NEW s \in Sessions, Publish(s)
       PROVE  Joins'
  BY <1>25 DEF Publish, Returns, manager
<1>26. ASSUME NEW s \in Sessions, Emit(s) /\ (Fault \/ UNCHANGED faults)
       PROVE  Joins'
  BY <1>26 DEF Emit, Returns, Fault, manager
<1>27. CASE UNCHANGED vars
  BY <1>27 DEF vars
<1> QED
  BY <1>1, <1>2, <1>3, <1>4, <1>5, <1>6, <1>7, <1>8, <1>9, <1>10, <1>11, <1>12, <1>13, <1>14,
      <1>15, <1>16, <1>17, <1>18, <1>19, <1>20, <1>21, <1>22, <1>23, <1>24, <1>25, <1>26, <1>27
  DEF EspNext, NativeSteps, ShutdownSteps, StartSteps, StopSteps, WorkerSteps

\* A command forgets the active session only when its thread has ended, or to join it.
LEMMA KnownKept ==
  ASSUME Types, Gated, Joins, Known, Types', [EspNext]_vars
  PROVE  Known'
<1> USE DEF Types, EspTypeOK, Gated, Joins, Known, Inside, Beyond, Alive, Control, WorkerStep,
    StartStep, ShutdownStep
<1>1. ASSUME NEW s \in Sessions, AskStart(s)
       PROVE  Known'
  BY <1>1 DEF AskStart, StartTo, thread
<1>2. ASSUME NEW s \in Sessions, AskStop(s)
       PROVE  Known'
  BY <1>2 DEF AskStop, StopTo, thread
<1>3. ASSUME AskShutdown
       PROVE  Known'
  BY <1>3 DEF AskShutdown, thread
<1>4. ASSUME NEW s \in Sessions, EnterStart(s)
       PROVE  Known'
  BY <1>4 DEF EnterStart, StartTo, thread
<1>5. ASSUME NEW s \in Sessions, Reserve(s)
       PROVE  Known'
  BY <1>5 DEF Reserve, StartTo, Answer, thread
<1>6. ASSUME NEW s \in Sessions, JoinStale(s)
       PROVE  Known'
  BY <1>6 DEF JoinStale, StartTo, BeginJoin, Joined, EndJoin, thread
<1>7. ASSUME NEW s \in Sessions, Spawn(s)
       PROVE  Known'
  BY <1>7 DEF Spawn, StartTo, Answer, Fault
<1>8. ASSUME NEW s \in Sessions, Activate(s)
       PROVE  Known'
  BY <1>8, NoneAssumption DEF Activate, StartTo, thread
<1>9. ASSUME NEW s \in Sessions, ReleaseWorker(s)
       PROVE  Known'
  BY <1>9 DEF ReleaseWorker, StartTo, Answer, thread
<1>10. ASSUME NEW s \in Sessions, FindActive(s)
       PROVE  Known'
  BY <1>10 DEF FindActive, StopTo, thread
<1>11. ASSUME NEW s \in Sessions, StopMarks(s)
       PROVE  Known'
  BY <1>11 DEF StopMarks, StopTo, cancel_and_mark_stopping
<1>12. ASSUME NEW s \in Sessions, StopJoins(s)
       PROVE  Known'
  BY <1>12 DEF StopJoins, StopTo, BeginJoin, Joined, EndJoin, thread
<1>13. ASSUME NEW s \in Sessions, StopClears(s)
       PROVE  Known'
  BY <1>13 DEF StopClears, StopTo, Forget, thread
<1>14. ASSUME ShutdownEnters
       PROVE  Known'
  BY <1>14 DEF ShutdownEnters, thread
<1>15. ASSUME ShutdownMarks
       PROVE  Known'
  BY <1>15 DEF ShutdownMarks, cancel_and_mark_stopping
<1>16. ASSUME ShutdownJoins
       PROVE  Known'
  BY <1>16 DEF ShutdownJoins, BeginJoin, Joined, EndJoin, thread
<1>17. ASSUME ShutdownClears
       PROVE  Known'
  BY <1>17 DEF ShutdownClears, Forget, thread
<1>18. ASSUME NEW s \in Sessions, WorkerBlocks(s)
       PROVE  Known'
  BY <1>18 DEF WorkerBlocks, manager
<1>19. ASSUME NEW s \in Sessions, WorkerBegins(s)
       PROVE  Known'
  BY <1>19 DEF WorkerBegins, Publishes, Awake, manager
<1>20. ASSUME NEW s \in Sessions, Collect(s)
       PROVE  Known'
  BY <1>20 DEF Collect, Publishes, manager
<1>21. ASSUME NEW s \in Sessions, Evidence(s)
       PROVE  Known'
  BY <1>21 DEF Evidence, Publishes, manager
<1>22. ASSUME NEW s \in Sessions, Cancelled(s)
       PROVE  Known'
  BY <1>22 DEF Cancelled, Publishes, manager
<1>23. ASSUME NEW s \in Sessions, Expire(s)
       PROVE  Known'
  BY <1>23 DEF Expire, Publishes, manager
<1>24. ASSUME NEW s \in Sessions, Panic(s)
       PROVE  Known'
  BY <1>24 DEF Panic, Publishes, Fault, manager
<1>25. ASSUME NEW s \in Sessions, Publish(s)
       PROVE  Known'
  BY <1>25 DEF Publish, Returns, manager
<1>26. ASSUME NEW s \in Sessions, Emit(s) /\ (Fault \/ UNCHANGED faults)
       PROVE  Known'
  BY <1>26 DEF Emit, Returns, Fault, manager
<1>27. CASE UNCHANGED vars
  BY <1>27 DEF vars
<1> QED
  BY <1>1, <1>2, <1>3, <1>4, <1>5, <1>6, <1>7, <1>8, <1>9, <1>10, <1>11, <1>12, <1>13, <1>14,
      <1>15, <1>16, <1>17, <1>18, <1>19, <1>20, <1>21, <1>22, <1>23, <1>24, <1>25, <1>26, <1>27
  DEF EspNext, NativeSteps, ShutdownSteps, StartSteps, StopSteps, WorkerSteps

\* Every command, and every step of a worker, leaves the last update of an ended session handed over.
LEMMA FinalKept ==
  ASSUME Types, Known, Final, [EspNext]_vars
  PROVE  Final'
<1> USE DEF Types, EspTypeOK, Known, Final, Settled, is_terminal, Control, Update, State, Terminal,
    WorkerStep
<1>1. ASSUME NEW s \in Sessions, AskStart(s)
       PROVE  Final'
  BY <1>1 DEF AskStart, StartTo, thread
<1>2. ASSUME NEW s \in Sessions, AskStop(s)
       PROVE  Final'
  BY <1>2 DEF AskStop, StopTo, thread
<1>3. ASSUME AskShutdown
       PROVE  Final'
  BY <1>3 DEF AskShutdown, thread
<1>4. ASSUME NEW s \in Sessions, EnterStart(s)
       PROVE  Final'
  BY <1>4 DEF EnterStart, StartTo, thread
<1>5. ASSUME NEW s \in Sessions, Reserve(s)
       PROVE  Final'
  BY <1>5 DEF Reserve, StartTo, Answer, thread
<1>6. ASSUME NEW s \in Sessions, JoinStale(s)
       PROVE  Final'
  BY <1>6 DEF JoinStale, StartTo, BeginJoin, Joined, EndJoin, thread
<1>7. ASSUME NEW s \in Sessions, Spawn(s)
       PROVE  Final'
  <2>1. worker[s] = "none"
    BY <1>7 DEF Spawn
  <2>2. \A t \in Sessions \ {s} : published'[t] = published[t] /\ worker'[t] = worker[t]
    BY <1>7 DEF Spawn
  <2>3. CASE UNCHANGED <<published, worker>>
    BY <1>7, <2>3 DEF Spawn
  <2>4. CASE published'[s].state = "Starting" /\ worker'[s] = "spawned"
    <3>1. UNCHANGED <<wanted, emitted>> /\ ~is_terminal(s)'
      BY <1>7, <2>4 DEF Spawn
    <3>2. Settled(s)'
      BY <2>4, <3>1
    <3>3. \A t \in Sessions \ {s} : Settled(t)'
      BY <2>2, <3>1
    <3> QED BY <3>2, <3>3
  <2> QED BY <1>7, <2>3, <2>4 DEF Spawn
<1>8. ASSUME NEW s \in Sessions, Activate(s)
       PROVE  Final'
  BY <1>8 DEF Activate, StartTo, thread
<1>9. ASSUME NEW s \in Sessions, ReleaseWorker(s)
       PROVE  Final'
  BY <1>9 DEF ReleaseWorker, StartTo, Answer, thread
<1>10. ASSUME NEW s \in Sessions, FindActive(s)
       PROVE  Final'
  BY <1>10 DEF FindActive, StopTo, thread
<1>11. ASSUME NEW s \in Sessions, StopMarks(s)
       PROVE  Final'
  BY <1>11 DEF StopMarks, StopTo, cancel_and_mark_stopping
<1>12. ASSUME NEW s \in Sessions, StopJoins(s)
       PROVE  Final'
  BY <1>12 DEF StopJoins, StopTo, BeginJoin, Joined, EndJoin, thread
<1>13. ASSUME NEW s \in Sessions, StopClears(s)
       PROVE  Final'
  BY <1>13 DEF StopClears, StopTo, Forget, thread
<1>14. ASSUME ShutdownEnters
       PROVE  Final'
  BY <1>14 DEF ShutdownEnters, thread
<1>15. ASSUME ShutdownMarks
       PROVE  Final'
  BY <1>15 DEF ShutdownMarks, cancel_and_mark_stopping
<1>16. ASSUME ShutdownJoins
       PROVE  Final'
  BY <1>16 DEF ShutdownJoins, BeginJoin, Joined, EndJoin, thread
<1>17. ASSUME ShutdownClears
       PROVE  Final'
  BY <1>17 DEF ShutdownClears, Forget, thread
<1>18. ASSUME NEW s \in Sessions, WorkerBlocks(s)
       PROVE  Final'
  BY <1>18 DEF WorkerBlocks
<1>19. ASSUME NEW s \in Sessions, WorkerBegins(s)
       PROVE  Final'
  BY <1>19 DEF WorkerBegins, Publishes, Awake
<1>20. ASSUME NEW s \in Sessions, Collect(s)
       PROVE  Final'
  BY <1>20 DEF Collect, Publishes
<1>21. ASSUME NEW s \in Sessions, Evidence(s)
       PROVE  Final'
  BY <1>21 DEF Evidence, Publishes
<1>22. ASSUME NEW s \in Sessions, Cancelled(s)
       PROVE  Final'
  BY <1>22 DEF Cancelled, Publishes
<1>23. ASSUME NEW s \in Sessions, Expire(s)
       PROVE  Final'
  BY <1>23 DEF Expire, Publishes
<1>24. ASSUME NEW s \in Sessions, Panic(s)
       PROVE  Final'
  BY <1>24 DEF Panic, Publishes, Fault
<1>25. ASSUME NEW s \in Sessions, Publish(s)
       PROVE  Final'
  <2>1. \A t \in Sessions \ {s} : published'[t] = published[t] /\ worker'[t] = worker[t]
    BY <1>25 DEF Publish, Returns
  <2>2. CASE is_terminal(s)
    <3>1. UNCHANGED published /\ worker'[s] \in {"loop", "exited"}
      BY <1>25, <2>2 DEF Publish, Returns
    <3> QED BY <1>25, <2>1, <2>2, <3>1 DEF Publish
  <2>3. CASE ~is_terminal(s)
    <3>1. worker'[s] = "emit" /\ published'[s].state \in {"Stopped", wanted[s]}
      BY <1>25, <2>3 DEF Publish
    <3>2. wanted'[s] \in Terminal \cup {"Live"} /\ (wanted'[s] # "Live" => is_terminal(s)')
      BY <1>25, <3>1 DEF Publish
    <3>3. UNCHANGED <<wanted, emitted>>
      BY <1>25 DEF Publish
    <3>4. Settled(s)'
      BY <3>1, <3>2
    <3>5. \A t \in Sessions \ {s} : Settled(t)'
      BY <2>1, <3>3
    <3> QED BY <3>4, <3>5
  <2> QED BY <2>2, <2>3
<1>26. ASSUME NEW s \in Sessions, Emit(s) /\ (Fault \/ UNCHANGED faults)
       PROVE  Final'
  BY <1>26 DEF Emit, Returns, Fault
<1>27. CASE UNCHANGED vars
  BY <1>27 DEF vars
<1> QED
  BY <1>1, <1>2, <1>3, <1>4, <1>5, <1>6, <1>7, <1>8, <1>9, <1>10, <1>11, <1>12, <1>13, <1>14,
      <1>15, <1>16, <1>17, <1>18, <1>19, <1>20, <1>21, <1>22, <1>23, <1>24, <1>25, <1>26, <1>27
  DEF EspNext, NativeSteps, ShutdownSteps, StartSteps, StopSteps, WorkerSteps

\* Every command, and every step of a worker, keeps what is known of the life of each session: what
\* it may have published, and whether it may go on.
LEMMA LifeKept ==
  ASSUME Types, Gated, Joins, Known, Final, Life, Types', [EspNext]_vars
  PROVE  Life'
<1> USE NoneAssumption
<1>1. ASSUME NEW s \in Sessions, AskStart(s)
       PROVE  Life'
  BY <1>1 DEF AskStart, StartTo, thread, Life, Lived, Begun, is_terminal
<1>2. ASSUME NEW s \in Sessions, AskStop(s)
       PROVE  Life'
  BY <1>2 DEF AskStop, StopTo, thread, Life, Lived, is_terminal
<1>3. ASSUME AskShutdown
       PROVE  Life'
  BY <1>3 DEF AskShutdown, thread, Life, Lived, is_terminal
<1>4. ASSUME NEW s \in Sessions, EnterStart(s)
       PROVE  Life'
  BY <1>4 DEF EnterStart, StartTo, thread, Life, Lived, Begun, is_terminal
<1>5. ASSUME NEW s \in Sessions, Reserve(s)
       PROVE  Life'
  BY <1>5
  DEF Reserve, StartTo, Answer, thread, Types, EspTypeOK, Life, Lived, Begun, is_terminal, Control
<1>6. ASSUME NEW s \in Sessions, JoinStale(s)
       PROVE  Life'
  BY <1>6
  DEF JoinStale, StartTo, BeginJoin, Joined, EndJoin, thread, Types, EspTypeOK, Gated, Inside,
      Life, Lived, Begun, is_terminal, StartStep
<1>7. ASSUME NEW s \in Sessions, Spawn(s)
       PROVE  Life'
  BY <1>7
  DEF Spawn, StartTo, Answer, Fault, Types, EspTypeOK, Known, Alive, Final, Settled, Life, Lived,
      Begun, Nothing, is_terminal, Control, Update, Terminal, WorkerStep, StartStep, ShutdownStep
<1>8. ASSUME NEW s \in Sessions, Activate(s)
       PROVE  Life'
  BY <1>8
  DEF Activate, StartTo, thread, Types, EspTypeOK, Gated, Beyond, Life, Lived, Begun, is_terminal
<1>9. ASSUME NEW s \in Sessions, ReleaseWorker(s)
       PROVE  Life'
  BY <1>9
  DEF ReleaseWorker, StartTo, Answer, thread, Types, EspTypeOK, Life, Lived, Begun, is_terminal
<1>10. ASSUME NEW s \in Sessions, FindActive(s)
       PROVE  Life'
  BY <1>10 DEF FindActive, StopTo, thread, Life, Lived, is_terminal
<1>11. ASSUME NEW s \in Sessions, StopMarks(s)
       PROVE  Life'
  BY <1>11
  DEF StopMarks, StopTo, cancel_and_mark_stopping, Types, EspTypeOK, Life, Lived, Begun, Nothing,
      is_terminal, Terminal
<1>12. ASSUME NEW s \in Sessions, StopJoins(s)
       PROVE  Life'
  BY <1>12
  DEF StopJoins, StopTo, BeginJoin, Joined, EndJoin, thread, Types, EspTypeOK, Life, Lived,
      is_terminal
<1>13. ASSUME NEW s \in Sessions, StopClears(s)
       PROVE  Life'
  BY <1>13 DEF StopClears, StopTo, Forget, thread, Joins, Final, Settled, Life, Lived, is_terminal
<1>14. ASSUME ShutdownEnters
       PROVE  Life'
  BY <1>14 DEF ShutdownEnters, thread, Types, Life, Lived, is_terminal
<1>15. ASSUME ShutdownMarks
       PROVE  Life'
  BY <1>15
  DEF ShutdownMarks, cancel_and_mark_stopping, Types, EspTypeOK, Life, Lived, Begun, Nothing,
      is_terminal, Terminal
<1>16. ASSUME ShutdownJoins
       PROVE  Life'
  BY <1>16 DEF ShutdownJoins, BeginJoin, Joined, EndJoin, thread, Life, Lived, is_terminal
<1>17. ASSUME ShutdownClears
       PROVE  Life'
  BY <1>17 DEF ShutdownClears, Forget, thread, Joins, Final, Settled, Life, Lived, is_terminal
<1>18. ASSUME NEW s \in Sessions, WorkerBlocks(s)
       PROVE  Life'
  BY <1>18 DEF WorkerBlocks, manager, Life, Lived, is_terminal
<1>19. ASSUME NEW s \in Sessions, WorkerBegins(s)
       PROVE  Life'
  BY <1>19 DEF WorkerBegins, Publishes, Awake, manager, Types, EspTypeOK, Life, Lived, is_terminal
<1>20. ASSUME NEW s \in Sessions, Collect(s)
       PROVE  Life'
  BY <1>20 DEF Collect, Publishes, manager, Types, EspTypeOK, Life, Lived, is_terminal
<1>21. ASSUME NEW s \in Sessions, Evidence(s)
       PROVE  Life'
  BY <1>21 DEF Evidence, Publishes, manager, Types, EspTypeOK, Life, Lived, is_terminal
<1>22. ASSUME NEW s \in Sessions, Cancelled(s)
       PROVE  Life'
  BY <1>22 DEF Cancelled, Publishes, manager, Life, Lived, is_terminal
<1>23. ASSUME NEW s \in Sessions, Expire(s)
       PROVE  Life'
  BY <1>23 DEF Expire, Publishes, manager, Types, EspTypeOK, Life, Lived, is_terminal
<1>24. ASSUME NEW s \in Sessions, Panic(s)
       PROVE  Life'
  BY <1>24 DEF Panic, Publishes, Fault, manager, Types, EspTypeOK, Life, Lived, is_terminal
<1>25. ASSUME NEW s \in Sessions, Publish(s)
       PROVE  Life'
  <2>1. /\ UNCHANGED <<control, cancelled, released, wanted, emitted>>
        /\ UNCHANGED <<start, stale, stop, shutdown, found>>
        /\ worker[s] = "publish"
    BY <1>25 DEF Publish, manager
  <2>2. CASE is_terminal(s)
    <3>1. UNCHANGED published /\ worker' \in [Sessions -> WorkerStep]
          /\ worker'[s] \in {"loop", "exited"} /\ \A t \in Sessions \ {s} : worker'[t] = worker[t]
      BY <1>25, <2>1, <2>2 DEF Publish, Returns, Types, EspTypeOK
    <3> QED BY <2>1, <3>1 DEF Life, Lived, is_terminal
  <2>3. CASE ~is_terminal(s)
    <3>1. /\ worker'[s] = "emit" /\ published'[s].sequence = published[s].sequence + 1
          /\ published'[s].state = IF s \in cancelled \/ published[s].state = "Stopping"
                                   THEN "Stopped" ELSE wanted[s]
          /\ \A t \in Sessions \ {s} : worker'[t] = worker[t] /\ published'[t] = published[t]
      BY <1>25, <2>3 DEF Publish, Types, EspTypeOK
    <3>2. wanted[s] \in Terminal \cup {"Live"} /\ s \in released \cup cancelled
      BY <2>1 DEF Final, Settled, Life, Lived
    <3>3. ASSUME NEW t \in Sessions, is_terminal(t) PROVE is_terminal(t)'
      <4>1. t # s
        BY <2>3, <3>3
      <4>2. published'[t] = published[t]
        BY <3>1, <4>1
      <4> QED BY <3>3, <4>2 DEF is_terminal
    <3>4. \A t \in Sessions \ {s} : Lived(t)'
      BY <2>1, <3>1, <3>3 DEF Life, Lived
    <3>5. Lived(s)'
      BY <2>1, <2>3, <3>1, <3>2, <3>3
      DEF Types, EspTypeOK, Life, Lived, Control, Update, State, Terminal, StopStep
    <3> QED BY <2>1, <3>4, <3>5 DEF Life
  <2> QED BY <2>2, <2>3
<1>26. ASSUME NEW s \in Sessions, Emit(s) /\ (Fault \/ UNCHANGED faults)
       PROVE  Life'
  BY <1>26 DEF Emit, Returns, Fault, manager, Types, EspTypeOK, Life, Lived, is_terminal
<1>27. CASE UNCHANGED vars
  BY <1>27 DEF vars, Life, Lived, is_terminal
<1> QED
  BY <1>1, <1>2, <1>3, <1>4, <1>5, <1>6, <1>7, <1>8, <1>9, <1>10, <1>11, <1>12, <1>13, <1>14,
      <1>15, <1>16, <1>17, <1>18, <1>19, <1>20, <1>21, <1>22, <1>23, <1>24, <1>25, <1>26, <1>27
  DEF EspNext, NativeSteps, ShutdownSteps, StartSteps, StopSteps, WorkerSteps

\* The invariant holds before anything is asked for.
LEMMA InvInit == EspInit => EspInv
<1> SUFFICES ASSUME EspInit
             PROVE  EspInv
  OBVIOUS
<1> USE NoneAssumption, BoundsAssumption DEF EspInit
<1>1. Types
  BY DEF Types, EspTypeOK, Control, Update, State, Terminal, WorkerStep, JoinState, StartStep,
         StopStep, ShutdownStep
<1>2. Gated
  BY DEF Gated, Inside, Beyond
<1>3. Joins
  BY DEF Joins
<1>4. Known
  BY DEF Known, Alive
<1>5. Final
  BY DEF Final, Settled, is_terminal, Terminal
<1>6. Life
  BY DEF Life, Lived, Nothing, Begun
<1> QED
  BY <1>1, <1>2, <1>3, <1>4, <1>5, <1>6 DEF EspInv

\* Every step keeps the invariant.
LEMMA InvKept == EspInv /\ [EspNext]_vars => EspInv'
BY TypesKept, GatedKept, JoinsKept, KnownKept, FinalKept, LifeKept DEF EspInv

\* The invariant is kept whatever is asked for and in whichever order.
LEMMA EspInvHolds == EspSpec => []EspInv
BY InvInit, InvKept, PTL DEF EspSpec

----------------------------------------------------------------------------
(* What follows from it *)

\* The variables keep their types: no worker without a join, and no other way around.
THEOREM EspTypeCorrect == EspSpec => []EspTypeOK
<1>1. EspInv => EspTypeOK
  BY DEF EspInv, Types
<1> QED
  BY <1>1, EspInvHolds, PTL

\* A start never finds its reservation lost, or the application shutting down, when it has created
\* its worker, and no start leaves a reservation behind.
THEOREM ReservationKept == EspSpec => []ReservationIsKept
<1>1. EspInv => ReservationIsKept
  BY NoneAssumption DEF EspInv, Types, EspTypeOK, Control, Gated, Inside, Beyond, ReservationIsKept
<1> QED
  BY <1>1, EspInvHolds, PTL

\* However starts, stops and expiries overlap, one worker thread runs at a time.
THEOREM SingleWorker == EspSpec => []OneWorker
<1>1. EspInv => OneWorker
  <2> SUFFICES ASSUME EspInv, NEW s \in Alive, NEW t \in Alive, s # t
               PROVE  FALSE
    BY DEF OneWorker
  <2>1. ASSUME NEW u \in Alive
        PROVE  \/ control.active = u
               \/ start[u] = "activate"
               \/ stale = u /\ \E v \in Sessions : start[v] \in {"join", "joining"}
    BY <2>1 DEF EspInv, Known
  <2>2. ASSUME NEW u \in Sessions, NEW v \in Sessions, start[u] \in Beyond, start[v] \in Beyond
        PROVE  u = v /\ control.active = None
    BY <2>2 DEF EspInv, Gated, Inside, Beyond
  <2>3. s \in Sessions /\ t \in Sessions
    BY DEF Alive
  <2> QED
    BY <2>1, <2>2, <2>3, NoneAssumption DEF Beyond
<1> QED
  BY <1>1, EspInvHolds, PTL

\* When stop has answered the worker is gone and its last update says how the session ended; once
\* shutdown has returned no worker runs.
THEOREM StopFinal == EspSpec => []StopIsFinal
<1>1. EspInv => StopIsFinal
  <2> SUFFICES ASSUME EspInv
               PROVE  StopIsFinal
    OBVIOUS
  <2>1. ASSUME NEW s \in Sessions, stop[s] = "ok"
        PROVE  worker[s] = "exited" /\ emitted[s] = published[s] /\ is_terminal(s)
    BY <2>1 DEF EspInv, Joins, Final, Settled
  <2>2. ASSUME shutdown = "done", NEW s \in Alive
        PROVE  FALSE
    <3>1. control.active = None /\ control.shutting_down
      BY <2>2 DEF EspInv, Known, Gated
    <3>2. \A t \in Sessions : start[t] \notin Beyond
      BY <3>1 DEF EspInv, Gated
    <3> QED
      BY <3>1, <3>2, NoneAssumption DEF EspInv, Known, Alive, Beyond
  <2> QED
    BY <2>1, <2>2 DEF StopIsFinal
<1> QED
  BY <1>1, EspInvHolds, PTL

----------------------------------------------------------------------------
(* EspSession implements EspService *)

\* What the page knows of a command, and of a session, under the refinement.
Calls(f) == [s \in Sessions |-> IF f[s] \in {"none", "ok", "err"} THEN f[s] ELSE "asked"]
Told == [s \in Sessions |-> IF start[s] = "activate" THEN emitted[s] ELSE published[s]]

\* A command that answers, or is asked for, does so for the page.
LEMMA CallsExcept ==
  ASSUME NEW S, NEW f \in [Sessions -> S], NEW s \in Sessions, NEW x
  PROVE  Calls([f EXCEPT ![s] = x])
           = [Calls(f) EXCEPT ![s] = IF x \in {"none", "ok", "err"} THEN x ELSE "asked"]
BY DEF Calls

\* A command under way that takes another step is still the same to the page.
LEMMA CallsSame ==
  ASSUME NEW S, NEW f \in [Sessions -> S], NEW s \in Sessions, NEW x,
         f[s] \notin {"none", "ok", "err"}, x \notin {"none", "ok", "err"}
  PROVE  Calls([f EXCEPT ![s] = x]) = Calls(f)
BY DEF Calls

\* What the page is told does not change when no update and no activation does.
LEMMA ToldSame ==
  ASSUME UNCHANGED <<published, emitted>>,
         \A t \in Sessions : start'[t] = "activate" <=> start[t] = "activate"
  PROVE  Told' = Told
BY DEF Told

\* Every step of the manager and its workers is one of the service, or none.
LEMMA StepServes ==
  ASSUME EspInv, EspInv', [EspNext]_vars
  PROVE  [Service!ServiceNext]_Service!serviceVars
<1> USE NoneAssumption
<1>0. /\ start \in [Sessions -> StartStep] /\ stop \in [Sessions -> StopStep]
  BY DEF EspInv, Types, EspTypeOK
<1>a. \A t \in Sessions : Lived(t) /\ Settled(t)
  BY DEF EspInv, Life, Final
<1>1. ASSUME NEW s \in Sessions, AskStart(s)
       PROVE  Service!AskStart(s)
  <2>1. Calls(start') = [Calls(start) EXCEPT ![s] = "asked"] /\ Calls(start)[s] = "none"
    BY <1>0, <1>1, CallsExcept DEF AskStart, StartTo, Calls
  <2>2. Told' = Told
    BY <1>0, <1>1, ToldSame DEF AskStart, StartTo, thread
  <2> QED BY <1>1, <2>1, <2>2 DEF AskStart, Service!AskStart, thread, Calls, Told
<1>2. ASSUME NEW s \in Sessions, AskStop(s)
       PROVE  Service!AskStop(s)
  <2>1. Calls(stop') = [Calls(stop) EXCEPT ![s] = "asked"] /\ Calls(stop)[s] # "asked"
    BY <1>0, <1>2, CallsExcept DEF AskStop, StopTo, Calls
  <2> QED BY <1>2, <2>1 DEF AskStop, Service!AskStop, thread, Calls
<1>3. ASSUME AskShutdown
       PROVE  UNCHANGED Service!serviceVars
  BY <1>3 DEF AskShutdown, thread, manager, Service!serviceVars
<1>4. ASSUME NEW s \in Sessions, EnterStart(s)
       PROVE  UNCHANGED Service!serviceVars
  BY <1>4 DEF EnterStart, StartTo, thread, manager, Service!serviceVars
<1>5. ASSUME NEW s \in Sessions, Reserve(s)
       PROVE  \/ Service!Refuse(s)
              \/ \E a \in Sessions : Service!Forget(a)
              \/ UNCHANGED Service!serviceVars
  <2>1. Told' = Told
    <3>1. \A t \in Sessions : start'[t] = "activate" <=> start[t] = "activate"
      BY <1>5 DEF Reserve, StartTo, Answer, EspInv, Types, EspTypeOK
    <3> QED BY <1>0, <1>5, <3>1, ToldSame DEF Reserve, thread
  <2>2. control.reservation = None /\ start[s] = "reserve"
    BY <1>5 DEF Reserve, EspInv, Types, EspTypeOK, Gated, Inside, Joins, Known, is_terminal, Control
  <2>3. /\ Calls(start)[s] = "asked" /\ Told[s] = Nothing
        /\ \A t \in Sessions : control.active = t => Told[t] = published[t]
    BY <2>2 DEF Calls, Told, EspInv, Known, Life, Lived, Begun
  <2>4. CASE start' = [start EXCEPT ![s] = "err"] /\ UNCHANGED control
    <3>1. Calls(start') = [Calls(start) EXCEPT ![s] = "err"]
      BY <1>0, <2>4, CallsExcept
    <3>2. control.shutting_down \/ (control.active # None /\ ~is_terminal(control.active))
      BY <1>5, <2>2, <2>4 DEF Reserve, StartTo, EspInv, Types, EspTypeOK
    <3>3. \/ control.shutting_down
          \/ (control.active # None /\ Told[control.active].state \notin Terminal)
      BY <2>3, <3>2 DEF EspInv, Types, EspTypeOK, is_terminal, Control
    <3> HIDE DEF is_terminal
    <3>4. UNCHANGED <<published, emitted, stop>>
      BY <1>5 DEF Reserve, thread
    <3> QED
      BY <2>1, <2>3, <2>4, <3>1, <3>3, <3>4
      DEF Service!Refuse, Service!Ended, Service!Terminal, Service!NoUpdate, Calls, Told, Nothing,
          Terminal
  <2>5. CASE start' = [start EXCEPT ![s] = "join"] /\ control.active # None
    <3>1. Calls(start') = Calls(start)
      BY <1>0, <2>2, <2>5, CallsSame
    <3>2. control.active \in Sessions /\ is_terminal(control.active)
          /\ control' = [control EXCEPT !.active = None]
      BY <1>5, <2>5 DEF Reserve, StartTo, Answer, EspInv, Types, EspTypeOK
    <3>3. UNCHANGED <<published, emitted, stop>>
      BY <1>5 DEF Reserve, thread
    <3>4. Service!Forget(control.active)
      BY <2>1, <2>3, <3>1, <3>2, <3>3
      DEF Service!Forget, Service!Ended, Service!Terminal, Calls, Told, is_terminal, Terminal
    <3> QED BY <3>2, <3>4
  <2>6. CASE start' = [start EXCEPT ![s] = "spawn"] /\ control' = [control EXCEPT !.reservation = s]
    <3>1. Calls(start') = Calls(start)
      BY <1>0, <2>2, <2>6, CallsSame
    <3>2. UNCHANGED <<published, emitted, stop, control.active, control.shutting_down>>
      BY <1>5, <2>6 DEF Reserve, thread
    <3> QED BY <2>1, <3>1, <3>2 DEF Service!serviceVars, Calls, Told
  <2> QED BY <1>5, <2>4, <2>5, <2>6 DEF Reserve, StartTo, Answer
<1>6. ASSUME NEW s \in Sessions, JoinStale(s)
       PROVE  UNCHANGED Service!serviceVars
  BY <1>6
  DEF JoinStale, StartTo, BeginJoin, Joined, EndJoin, thread, manager, Service!serviceVars, EspInv,
      Types, EspTypeOK
<1>7. ASSUME NEW s \in Sessions, Spawn(s)
       PROVE  Service!StartFails(s) \/ UNCHANGED Service!serviceVars
  <2>1. start[s] = "spawn" /\ worker[s] = "none" /\ published[s] = Nothing /\ emitted[s] = Nothing
    BY <1>7 DEF Spawn, EspInv, Known, Life, Lived
  <2>2. UNCHANGED <<emitted, stop, control.active, control.shutting_down>>
    BY <1>7 DEF Spawn, EspInv, Types, EspTypeOK, Control
  <2>3. CASE start' = [start EXCEPT ![s] = "activate"]
             /\ published' = [published EXCEPT ![s].state = "Starting"]
    <3>1. Calls(start') = Calls(start)
      BY <1>0, <2>1, <2>3, CallsSame
    <3>2. Told' = Told
      BY <2>1, <2>2, <2>3 DEF Told, EspInv, Known, Life, Lived
    <3> QED BY <2>2, <3>1, <3>2 DEF Service!serviceVars, Calls, Told
  <2>4. CASE start' = [start EXCEPT ![s] = "err"] /\ UNCHANGED published
    <3>1. Calls(start') = [Calls(start) EXCEPT ![s] = "err"] /\ Calls(start)[s] = "asked"
      BY <1>0, <2>1, <2>4, CallsExcept DEF Calls
    <3>2. Told' = Told /\ Told[s] = Nothing
      BY <2>1, <2>2, <2>4 DEF Told
    <3> QED BY <2>2, <3>1, <3>2 DEF Service!StartFails, Service!NoUpdate, Calls, Told, Nothing
  <2> QED BY <1>7, <2>3, <2>4 DEF Spawn, StartTo, Answer
<1>8. ASSUME NEW s \in Sessions, Activate(s)
       PROVE  Service!Begin(s)
  <2>1. /\ start[s] = "activate" /\ start' = [start EXCEPT ![s] = "release"]
        /\ control' = [control EXCEPT !.reservation = None, !.active = s]
        /\ control.active = None /\ ~control.shutting_down
        /\ UNCHANGED <<published, emitted, stop>>
    BY <1>8 DEF Activate, StartTo, thread, EspInv, Gated, Beyond
  <2>2. Calls(start') = Calls(start) /\ Calls(start)[s] = "asked"
    BY <1>0, <2>1, CallsSame DEF Calls
  <2>3. Told[s] = Nothing /\ Told' = [Told EXCEPT ![s].state = "Starting"]
    <3>1. published[s] = [Nothing EXCEPT !.state = "Starting"] /\ emitted[s] = Nothing
      BY <2>1 DEF EspInv, Life, Lived, Nothing
    <3>2. Told' = [Told EXCEPT ![s] = published[s]]
      BY <1>0, <1>0, <2>1, CallsSame DEF Told
    <3>3. Told[s] = Nothing
      BY <2>1, <3>1 DEF Told
    <3> QED BY <3>1, <3>2, <3>3
  <2>4. ASSUME NEW t \in Sessions, Told[t] # Nothing
        PROVE  Told[t].state \in Terminal /\ emitted[t].sequence = Told[t].sequence
    <3>1. t # s /\ start[t] # "activate" /\ Told[t] = published[t] /\ worker[t] # "none"
      BY <2>1, <2>3, <2>4 DEF Told, EspInv, Life, Lived
    <3>2. worker[t] = "exited"
      BY <2>1, <3>1 DEF EspInv, Gated, Beyond, Known, Alive
    <3> QED BY <3>1, <3>2 DEF EspInv, Final, Settled, is_terminal
  <2>5. control'.active = s /\ control'.shutting_down = control.shutting_down
    BY <2>1
  <2> QED
    BY <2>1, <2>2, <2>3, <2>4, <2>5
    DEF Service!Begin, Service!Ended, Service!Handed, Service!Terminal, Service!NoUpdate, Calls,
        Told, Nothing, Terminal
<1>9. ASSUME NEW s \in Sessions, ReleaseWorker(s)
       PROVE  Service!Accept(s)
  <2>1. Calls(start') = [Calls(start) EXCEPT ![s] = "ok"] /\ Calls(start)[s] = "asked"
    BY <1>0, <1>9, CallsExcept DEF ReleaseWorker, StartTo, Answer, Calls
  <2>2. Told' = Told
    BY <1>0, <1>9, ToldSame DEF ReleaseWorker, StartTo, Answer, thread
  <2>3. control.active = s \/ Told[s].state \in Terminal
    BY <1>9 DEF ReleaseWorker, Told, EspInv, Life, Lived, is_terminal
  <2> QED
    BY <1>9, <2>1, <2>2, <2>3
    DEF ReleaseWorker, Service!Accept, Service!Ended, Service!Terminal, thread, Calls, Told,
        Terminal
<1>10. ASSUME NEW s \in Sessions, FindActive(s)
       PROVE  Service!NotFound(s) \/ UNCHANGED Service!serviceVars
  <2>1. stop[s] = "find" /\ UNCHANGED <<control, published, emitted, start>>
    BY <1>10 DEF FindActive, thread
  <2>2. CASE control.active = s
    <3>1. Calls(stop') = Calls(stop)
      BY <1>0, <1>10, <2>1, <2>2, CallsSame DEF FindActive, StopTo
    <3> QED BY <2>1, <3>1 DEF Service!serviceVars, Calls
  <2>3. CASE control.active # s
    <3>1. Calls(stop') = [Calls(stop) EXCEPT ![s] = "err"] /\ Calls(stop)[s] = "asked"
      BY <1>0, <1>10, <2>1, <2>3, CallsExcept DEF FindActive, StopTo, Calls
    <3> QED BY <2>1, <2>3, <3>1 DEF Service!NotFound, Calls
  <2> QED BY <2>2, <2>3
<1>11. ASSUME NEW s \in Sessions, StopMarks(s)
       PROVE  Service!Mark(s) \/ UNCHANGED Service!serviceVars
  <2>1. /\ stop[s] = "mark" /\ stop' = [stop EXCEPT ![s] = "join"] /\ worker[s] # "emit"
        /\ UNCHANGED <<control, emitted, start>>
        /\ published' = [published EXCEPT ![s].state =
                           IF @ \in {"Starting", "Live"} THEN "Stopping" ELSE @]
    BY <1>11 DEF StopMarks, StopTo, cancel_and_mark_stopping
  <2>2. Calls(stop') = Calls(stop) /\ Calls(stop)[s] = "asked"
    BY <1>0, <2>1, CallsSame DEF Calls
  <2>3. /\ start[s] # "activate" /\ Told[s] = published[s]
        /\ emitted[s].sequence = published[s].sequence
    BY <2>1 DEF Told, EspInv, Life, Lived, Begun
  <2>4. CASE published[s].state \in {"Starting", "Live"}
    <3>1. worker[s] \notin {"none", "exited"}
      BY <1>a, <2>4 DEF Lived, Settled, Nothing, is_terminal, Terminal
    <3>2. ~(stale = s /\ \E t \in Sessions : start[t] \in {"join", "joining"})
      BY <2>4 DEF EspInv, Life, Lived, is_terminal, Terminal
    <3>3. control.active = s
      BY <2>3, <3>1, <3>2 DEF EspInv, Known, Alive
    <3>4. Told' = [Told EXCEPT ![s].state = "Stopping"]
      BY <2>1, <2>3, <2>4 DEF Told, EspInv, Types, EspTypeOK, Life, Lived, Begun
    <3> QED BY <2>1, <2>2, <2>3, <2>4, <3>3, <3>4 DEF Service!Mark, Service!Handed, Calls, Told
  <2>5. CASE published[s].state \notin {"Starting", "Live"}
    <3>1. UNCHANGED published
      BY <2>1, <2>5 DEF EspInv, Types, EspTypeOK, Update
    <3> QED BY <2>1, <2>2, <3>1 DEF Service!serviceVars, Calls
  <2> QED BY <2>4, <2>5
<1>12. ASSUME NEW s \in Sessions, StopJoins(s)
       PROVE  UNCHANGED Service!serviceVars
  BY <1>12
  DEF StopJoins, StopTo, BeginJoin, Joined, EndJoin, thread, manager, Service!serviceVars, EspInv,
      Types, EspTypeOK
<1>13. ASSUME NEW s \in Sessions, StopClears(s)
       PROVE  Service!Stopped(s)
  <2>1. /\ stop[s] = "clear" /\ stop' = [stop EXCEPT ![s] = "ok"]
        /\ UNCHANGED <<published, emitted, start>>
        /\ control' = [control EXCEPT !.active = IF @ = s THEN None ELSE @]
    BY <1>13 DEF StopClears, StopTo, Forget, thread
  <2>2. Calls(stop') = [Calls(stop) EXCEPT ![s] = "ok"] /\ Calls(stop)[s] = "asked"
    BY <1>0, <2>1, CallsExcept DEF Calls
  <2>3. Told[s].state \in Terminal /\ emitted[s].sequence = Told[s].sequence
    BY <2>1 DEF Told, EspInv, Joins, Final, Settled, is_terminal
  <2>4. control'.active = (IF control.active = s THEN None ELSE control.active)
        /\ control'.shutting_down = control.shutting_down
    BY <2>1
  <2> QED
    BY <2>1, <2>2, <2>3, <2>4
    DEF Service!Stopped, Service!Ended, Service!Handed, Service!Terminal, Calls, Told, Terminal
<1>14. ASSUME ShutdownEnters
       PROVE  Service!Close
  BY <1>14 DEF ShutdownEnters, thread, manager, Service!serviceVars, Service!Close
<1>15. ASSUME ShutdownMarks
       PROVE  (\E s \in Sessions : Service!Mark(s)) \/ UNCHANGED Service!serviceVars
  <2>0. PICK s \in Sessions : s = found
    BY <1>15 DEF ShutdownMarks, EspInv, Types
  <2>1. /\ shutdown = "mark" /\ worker[s] # "emit" /\ control.shutting_down
        /\ UNCHANGED <<control, emitted, start, stop>>
        /\ published' = [published EXCEPT ![s].state =
                           IF @ \in {"Starting", "Live"} THEN "Stopping" ELSE @]
    BY <1>15, <2>0 DEF ShutdownMarks, cancel_and_mark_stopping, EspInv, Gated
  <2>2. /\ start[s] # "activate" /\ Told[s] = published[s]
        /\ emitted[s].sequence = published[s].sequence
    BY <2>0, <2>1 DEF Told, EspInv, Life, Lived, Begun
  <2>3. CASE published[s].state \in {"Starting", "Live"}
    <3>1. worker[s] \notin {"none", "exited"}
      BY <1>a, <2>3 DEF Lived, Settled, Nothing, is_terminal, Terminal
    <3>2. control.active = s
      BY <2>0, <2>1, <2>2, <3>1 DEF EspInv, Gated, Beyond, Known, Alive
    <3>3. Told' = [Told EXCEPT ![s].state = "Stopping"]
      BY <2>1, <2>2, <2>3 DEF Told, EspInv, Types, EspTypeOK, Gated, Beyond
    <3>4. Service!Mark(s)
      BY <2>1, <2>2, <2>3, <3>2, <3>3 DEF Service!Mark, Service!Handed, Told
    <3> QED
      BY <2>0, <3>4
  <2>4. CASE published[s].state \notin {"Starting", "Live"}
    <3>1. UNCHANGED published
      BY <2>1, <2>4 DEF EspInv, Types, EspTypeOK, Update
    <3>2. UNCHANGED Service!serviceVars
      BY <2>1, <3>1 DEF Service!serviceVars
    <3> QED
      BY <3>2
  <2> QED
    BY <2>3, <2>4
<1>16. ASSUME ShutdownJoins
       PROVE  UNCHANGED Service!serviceVars
  BY <1>16 DEF ShutdownJoins, BeginJoin, Joined, EndJoin, thread, manager, Service!serviceVars
<1>17. ASSUME ShutdownClears
       PROVE  (\E s \in Sessions : Service!Forget(s)) \/ UNCHANGED Service!serviceVars
  <2>0. PICK s \in Sessions : s = found
    BY <1>17 DEF ShutdownClears, EspInv, Types
  <2>1. control' = [control EXCEPT !.active = IF @ = s THEN None ELSE @] /\ control.shutting_down
        /\ shutdown = "clear" /\ UNCHANGED <<published, emitted, start, stop>>
    BY <1>17, <2>0 DEF ShutdownClears, Forget, thread, EspInv, Gated
  <2>2. CASE control.active = s
    <3>1. is_terminal(s) /\ Told[s] = published[s]
      BY <2>0, <2>1 DEF Told, EspInv, Joins, Final, Settled
    <3>2. Told' = Told
      BY <1>0, <2>1, ToldSame
    <3>0. control'.active = None /\ control'.shutting_down = control.shutting_down
      BY <2>1, <2>2 DEF EspInv, Types, EspTypeOK, Control
    <3>3. Told[s].state \in Terminal /\ Calls(start') = Calls(start) /\ Calls(stop') = Calls(stop)
      BY <2>1, <3>1 DEF is_terminal, Calls
    <3>4. Service!Forget(s)
      BY <2>1, <2>2, <3>0, <3>2, <3>3
      DEF Service!Forget, Service!Ended, Service!Terminal, Told, Calls, Terminal
    <3> QED
      BY <3>4
  <2>3. CASE control.active # s
    <3>1. UNCHANGED control
      BY <2>1, <2>3 DEF EspInv, Types, EspTypeOK, Control
    <3>2. UNCHANGED Service!serviceVars
      BY <2>1, <3>1 DEF Service!serviceVars
    <3> QED
      BY <3>2
  <2> QED
    BY <2>2, <2>3
<1>18. ASSUME NEW s \in Sessions, WorkerBlocks(s)
       PROVE  UNCHANGED Service!serviceVars
  BY <1>18 DEF WorkerBlocks, thread, manager, Service!serviceVars
<1>19. ASSUME NEW s \in Sessions, WorkerBegins(s)
       PROVE  UNCHANGED Service!serviceVars
  BY <1>19 DEF WorkerBegins, Publishes, Awake, thread, manager, Service!serviceVars
<1>20. ASSUME NEW s \in Sessions, Collect(s)
       PROVE  UNCHANGED Service!serviceVars
  BY <1>20 DEF Collect, Publishes, thread, manager, Service!serviceVars
<1>21. ASSUME NEW s \in Sessions, Evidence(s)
       PROVE  UNCHANGED Service!serviceVars
  BY <1>21 DEF Evidence, Publishes, thread, manager, Service!serviceVars
<1>22. ASSUME NEW s \in Sessions, Cancelled(s)
       PROVE  UNCHANGED Service!serviceVars
  BY <1>22 DEF Cancelled, Publishes, thread, manager, Service!serviceVars
<1>23. ASSUME NEW s \in Sessions, Expire(s)
       PROVE  UNCHANGED Service!serviceVars
  BY <1>23 DEF Expire, Publishes, thread, manager, Service!serviceVars
<1>24. ASSUME NEW s \in Sessions, Panic(s)
       PROVE  UNCHANGED Service!serviceVars
  BY <1>24 DEF Panic, Publishes, Fault, thread, manager, Service!serviceVars
<1>25. ASSUME NEW s \in Sessions, Publish(s)
       PROVE  \/ (\E state \in Terminal \cup {"Live"} : Service!Publish(s, state))
              \/ UNCHANGED Service!serviceVars
  <2>1. /\ worker[s] = "publish" /\ wanted[s] \in Terminal \cup {"Live"}
        /\ UNCHANGED <<control, emitted, start, stop>>
    BY <1>25 DEF Publish, manager, EspInv, Final, Settled
  <2>2. CASE is_terminal(s)
    BY <1>25, <2>1, <2>2 DEF Publish, Service!serviceVars
  <2>3. CASE ~is_terminal(s)
    <3>1. PICK kind \in Terminal \cup {"Live"} :
            kind = IF s \in cancelled \/ published[s].state = "Stopping" THEN "Stopped"
                   ELSE wanted[s]
      BY <2>1 DEF Terminal
    <3>2. published' = [published EXCEPT ![s] = [sequence |-> @.sequence + 1, state |-> kind]]
      BY <1>25, <2>3, <3>1 DEF Publish
    <3>3. published[s].state \in {"Starting", "Live", "Stopping"}
      BY <2>1, <2>3 DEF EspInv, Types, EspTypeOK, Life, Lived, is_terminal, Update, State
    <3>4. /\ start[s] # "activate" /\ Told[s] = published[s]
          /\ emitted[s].sequence = published[s].sequence
      BY <2>1 DEF Told, EspInv, Life, Lived
    <3>5. control.active = s
      <4>1. s \in Alive
        BY <2>1 DEF Alive
      <4>2. ~(stale = s /\ \E t \in Sessions : start[t] \in {"join", "joining"})
        BY <2>3 DEF EspInv, Life, Lived
      <4> QED
        BY <3>4, <4>1, <4>2 DEF EspInv, Known
    <3>6. /\ kind = "Stopped" <=> published[s].state = "Stopping"
          /\ kind = "Stopped" \/ start[s] = "ok"
      BY <2>1, <3>1, <3>3 DEF EspInv, Life, Lived
    <3>7. Calls(start)[s] = "ok" <=> start[s] = "ok"
      BY DEF Calls
    <3>8. Told' = [Told EXCEPT ![s] = [sequence |-> @.sequence + 1, state |-> kind]]
      BY <2>1, <3>2, <3>4 DEF Told, EspInv, Types, EspTypeOK
    <3>9. Service!Publish(s, kind)
      BY <2>1, <3>3, <3>4, <3>5, <3>6, <3>7, <3>8 DEF Service!Publish, Service!Handed, Calls, Told
    <3>10. kind \in Terminal \cup {"Live"}
      BY <3>1
    <3> QED
      BY <3>9, <3>10
  <2> QED BY <2>2, <2>3
<1>26. ASSUME NEW s \in Sessions, Emit(s) /\ (Fault \/ UNCHANGED faults)
       PROVE  Service!Hand(s)
  <2>1. /\ worker[s] = "emit" /\ emitted' = [emitted EXCEPT ![s] = published[s]]
        /\ UNCHANGED <<control, published, start, stop>>
    BY <1>26 DEF Emit, manager
  <2>2. /\ start[s] # "activate" /\ Told[s] = published[s]
        /\ emitted[s].sequence # published[s].sequence
    BY <2>1 DEF Told, EspInv, Life, Lived
  <2>3. Told' = Told
    BY <2>1, <2>2 DEF Told
  <2> QED BY <2>1, <2>2, <2>3 DEF Service!Hand, Service!Handed, Told
<1>27. CASE UNCHANGED vars
  BY <1>27 DEF vars, Service!serviceVars
<1> QED
  <2> USE DEF Service!ServiceNext, Service!Serve
  <2>1. ASSUME ShutdownSteps
        PROVE  Service!ServiceNext \/ UNCHANGED Service!serviceVars
    BY <2>1, <1>14, <1>15, <1>16, <1>17 DEF ShutdownSteps
  <2>2. ASSUME NEW s \in Sessions, StartSteps(s)
        PROVE  Service!ServiceNext \/ UNCHANGED Service!serviceVars
    BY <2>2, <1>4, <1>5, <1>6, <1>7, <1>8, <1>9 DEF StartSteps
  <2>3. ASSUME NEW s \in Sessions, StopSteps(s)
        PROVE  Service!ServiceNext \/ UNCHANGED Service!serviceVars
    BY <2>3, <1>10, <1>11, <1>12, <1>13 DEF StopSteps
  <2>4. ASSUME NEW s \in Sessions, WorkerSteps(s)
        PROVE  Service!ServiceNext \/ UNCHANGED Service!serviceVars
    BY <2>4, <1>18, <1>19, <1>20, <1>21, <1>22, <1>23, <1>24, <1>25
    DEF WorkerSteps, Terminal, Service!Terminal
  <2>5. ASSUME NEW s \in Sessions,
                    AskStart(s) \/ AskStop(s) \/ (Emit(s) /\ (Fault \/ UNCHANGED faults))
        PROVE  Service!ServiceNext
    BY <2>5, <1>1, <1>2, <1>26
  <2> QED BY <2>1, <2>2, <2>3, <2>4, <2>5, <1>3, <1>27 DEF EspNext, NativeSteps

\* The session manager implements the service the page is promised: its updates are numbered and
\* handed over one by one, and a stop is answered after the last.
THEOREM SessionServes == EspSpec => ServiceSpec
<1>1. EspInit => Service!ServiceInit
  BY DEF EspInit, Service!ServiceInit, Service!NoUpdate
<1>2. EspInv /\ EspInv' /\ [EspNext]_vars => [Service!ServiceNext]_Service!serviceVars
  BY StepServes
<1> QED
  BY <1>1, <1>2, EspInvHolds, PTL DEF EspSpec, ServiceSpec, Service!ServiceSpec
=============================================================================
