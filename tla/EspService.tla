----------------------------- MODULE EspService -----------------------------
(***************************************************************************)
(* What the ESP session manager promises the page: at most one session is  *)
(* active; a session's updates are numbered, handed over one by one, and   *)
(* end with one that says how it ended; the answer of stop comes after     *)
(* that last update.  EspSession implements it; EspWatch uses it.          *)
(***************************************************************************)
EXTENDS Naturals

CONSTANTS Sessions,   \* the sessions asked for
          None        \* no session

VARIABLES
  active,     \* the session get and stop can find
  published,  \* each session's state and the number of its last update
  emitted,    \* the last update each session handed over
  start,      \* the start command of each session
  stop,       \* the stop command of each session
  closed      \* the application is shutting down

serviceVars == <<active, published, emitted, start, stop, closed>>

Terminal == {"Stopped", "Expired", "Failed"}
State == Terminal \cup {"none", "Starting", "Live", "Stopping"}
Update == [sequence : Nat, state : State]
Call == {"none", "asked", "ok", "err"}
NoUpdate == [sequence |-> 0, state |-> "none"]

Ended(s) == published[s].state \in Terminal
Handed(s) == emitted[s].sequence = published[s].sequence

ServiceInit ==
  /\ active = None
  /\ published = [s \in Sessions |-> NoUpdate]
  /\ emitted = published
  /\ start = [s \in Sessions |-> "none"]
  /\ stop = [s \in Sessions |-> "none"]
  /\ closed = FALSE

AskStart(s) ==
  /\ start[s] = "none"
  /\ start' = [start EXCEPT ![s] = "asked"]
  /\ UNCHANGED <<active, published, emitted, stop, closed>>

AskStop(s) ==
  /\ stop[s] # "asked"
  /\ stop' = [stop EXCEPT ![s] = "asked"]
  /\ UNCHANGED <<active, published, emitted, start, closed>>

\* A start is refused while another session goes on, or the application shuts down.
Refuse(s) ==
  /\ start[s] = "asked"
  /\ published[s] = NoUpdate
  /\ closed \/ (active # None /\ ~Ended(active))
  /\ start' = [start EXCEPT ![s] = "err"]
  /\ UNCHANGED <<active, published, emitted, stop, closed>>

\* A start fails: no thread can be created.
StartFails(s) ==
  /\ start[s] = "asked"
  /\ published[s] = NoUpdate
  /\ start' = [start EXCEPT ![s] = "err"]
  /\ UNCHANGED <<active, published, emitted, stop, closed>>

\* A session that has ended is forgotten when another start, or the shutdown, comes upon it.
Forget(s) ==
  /\ active = s
  /\ Ended(s)
  /\ closed \/ \E t \in Sessions : start[t] = "asked"
  /\ active' = None
  /\ UNCHANGED <<published, emitted, start, stop, closed>>

\* A session begins once every other one has ended and handed over its last update.  From then on
\* it is the one to be found, and its start may be answered.
Begin(s) ==
  /\ start[s] = "asked"
  /\ active = None /\ ~closed
  /\ published[s] = NoUpdate
  /\ \A t \in Sessions : published[t] # NoUpdate => Ended(t) /\ Handed(t)
  /\ active' = s
  /\ published' = [published EXCEPT ![s].state = "Starting"]
  /\ UNCHANGED <<emitted, start, stop, closed>>

Accept(s) ==
  /\ start[s] = "asked"
  /\ active = s \/ Ended(s)
  /\ start' = [start EXCEPT ![s] = "ok"]
  /\ UNCHANGED <<active, published, emitted, stop, closed>>

\* A session is told to stop, by a stop or by the shutdown.
Mark(s) ==
  /\ active = s
  /\ stop[s] = "asked" \/ closed
  /\ Handed(s)
  /\ published[s].state \in {"Starting", "Live"}
  /\ published' = [published EXCEPT ![s].state = "Stopping"]
  /\ UNCHANGED <<active, emitted, start, stop, closed>>

\* A session publishes its next update: once told to stop, the one that says it has stopped, and
\* any other only after its start was answered.
Publish(s, state) ==
  /\ active = s
  /\ state = "Stopped" \/ start[s] = "ok"
  /\ published[s].state \in {"Starting", "Live", "Stopping"}
  /\ Handed(s)
  /\ state = "Stopped" <=> published[s].state = "Stopping"
  /\ published' = [published EXCEPT ![s] = [sequence |-> @.sequence + 1, state |-> state]]
  /\ UNCHANGED <<active, emitted, start, stop, closed>>

\* It hands the update over.
Hand(s) ==
  /\ ~Handed(s)
  /\ emitted' = [emitted EXCEPT ![s] = published[s]]
  /\ UNCHANGED <<active, published, start, stop, closed>>

\* stop does not find the session, or answers when it is over.
NotFound(s) ==
  /\ stop[s] = "asked"
  /\ active # s
  /\ stop' = [stop EXCEPT ![s] = "err"]
  /\ UNCHANGED <<active, published, emitted, start, closed>>

Stopped(s) ==
  /\ stop[s] = "asked"
  /\ Ended(s) /\ Handed(s)
  /\ stop' = [stop EXCEPT ![s] = "ok"]
  /\ active' = IF active = s THEN None ELSE active
  /\ UNCHANGED <<published, emitted, start, closed>>

Close ==
  /\ closed' = TRUE
  /\ UNCHANGED <<active, published, emitted, start, stop>>

\* What the service does of itself while it is open.
Serve(s) ==
  \/ Refuse(s) \/ StartFails(s) \/ Forget(s) \/ Begin(s) \/ Accept(s)
  \/ Mark(s) \/ Hand(s) \/ NotFound(s) \/ Stopped(s)
  \/ \E state \in Terminal \cup {"Live"} : Publish(s, state)

\* The part of it that waits neither for evidence nor for time, nor fails.
Progress(s) ==
  \/ Refuse(s) \/ Forget(s) \/ Begin(s) \/ Accept(s)
  \/ Mark(s) \/ Hand(s) \/ NotFound(s) \/ Stopped(s) \/ Publish(s, "Stopped")
  \/ published[s].state = "Starting" /\ Publish(s, "Live")

ServiceNext == Close \/ \E s \in Sessions : AskStart(s) \/ AskStop(s) \/ Serve(s)

ServiceSpec == ServiceInit /\ [][ServiceNext]_serviceVars
=============================================================================
