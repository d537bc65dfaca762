------------------------------ MODULE EspWatch ------------------------------
(***************************************************************************)
(* The ESP diagnostics page (EspDiagnosticsWorkspace.tsx,                  *)
(* esp-diagnostics-store.ts, index.ts) on top of what the session manager  *)
(* promises it (EspService, which EspSession implements):                  *)
(* starting and stopping a live session, the updates it listens to, the    *)
(* poll that finds a session the listener missed, and the captures and     *)
(* evidence imported over it.                                              *)
(*                                                                         *)
(* Updates arrive in the order they were handed over; answers of commands  *)
(* arrive whenever they like.                                              *)
(***************************************************************************)
EXTENDS EspService, Sequences

CONSTANTS MaxUpdate,  \* updates with new evidence a session publishes
          MaxMishap   \* failed deliveries, file dialogs and failed exports

ASSUME WatchAssumption ==
  /\ MaxUpdate \in Nat /\ MaxMishap \in Nat
  /\ None \notin Sessions /\ "analysis" \notin Sessions

VARIABLES
  store,     \* the store: phase, requestId, sessionId, sequence, and whether it has a snapshot
  events,    \* the updates on their way to the page
  answered,  \* the starts whose answer the page has had
  stopping,  \* stopLive of each session: not under way, or whether it knows the request
  poll,      \* recoverStartingSession of each session
  answer,    \* the envelope the poll was given
  picking,   \* a file to import was asked for
  analyzing, \* an analysis is under way
  mishaps,   \* failed deliveries, dialogs and failed exports left
  disowned   \* history: the sessions of the page when a file was loaded or refused over them

page == <<store, events, answered, stopping, poll, answer, picking, analyzing, mishaps, disowned>>
watchVars == <<serviceVars, page>>

----------------------------------------------------------------------------
(* Types *)

Phase == {"idle", "analyzing", "starting", "live", "stopping", "ready", "error"}
Store == [phase : Phase, request : Sessions \cup {None, "analysis"}, session : Sessions \cup {None},
          sequence : Nat, shown : BOOLEAN]

WatchTypeOK ==
  /\ active \in Sessions \cup {None} /\ ~closed
  /\ published \in [Sessions -> Update] /\ emitted \in [Sessions -> Update]
  /\ start \in [Sessions -> Call] /\ stop \in [Sessions -> Call]
  /\ store \in Store
  /\ store.phase \in {"live", "stopping"} => store.session # None
  /\ events \in Seq(Sessions \X Update)
  /\ answered \subseteq Sessions /\ disowned \subseteq Sessions
  /\ stopping \in [Sessions -> {"off", "known", "unknown"}]
  /\ poll \in [Sessions -> {"off", "ask", "got"}]
  /\ answer \in [Sessions -> Update]
  /\ {picking, analyzing} \subseteq BOOLEAN
  /\ mishaps \in 0..MaxMishap

WatchInit ==
  /\ ServiceInit
  /\ store = [phase |-> "idle", request |-> None, session |-> None, sequence |-> 0,
              shown |-> FALSE]
  /\ events = <<>>
  /\ answered = {} /\ disowned = {}
  /\ stopping = [s \in Sessions |-> "off"]
  /\ poll = [s \in Sessions |-> "off"] /\ answer = [s \in Sessions |-> NoUpdate]
  /\ picking = FALSE /\ analyzing = FALSE
  /\ mishaps = MaxMishap

----------------------------------------------------------------------------
(* The store *)

\* Mutant: a session that has expired is shown as live.
PhaseOf_live == [none |-> "error", Starting |-> "starting", Live |-> "live", Stopping |-> "stopping",
                 Stopped |-> "ready", Expired |-> "live", Failed |-> "error"]

PhaseOf == [none |-> "error", Starting |-> "starting", Live |-> "live", Stopping |-> "stopping",
            Stopped |-> "ready", Expired |-> "ready", Failed |-> "error"]

\* Mutant: the first update, too, must have a higher number.
Accepts_higher(s, update) ==
  /\ store.request = s
  /\ store.session = s \/ (store.session = None /\ store.phase = "starting")
  /\ update.sequence > store.sequence

\* Mutant: the number is not looked at.
Accepts_any(s, update) ==
  store.request = s /\ (store.session = s \/ (store.session = None /\ store.phase = "starting"))

\* applySessionUpdate takes the first update of the request that is starting, and afterwards the
\* updates of its session with a higher number.
Accepts(s, update) ==
  LET initial == store.phase = "starting" /\ store.session = None /\ store.request = s
  IN \/ initial /\ update.sequence >= store.sequence
     \/ store.session = s /\ store.request = s /\ update.sequence > store.sequence

Applied(s, update) ==
  [phase |-> IF store.phase = "stopping" /\ update.state = "Live" THEN "stopping"
             ELSE PhaseOf[update.state],
   request |-> s,
   session |-> IF update.state \in Terminal THEN None ELSE s,
   sequence |-> update.sequence,
   shown |-> TRUE]

applySessionUpdate(s, update) ==
  store' = IF Accepts(s, update) THEN Applied(s, update) ELSE store

\* fail forgets the request, and nothing else.
fail(r) ==
  store' = IF store.request = r THEN [store EXCEPT !.phase = "error", !.request = None] ELSE store

\* Mutant: one can start again while starting.
Busy_again == store.phase \in {"analyzing", "stopping"}

Busy == store.phase \in {"analyzing", "starting", "stopping"}

----------------------------------------------------------------------------
(* Starting and stopping *)

\* startLive: the button is there when no session is known and nothing is under way.  It makes up a
\* new request; which of those left it takes is of no matter.
StartLive(s) ==
  /\ store.session = None /\ ~Busy
  /\ AskStart(s)
  /\ s = CHOOSE t \in Sessions : start[t] = "none"
  /\ store' = [phase |-> "starting", request |-> s, session |-> None, sequence |-> 0,
               shown |-> FALSE]
  /\ UNCHANGED <<events, answered, stopping, poll, answer, picking, analyzing, mishaps, disowned>>

\* The answer of start: the Starting envelope, after which the poll begins, or an error.
StartAnswered(s) ==
  /\ start[s] \in {"ok", "err"}
  /\ s \notin answered
  /\ answered' = answered \cup {s}
  /\ \/ /\ start[s] = "ok"
        /\ applySessionUpdate(s, [sequence |-> 0, state |-> "Starting"])
        /\ poll' = [poll EXCEPT ![s] = "ask"]
     \/ start[s] = "err" /\ fail(s) /\ UNCHANGED poll
  /\ UNCHANGED <<serviceVars, events, stopping, answer, picking, analyzing, mishaps, disowned>>

Owns(s) == store.phase = "starting" /\ store.request = s /\ store.session = s

\* recoverStartingSession asks the manager, whose get finds the session only while it is active.
PollAsks(s) ==
  /\ poll[s] = "ask"
  /\ \/ ~Owns(s) /\ poll' = [poll EXCEPT ![s] = "off"] /\ UNCHANGED answer
     \/ /\ Owns(s)
        /\ poll' = [poll EXCEPT ![s] = "got"]
        /\ answer' = [answer EXCEPT ![s] = IF active = s THEN published[s] ELSE NoUpdate]
  /\ UNCHANGED <<serviceVars, store, events, answered, stopping, picking, analyzing, mishaps, disowned>>

\* Mutant: the poll asks once.
PollAnswered_once(s) ==
  /\ poll[s] = "got"
  /\ IF answer[s] # NoUpdate /\ store.request = s /\ store.session = s
       THEN applySessionUpdate(s, answer[s]) ELSE UNCHANGED store
  /\ poll' = [poll EXCEPT ![s] = "off"]
  /\ answer' = [answer EXCEPT ![s] = NoUpdate]
  /\ UNCHANGED <<serviceVars, events, answered, stopping, picking, analyzing, mishaps, disowned>>

\* Its answer is applied if the page still has the session; a session that is still starting, or an
\* error, is asked for again.
PollAnswered(s) ==
  /\ poll[s] = "got"
  /\ IF answer[s] # NoUpdate /\ store.request = s /\ store.session = s
       THEN applySessionUpdate(s, answer[s]) ELSE UNCHANGED store
  /\ poll' = [poll EXCEPT ![s] = IF answer[s].state \in {"none", "Starting"} THEN "ask" ELSE "off"]
  /\ answer' = [answer EXCEPT ![s] = NoUpdate]
  /\ UNCHANGED <<serviceVars, events, answered, stopping, picking, analyzing, mishaps, disowned>>

\* stopLive: the button is there while a session is known.
StopLive(s) ==
  /\ store.session = s
  /\ store.phase # "stopping"
  /\ stopping[s] = "off"
  /\ AskStop(s)
  /\ stopping' = [stopping EXCEPT ![s] = IF store.request = s THEN "known" ELSE "unknown"]
  /\ store' = [store EXCEPT !.phase = "stopping"]
  /\ UNCHANGED <<events, answered, poll, answer, picking, analyzing, mishaps, disowned>>

\* clearStoppedSession, or fail if stopLive knew the request.
StopAnswered(s) ==
  /\ stopping[s] # "off"
  /\ \/ /\ stop[s] = "ok"
        /\ store' = IF store.session # s THEN store
                    ELSE [store EXCEPT !.phase = IF store.shown THEN "ready" ELSE "idle",
                                       !.request = None, !.session = None, !.sequence = 0]
     \/ /\ stop[s] = "err"
        /\ IF stopping[s] = "known" THEN fail(s) ELSE UNCHANGED store
  /\ stopping' = [stopping EXCEPT ![s] = "off"]
  /\ UNCHANGED <<serviceVars, events, answered, poll, answer, picking, analyzing, mishaps, disowned>>

\* An update is handed to the event sink, which fails now and then; that is only logged.
Deliver(s) ==
  /\ Hand(s)
  /\ \/ events' = Append(events, <<s, published[s]>>) /\ UNCHANGED mishaps
     \/ mishaps > 0 /\ mishaps' = mishaps - 1 /\ UNCHANGED events
  /\ UNCHANGED <<store, answered, stopping, poll, answer, picking, analyzing, disowned>>

\* The listener applies the next update.
Listen ==
  /\ events # <<>>
  /\ applySessionUpdate(Head(events)[1], Head(events)[2])
  /\ events' = Tail(events)
  /\ UNCHANGED <<serviceVars, answered, stopping, poll, answer, picking, analyzing, mishaps, disowned>>

----------------------------------------------------------------------------
(* Importing *)

\* A file dialog opens: the buttons are there when no session is known and nothing is under way.
Pick ==
  /\ ~picking /\ mishaps > 0
  /\ mishaps' = mishaps - 1
  /\ store.session = None /\ ~Busy
  /\ picking' = TRUE
  /\ UNCHANGED <<serviceVars, store, events, answered, stopping, poll, answer, analyzing, disowned>>

\* The session the page loses when `lost' happens while it has one, or has asked for one.
Disown(lost) == disowned' = IF lost THEN disowned \cup ({store.session, store.request} \cap Sessions)
                            ELSE disowned

\* A session capture was chosen and is read: loadReplaySession replaces whatever the page has.
LoadReplay ==
  /\ picking
  /\ picking' = FALSE
  /\ store' = [phase |-> "ready", request |-> None, session |-> None, sequence |-> 0, shown |-> TRUE]
  /\ Disown(TRUE)
  /\ UNCHANGED <<serviceVars, events, answered, stopping, poll, answer, analyzing, mishaps>>

\* rejectAnalysisInput.
reject ==
  /\ store' = [store EXCEPT !.phase = IF store.shown THEN "ready" ELSE "error"]
  /\ Disown(store.phase = "starting" /\ store.session = None)

\* The file cannot be read.
RejectFile ==
  /\ picking /\ picking' = FALSE
  /\ reject
  /\ UNCHANGED <<serviceVars, events, answered, stopping, poll, answer, analyzing, mishaps>>

\* What is shown is exported, and the file cannot be written.
ExportFails ==
  /\ store.shown /\ mishaps > 0
  /\ mishaps' = mishaps - 1
  /\ reject
  /\ UNCHANGED <<serviceVars, events, answered, stopping, poll, answer, picking, analyzing>>

\* Evidence was chosen: analyzeEspEvidenceSource looks again whether live diagnostics are under way.
Analyze ==
  /\ picking
  /\ picking' = FALSE
  /\ \/ /\ store.session = None /\ store.phase \notin {"starting", "live", "stopping"}
        /\ store' = [phase |-> "analyzing", request |-> "analysis", session |-> None, sequence |-> 0,
                     shown |-> FALSE]
        /\ analyzing' = TRUE
     \/ /\ store.session # None \/ store.phase \in {"starting", "live", "stopping"}
        /\ UNCHANGED <<store, analyzing>>
  /\ UNCHANGED <<serviceVars, events, answered, stopping, poll, answer, mishaps, disowned>>

\* The analysis answers: applyAnalysis or fail.
Analyzed ==
  /\ analyzing
  /\ analyzing' = FALSE
  /\ \/ fail("analysis")
     \/ store' = IF store.phase = "analyzing" /\ store.request = "analysis"
                   THEN [store EXCEPT !.phase = "ready", !.request = None, !.shown = TRUE] ELSE store
  /\ UNCHANGED <<serviceVars, events, answered, stopping, poll, answer, picking, mishaps, disowned>>

----------------------------------------------------------------------------
(* Specification *)

PageSteps ==
  \/ Listen \/ Analyzed
  \/ \E s \in Sessions : StartAnswered(s) \/ StopAnswered(s)
PollSteps(s) == PollAsks(s) \/ PollAnswered(s)
UserSteps ==
  \/ Pick \/ LoadReplay \/ RejectFile \/ ExportFails \/ Analyze
  \/ \E s \in Sessions : StartLive(s) \/ StopLive(s)

\* The manager, but for deliveries and for the shutdown, which ends the page too.
ManagerSteps(s) ==
  /\ \/ Refuse(s) \/ StartFails(s) \/ Forget(s) \/ Begin(s) \/ Accept(s)
     \/ Mark(s) \/ NotFound(s) \/ Stopped(s)
     \/ \E state \in Terminal : Publish(s, state)
     \/ published[s].sequence <= MaxUpdate /\ Publish(s, "Live")
  /\ UNCHANGED page

WatchNext ==
  \/ UserSteps \/ PageSteps
  \/ \E s \in Sessions : ManagerSteps(s) \/ PollSteps(s) \/ Deliver(s)

WatchSpec == WatchInit /\ [][WatchNext]_watchVars

\* The manager's threads and the promises of the page do not all stand still, and neither does a
\* poll; the user, the evidence and the clock may.  But for the poll each of these steps can be taken
\* finitely often, so the weak form is enough.
FairWatchSpec ==
  /\ WatchSpec
  /\ WF_watchVars(PageSteps \/ \E s \in Sessions : Deliver(s) \/ (ManagerSteps(s) /\ Progress(s)))
  /\ WF_watchVars(\E s \in Sessions : PollSteps(s))

----------------------------------------------------------------------------
(* Properties *)

\* A live session is one the page knows and can stop: once the page has had the answer of the start
\* it holds the session, whatever updates are late or lost (importCapturedFile and loadReplaySession
\* look at nothing, so a file loaded or refused over it is the exception).
LiveIsKnown ==
  \A s \in Sessions :
    (active = s /\ ~Ended(s) /\ s \in answered \ disowned) => store.session = s

\* The user is not told that another session is in the way when the page knows of none, unless a
\* file was loaded or refused over that one.
StartIsNotRefused ==
  \A s \in Sessions :
    (start[s] = "asked" /\ published[s] = NoUpdate /\ active # None) => Ended(active) \/ disowned # {}

\* What the page shows of a session never runs ahead of it and never goes back: a late answer of
\* start, of the poll or of the listener does not bring back a session that has ended.
ViewOnlyAdvances ==
  [][\A s \in Sessions : store'.session = s =>
       /\ store'.sequence <= published'[s].sequence
       /\ store.session = s => store.sequence <= store'.sequence
       /\ store.session # s => store.phase = "starting" /\ store.request = s]_watchVars

\* Starting ends: in a live session, an ended one or an error, though an update may be lost: the poll
\* (recoverStartingSession) finds what the listener missed.  Stopping ends too, whatever update or
\* answer comes first (stopLive, clearStoppedSession).  With a file loaded or refused over a session
\* neither need: the manager forgets one of two sessions and the poll asks for it for ever, and a stop
\* that fails makes the page forget the request of a session it goes on holding, so that a second
\* failure changes nothing.
StartAndStopSettle ==
  store.phase \in {"starting", "stopping"} ~>
    store.phase \notin {"starting", "stopping"} \/ disowned # {}
=============================================================================
