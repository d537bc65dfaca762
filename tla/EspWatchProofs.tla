--------------------------- MODULE EspWatchProofs ---------------------------
(***************************************************************************)
(* The type invariant of EspWatch, that the page knows the session that    *)
(* goes on, that a start is not refused because of one it does not know,   *)
(* and that what it shows of a session only advances, for every set of     *)
(* sessions, any number of updates and any number of mishaps.              *)
(***************************************************************************)
EXTENDS EspWatch, TLAPS

----------------------------------------------------------------------------
(* The inductive invariant *)

\* The manager: a session that has begun and not ended is the active one; one begins after its start
\* was asked for and before it is answered with success; and a stop is answered when it has ended.
Began(s) == published[s].state # "none"
Served ==
  /\ active # None => Began(active)
  /\ \A s \in Sessions :
       /\ Began(s) /\ ~Ended(s) => active = s
       /\ ~Began(s) => published[s] = NoUpdate /\ emitted[s] = NoUpdate
       /\ start[s] \in {"none", "err"} => ~Began(s)
       /\ start[s] = "ok" => Began(s)
       /\ stop[s] # "none" => Began(s)
       /\ stop[s] \in {"ok", "err"} => Ended(s)

\* What is on its way to the page was published: an update that was handed over, the answer of the
\* poll, and what the page holds of its session.
Past(s, update) ==
  /\ Began(s)
  /\ update.sequence <= published[s].sequence
  /\ update.state \in Terminal => Ended(s)
Sent == \A i \in DOMAIN events : Past(events[i][1], events[i][2])
Polled == \A s \in Sessions : answer[s] # NoUpdate => Past(s, answer[s])
Shown == store.session # None =>
           Began(store.session) /\ store.sequence <= published[store.session].sequence
Heard == Sent /\ Polled /\ Shown

\* The page waits for the answer of the start it asked for, or holds the session already; and once it
\* has had the answer it holds the session, unless that has ended or a file came over it.
Asking == store.phase = "starting" /\ store.session = None
Claimed ==
  /\ Asking => store.sequence = 0
  /\ \A s \in Sessions :
       /\ s \in answered => start[s] \in {"ok", "err"}
       /\ start[s] # "none" /\ s \notin answered \cup disowned /\ ~Ended(s) =>
            store.request = s /\ (store.session = s \/ Asking)
       /\ s \in answered \ disowned /\ Began(s) /\ ~Ended(s) => store.session = s

WatchInv == WatchTypeOK /\ Served /\ Heard /\ Claimed

\* No session begins twice, or goes on once it has ended, and its updates count up.
Onwards ==
  \A s \in Sessions : /\ Began(s) => Began(s)'
                      /\ Ended(s) => Ended(s)'
                      /\ published[s].sequence <= published'[s].sequence

\* The page goes on with the session it holds, or takes the one it asked for, or holds none.
Advances ==
  \/ store'.session = None
  \/ store'.session = store.session /\ store.sequence <= store'.sequence
  \/ store.session # store'.session /\ store.phase = "starting" /\ store.request = store'.session

----------------------------------------------------------------------------
(* Every step keeps it *)

\* applySessionUpdate leaves the store as it is, or fills it with an update of the request it has.
LEMMA Applies ==
  ASSUME store \in Store, NEW s \in Sessions, NEW update \in Update, applySessionUpdate(s, update)
  PROVE  \/ UNCHANGED store
         \/ /\ store' \in Store
            /\ store.request = s /\ store'.request = s /\ store'.sequence = update.sequence
            /\ store'.session = IF update.state \in Terminal THEN None ELSE s
            /\ store'.phase \in {"live", "stopping"} => store'.session # None
            /\ store'.phase # "starting" \/ store'.session # None
            /\ \/ store.session = s /\ store.sequence < update.sequence
               \/ store.session = None /\ store.phase = "starting"
<1>1. store.request = s \/ store' = store
  BY DEF applySessionUpdate, Accepts
<1>2. CASE Accepts(s, update)
  <2>1. store' = Applied(s, update)
    BY <1>2 DEF applySessionUpdate
  <2>2. PhaseOf[update.state] \in Phase
    BY DEF PhaseOf, Update, State, Terminal, Phase
  <2>3. PhaseOf[update.state] \in {"live", "stopping", "starting"} => update.state \notin Terminal
    BY DEF PhaseOf, Terminal
  <2> QED
    BY <1>2, <2>1, <2>2, <2>3, WatchAssumption DEF Applied, Accepts, Store, Update, Terminal
<1> QED
  BY <1>2 DEF applySessionUpdate

\* Every command, answer and update, and every step of the page, keeps the types.
LEMMA TypesKept ==
  ASSUME WatchTypeOK, [WatchNext]_watchVars
  PROVE  WatchTypeOK'
<1> USE DEF WatchTypeOK, Call
<1>1. ASSUME Pick
       PROVE  WatchTypeOK'
  BY <1>1, WatchAssumption DEF Pick, serviceVars
<1>2. ASSUME LoadReplay
       PROVE  WatchTypeOK'
  <2>1. store' \in Store /\ (store'.phase \in {"live", "stopping"} => store'.session # None)
    BY <1>2, WatchAssumption DEF LoadReplay, Store, Phase
  <2> QED
    BY <1>2, <2>1 DEF LoadReplay, Disown, serviceVars
<1>3. ASSUME RejectFile
       PROVE  WatchTypeOK'
  <2>1. store' \in Store /\ (store'.phase \in {"live", "stopping"} => store'.session # None)
    BY <1>3, WatchAssumption DEF RejectFile, reject, Store, Phase
  <2> QED
    BY <1>3, <2>1 DEF RejectFile, reject, Disown, serviceVars
<1>4. ASSUME ExportFails
       PROVE  WatchTypeOK'
  <2>1. store' \in Store /\ (store'.phase \in {"live", "stopping"} => store'.session # None)
    BY <1>4, WatchAssumption DEF ExportFails, reject, Store, Phase
  <2>2. mishaps' \in 0..MaxMishap
    BY <1>4, WatchAssumption DEF ExportFails
  <2>3. disowned' \subseteq Sessions
    BY <1>4 DEF ExportFails, reject, Disown
  <2> QED
    BY <1>4, <2>1, <2>2, <2>3 DEF ExportFails, serviceVars
<1>5. ASSUME Analyze
       PROVE  WatchTypeOK'
  <2>1. store' \in Store /\ (store'.phase \in {"live", "stopping"} => store'.session # None)
    <3>1. CASE store' = store
      BY <3>1
    <3>2. CASE store' = [phase |-> "analyzing", request |-> "analysis", session |-> None,
               sequence |-> 0,
                         shown |-> FALSE]
      BY <3>2 DEF Store, Phase
    <3> QED
      BY <1>5, <3>1, <3>2 DEF Analyze
  <2>2. analyzing' \in BOOLEAN
    BY <1>5 DEF Analyze
  <2> QED
    BY <1>5, <2>1, <2>2 DEF Analyze, serviceVars
<1>6. ASSUME NEW s \in Sessions, StartLive(s)
       PROVE  WatchTypeOK'
  <2>1. store' \in Store /\ (store'.phase \in {"live", "stopping"} => store'.session # None)
    BY <1>6, WatchAssumption DEF StartLive, Store, Phase
  <2> QED
    BY <1>6, <2>1 DEF StartLive, AskStart
<1>7. ASSUME NEW s \in Sessions, StopLive(s)
       PROVE  WatchTypeOK'
  <2>1. store' \in Store /\ (store'.phase \in {"live", "stopping"} => store'.session # None)
    BY <1>7, WatchAssumption DEF StopLive, Store, Phase
  <2> QED
    BY <1>7, <2>1 DEF StopLive, AskStop
<1>8. ASSUME Listen
       PROVE  WatchTypeOK'
  <2>1. events # <<>> /\ Head(events) \in Sessions \X Update
        /\ Tail(events) \in Seq(Sessions \X Update)
    BY <1>8 DEF Listen
  <2>2. /\ Head(events)[1] \in Sessions /\ Head(events)[2] \in Update
        /\ applySessionUpdate(Head(events)[1], Head(events)[2])
    BY <1>8, <2>1 DEF Listen
  <2>3. store' \in Store /\ (store'.phase \in {"live", "stopping"} => store'.session # None)
    BY <2>2, Applies
  <2> QED
    BY <1>8, <2>1, <2>3 DEF Listen, serviceVars
<1>9. ASSUME Analyzed
       PROVE  WatchTypeOK'
  <2>1. store' \in Store /\ (store'.phase \in {"live", "stopping"} => store'.session # None)
    <3>1. \/ store' = store
          \/ store' = [store EXCEPT !.phase = "error", !.request = None]
          \/ store' = [store EXCEPT !.phase = "ready", !.request = None, !.shown = TRUE]
      BY <1>9 DEF Analyzed, fail
    <3>2. CASE store' = [store EXCEPT !.phase = "error", !.request = None]
      BY <3>2 DEF Store, Phase
    <3>3. CASE store' = [store EXCEPT !.phase = "ready", !.request = None, !.shown = TRUE]
      BY <3>3 DEF Store, Phase
    <3> QED
      BY <3>1, <3>2, <3>3
  <2> QED
    BY <1>9, <2>1 DEF Analyzed, serviceVars
<1>10. ASSUME NEW s \in Sessions, StartAnswered(s)
       PROVE  WatchTypeOK'
  <2>1. store' \in Store /\ (store'.phase \in {"live", "stopping"} => store'.session # None)
    <3>1. [sequence |-> 0, state |-> "Starting"] \in Update
      BY DEF Update, State
    <3>2. CASE applySessionUpdate(s, [sequence |-> 0, state |-> "Starting"])
      BY <3>1, <3>2, Applies
    <3>3. CASE fail(s)
      BY <3>3 DEF fail, Store, Phase
    <3> QED
      BY <1>10, <3>2, <3>3 DEF StartAnswered
  <2>2. poll' \in [Sessions -> {"off", "ask", "got"}]
    BY <1>10 DEF StartAnswered
  <2> QED
    BY <1>10, <2>1, <2>2 DEF StartAnswered, serviceVars
<1>11. ASSUME NEW s \in Sessions, StopAnswered(s)
       PROVE  WatchTypeOK'
  <2>1. store' \in Store /\ (store'.phase \in {"live", "stopping"} => store'.session # None)
    <3>1. \/ store' = store
          \/ store' = [store EXCEPT !.phase = "error", !.request = None]
          \/ store' = [store EXCEPT !.phase = IF store.shown THEN "ready" ELSE "idle",
                                         !.request = None, !.session = None, !.sequence = 0]
      BY <1>11 DEF StopAnswered, fail
    <3>2. CASE store' = [store EXCEPT !.phase = "error", !.request = None]
      BY <3>2 DEF Store, Phase
    <3>3. CASE store' = [store EXCEPT !.phase = IF store.shown THEN "ready" ELSE "idle",
                                         !.request = None, !.session = None, !.sequence = 0]
      BY <3>3 DEF Store, Phase
    <3> QED
      BY <3>1, <3>2, <3>3
  <2> QED
    BY <1>11, <2>1 DEF StopAnswered, serviceVars
<1>12. ASSUME NEW s \in Sessions, PollAsks(s)
       PROVE  WatchTypeOK'
  <2>1. NoUpdate \in Update /\ published[s] \in Update
    BY DEF NoUpdate, Update, State
  <2>2. answer' \in [Sessions -> Update] /\ poll' \in [Sessions -> {"off", "ask", "got"}]
    BY <1>12, <2>1 DEF PollAsks
  <2> QED
    BY <1>12, <2>2 DEF PollAsks, serviceVars
<1>13. ASSUME NEW s \in Sessions, PollAnswered(s)
       PROVE  WatchTypeOK'
  <2>1. store' \in Store /\ (store'.phase \in {"live", "stopping"} => store'.session # None)
    <3>1. CASE applySessionUpdate(s, answer[s])
      BY <3>1, Applies
    <3> QED
      BY <1>13, <3>1 DEF PollAnswered
  <2>2. NoUpdate \in Update
    BY DEF NoUpdate, Update, State
  <2> QED
    BY <1>13, <2>1, <2>2 DEF PollAnswered, serviceVars
<1>14. ASSUME NEW s \in Sessions, Deliver(s)
       PROVE  WatchTypeOK'
  <2>1. published[s] \in Update /\ <<s, published[s]>> \in Sessions \X Update
    OBVIOUS
  <2>2. events' \in Seq(Sessions \X Update)
    <3>1. Append(events, <<s, published[s]>>) \in Seq(Sessions \X Update)
      BY <2>1
    <3> QED
      BY <1>14, <3>1 DEF Deliver
  <2>3. mishaps' \in 0..MaxMishap
    BY <1>14, WatchAssumption DEF Deliver
  <2>4. emitted' \in [Sessions -> Update]
    BY <1>14, <2>1 DEF Deliver, Hand
  <2> QED
    BY <1>14, <2>2, <2>3, <2>4 DEF Deliver, Hand
<1>15. ASSUME NEW s \in Sessions, Refuse(s), UNCHANGED page
       PROVE  WatchTypeOK'
  BY <1>15 DEF Refuse, page
<1>16. ASSUME NEW s \in Sessions, StartFails(s), UNCHANGED page
       PROVE  WatchTypeOK'
  BY <1>16 DEF StartFails, page
<1>17. ASSUME NEW s \in Sessions, Forget(s), UNCHANGED page
       PROVE  WatchTypeOK'
  BY <1>17 DEF Forget, page
<1>18. ASSUME NEW s \in Sessions, Begin(s), UNCHANGED page
       PROVE  WatchTypeOK'
  <2>0. published[s] \in Update
    OBVIOUS
  <2>1. [published[s] EXCEPT !.state = "Starting"] \in Update
    BY <2>0 DEF Update, State
  <2>2. published' \in [Sessions -> Update]
    BY <1>18, <2>1 DEF Begin
  <2> QED
    BY <1>18, <2>2 DEF Begin, page
<1>19. ASSUME NEW s \in Sessions, Accept(s), UNCHANGED page
       PROVE  WatchTypeOK'
  BY <1>19 DEF Accept, page
<1>20. ASSUME NEW s \in Sessions, Mark(s), UNCHANGED page
       PROVE  WatchTypeOK'
  <2>0. published[s] \in Update
    OBVIOUS
  <2>1. [published[s] EXCEPT !.state = "Stopping"] \in Update
    BY <2>0 DEF Update, State
  <2>2. published' \in [Sessions -> Update]
    BY <1>20, <2>1 DEF Mark
  <2> QED
    BY <1>20, <2>2 DEF Mark, page
<1>21. ASSUME NEW s \in Sessions, NotFound(s), UNCHANGED page
       PROVE  WatchTypeOK'
  BY <1>21 DEF NotFound, page
<1>22. ASSUME NEW s \in Sessions, Stopped(s), UNCHANGED page
       PROVE  WatchTypeOK'
  BY <1>22 DEF Stopped, page
<1>23. ASSUME NEW s \in Sessions, NEW new \in Terminal \cup {"Live"}, Publish(s, new),
              UNCHANGED page
       PROVE  WatchTypeOK'
  <2>1. published' \in [Sessions -> Update]
    BY <1>23 DEF Publish, Update, State
  <2> QED
    BY <1>23, <2>1 DEF Publish, page
<1>24. ASSUME UNCHANGED watchVars
       PROVE  WatchTypeOK'
  BY <1>24 DEF watchVars, serviceVars, page
<1> QED
  BY <1>1, <1>2, <1>3, <1>4, <1>5, <1>6, <1>7, <1>8, <1>9, <1>10, <1>11, <1>12, <1>13, <1>14, <1>15,
      <1>16, <1>17, <1>18, <1>19, <1>20, <1>21, <1>22, <1>23, <1>24
  DEF WatchNext, UserSteps, PageSteps, PollSteps, ManagerSteps

\* Once a session has begun it has begun, once it has ended it has ended, and its updates count up.
LEMMA Onward ==
  ASSUME WatchTypeOK, Served, [WatchNext]_watchVars
  PROVE  Onwards
<1> USE DEF WatchTypeOK, Began, Ended, Update, Terminal, NoUpdate
<1>1. ASSUME Pick
       PROVE  Onwards
  BY <1>1 DEF Pick, serviceVars, Onwards
<1>2. ASSUME LoadReplay
       PROVE  Onwards
  BY <1>2 DEF LoadReplay, serviceVars, Onwards
<1>3. ASSUME RejectFile
       PROVE  Onwards
  BY <1>3 DEF RejectFile, serviceVars, Onwards
<1>4. ASSUME ExportFails
       PROVE  Onwards
  BY <1>4 DEF ExportFails, serviceVars, Onwards
<1>5. ASSUME Analyze
       PROVE  Onwards
  BY <1>5 DEF Analyze, serviceVars, Onwards
<1>6. ASSUME NEW s \in Sessions, StartLive(s)
       PROVE  Onwards
  BY <1>6 DEF StartLive, AskStart, Onwards
<1>7. ASSUME NEW s \in Sessions, StopLive(s)
       PROVE  Onwards
  BY <1>7 DEF StopLive, AskStop, Onwards
<1>8. ASSUME Listen
       PROVE  Onwards
  BY <1>8 DEF Listen, serviceVars, Onwards
<1>9. ASSUME Analyzed
       PROVE  Onwards
  BY <1>9 DEF Analyzed, serviceVars, Onwards
<1>10. ASSUME NEW s \in Sessions, StartAnswered(s)
       PROVE  Onwards
  BY <1>10 DEF StartAnswered, serviceVars, Onwards
<1>11. ASSUME NEW s \in Sessions, StopAnswered(s)
       PROVE  Onwards
  BY <1>11 DEF StopAnswered, serviceVars, Onwards
<1>12. ASSUME NEW s \in Sessions, PollAsks(s)
       PROVE  Onwards
  BY <1>12 DEF PollAsks, serviceVars, Onwards
<1>13. ASSUME NEW s \in Sessions, PollAnswered(s)
       PROVE  Onwards
  BY <1>13 DEF PollAnswered, serviceVars, Onwards
<1>14. ASSUME NEW s \in Sessions, Deliver(s)
       PROVE  Onwards
  BY <1>14 DEF Deliver, Hand, Onwards
<1>15. ASSUME NEW s \in Sessions, Refuse(s), UNCHANGED page
       PROVE  Onwards
  BY <1>15 DEF Refuse, Onwards
<1>16. ASSUME NEW s \in Sessions, StartFails(s), UNCHANGED page
       PROVE  Onwards
  BY <1>16 DEF StartFails, Onwards
<1>17. ASSUME NEW s \in Sessions, Forget(s), UNCHANGED page
       PROVE  Onwards
  BY <1>17 DEF Forget, Onwards
<1>18. ASSUME NEW s \in Sessions, Begin(s), UNCHANGED page
       PROVE  Onwards
  BY <1>18 DEF Begin, Onwards
<1>19. ASSUME NEW s \in Sessions, Accept(s), UNCHANGED page
       PROVE  Onwards
  BY <1>19 DEF Accept, Onwards
<1>20. ASSUME NEW s \in Sessions, Mark(s), UNCHANGED page
       PROVE  Onwards
  BY <1>20 DEF Mark, Onwards
<1>21. ASSUME NEW s \in Sessions, NotFound(s), UNCHANGED page
       PROVE  Onwards
  BY <1>21 DEF NotFound, Onwards
<1>22. ASSUME NEW s \in Sessions, Stopped(s), UNCHANGED page
       PROVE  Onwards
  BY <1>22 DEF Stopped, Onwards
<1>23. ASSUME NEW s \in Sessions, NEW new \in Terminal \cup {"Live"}, Publish(s, new),
              UNCHANGED page
       PROVE  Onwards
  BY <1>23 DEF Publish, Onwards
<1>24. ASSUME UNCHANGED watchVars
       PROVE  Onwards
  BY <1>24 DEF watchVars, serviceVars, Onwards
<1> QED
  BY <1>1, <1>2, <1>3, <1>4, <1>5, <1>6, <1>7, <1>8, <1>9, <1>10, <1>11, <1>12, <1>13, <1>14, <1>15,
      <1>16, <1>17, <1>18, <1>19, <1>20, <1>21, <1>22, <1>23, <1>24
  DEF WatchNext, UserSteps, PageSteps, PollSteps, ManagerSteps

\* The manager, whatever the page does, begins and ends its sessions one after the other.
LEMMA ServedKept ==
  ASSUME WatchTypeOK, Served, Heard, [WatchNext]_watchVars
  PROVE  Served'
<1> USE DEF WatchTypeOK, Served, Began, Ended, Terminal, NoUpdate
<1>1. ASSUME Pick
       PROVE  Served'
  BY <1>1 DEF Pick, serviceVars
<1>2. ASSUME LoadReplay
       PROVE  Served'
  BY <1>2 DEF LoadReplay, serviceVars
<1>3. ASSUME RejectFile
       PROVE  Served'
  BY <1>3 DEF RejectFile, serviceVars
<1>4. ASSUME ExportFails
       PROVE  Served'
  BY <1>4 DEF ExportFails, serviceVars
<1>5. ASSUME Analyze
       PROVE  Served'
  BY <1>5 DEF Analyze, serviceVars
<1>6. ASSUME NEW s \in Sessions, StartLive(s)
       PROVE  Served'
  BY <1>6 DEF StartLive, AskStart
<1>7. ASSUME NEW s \in Sessions, StopLive(s)
       PROVE  Served'
  <2>1. Began(s)
    BY <1>7, WatchAssumption DEF StopLive, Heard, Shown
  <2> QED
    BY <1>7, <2>1 DEF StopLive, AskStop
<1>8. ASSUME Listen
       PROVE  Served'
  BY <1>8 DEF Listen, serviceVars
<1>9. ASSUME Analyzed
       PROVE  Served'
  BY <1>9 DEF Analyzed, serviceVars
<1>10. ASSUME NEW s \in Sessions, StartAnswered(s)
       PROVE  Served'
  BY <1>10 DEF StartAnswered, serviceVars
<1>11. ASSUME NEW s \in Sessions, StopAnswered(s)
       PROVE  Served'
  BY <1>11 DEF StopAnswered, serviceVars
<1>12. ASSUME NEW s \in Sessions, PollAsks(s)
       PROVE  Served'
  BY <1>12 DEF PollAsks, serviceVars
<1>13. ASSUME NEW s \in Sessions, PollAnswered(s)
       PROVE  Served'
  BY <1>13 DEF PollAnswered, serviceVars
<1>14. ASSUME NEW s \in Sessions, Deliver(s)
       PROVE  Served'
  BY <1>14 DEF Deliver, Hand
<1>15. ASSUME NEW s \in Sessions, Refuse(s), UNCHANGED page
       PROVE  Served'
  BY <1>15 DEF Refuse
<1>16. ASSUME NEW s \in Sessions, StartFails(s), UNCHANGED page
       PROVE  Served'
  BY <1>16 DEF StartFails
<1>17. ASSUME NEW s \in Sessions, Forget(s), UNCHANGED page
       PROVE  Served'
  BY <1>17 DEF Forget
<1>18. ASSUME NEW s \in Sessions, Begin(s), UNCHANGED page
       PROVE  Served'
  BY <1>18 DEF Begin
<1>19. ASSUME NEW s \in Sessions, Accept(s), UNCHANGED page
       PROVE  Served'
  BY <1>19, WatchAssumption DEF Accept
<1>20. ASSUME NEW s \in Sessions, Mark(s), UNCHANGED page
       PROVE  Served'
  BY <1>20 DEF Mark
<1>21. ASSUME NEW s \in Sessions, NotFound(s), UNCHANGED page
       PROVE  Served'
  BY <1>21 DEF NotFound
<1>22. ASSUME NEW s \in Sessions, Stopped(s), UNCHANGED page
       PROVE  Served'
  BY <1>22 DEF Stopped
<1>23. ASSUME NEW s \in Sessions, NEW new \in Terminal \cup {"Live"}, Publish(s, new),
              UNCHANGED page
       PROVE  Served'
  BY <1>23 DEF Publish
<1>24. ASSUME UNCHANGED watchVars
       PROVE  Served'
  BY <1>24 DEF watchVars, serviceVars
<1> QED
  BY <1>1, <1>2, <1>3, <1>4, <1>5, <1>6, <1>7, <1>8, <1>9, <1>10, <1>11, <1>12, <1>13, <1>14, <1>15,
      <1>16, <1>17, <1>18, <1>19, <1>20, <1>21, <1>22, <1>23, <1>24
  DEF WatchNext, UserSteps, PageSteps, PollSteps, ManagerSteps

\* What was published stays published.
LEMMA StaysPast ==
  ASSUME WatchTypeOK, Served, [WatchNext]_watchVars
  PROVE  \A s \in Sessions, update \in Update : Past(s, update) => Past(s, update)'
<1>1. \A s \in Sessions : published[s].sequence \in Nat /\ published'[s].sequence \in Nat
  BY TypesKept DEF WatchTypeOK, Update
<1> QED
  BY <1>1, Onward DEF Onwards, Past, Update

\* What is on its way to the page was published.
LEMMA SentKept ==
  ASSUME WatchTypeOK, Served, Sent, [WatchNext]_watchVars
  PROVE  Sent'
<1>1. \A s \in Sessions, update \in Update : Past(s, update) => Past(s, update)'
  BY StaysPast
<1>2. ASSUME UNCHANGED events
       PROVE  Sent'
  BY <1>1, <1>2 DEF Sent, WatchTypeOK
<1>3. ASSUME NEW s \in Sessions, Deliver(s)
       PROVE  Sent'
  <2>1. Past(s, published[s])
    BY <1>3, WatchAssumption DEF Deliver, Hand, Handed, Past, Served, Ended, WatchTypeOK, Update
  <2>2. Past(s, published[s])'
    BY <1>1, <1>3, <2>1 DEF Deliver, Hand, WatchTypeOK
  <2>3. CASE events' = Append(events, <<s, published[s]>>)
    <3>1. SUFFICES ASSUME NEW i \in DOMAIN events'
                   PROVE  Past(events[i][1], events[i][2])'
      BY DEF Sent
    <3>2. CASE i \in DOMAIN events
      <4>1. events'[i] = events[i] /\ events[i] \in Sessions \X Update
        BY <2>3, <3>2 DEF WatchTypeOK
      <4> QED
        BY <1>1, <3>2, <4>1 DEF Sent
    <3>3. CASE i \notin DOMAIN events
      <4>1. events'[i] = <<s, published[s]>> /\ UNCHANGED published
        BY <1>3, <2>3, <3>3 DEF Deliver, Hand
      <4> QED
        BY <2>2, <4>1
    <3> QED
      BY <3>2, <3>3
  <2> QED
    BY <1>2, <1>3, <2>3 DEF Deliver
<1>4. ASSUME Listen
       PROVE  Sent'
  BY <1>1, <1>4 DEF Listen, Sent, WatchTypeOK
<1>5. UNCHANGED events \/ Listen \/ \E s \in Sessions : Deliver(s)
  BY DEF WatchNext, UserSteps, PageSteps, PollSteps, ManagerSteps, Pick, LoadReplay, RejectFile,
      ExportFails, Analyze, StartLive, StopLive, Analyzed, StartAnswered, StopAnswered, PollAsks,
      PollAnswered, watchVars, page
<1> QED
  BY <1>2, <1>3, <1>4, <1>5

\* What the poll is given was published.
LEMMA PolledKept ==
  ASSUME WatchTypeOK, Served, Polled, [WatchNext]_watchVars
  PROVE  Polled'
<1>1. \A s \in Sessions, update \in Update : Past(s, update) => Past(s, update)'
  BY StaysPast
<1>2. ASSUME UNCHANGED answer
       PROVE  Polled'
  BY <1>1, <1>2 DEF Polled, WatchTypeOK
<1>3. ASSUME NEW s \in Sessions, PollAsks(s)
       PROVE  Polled'
  <2>1. Past(s, published[s]) \/ answer'[s] = NoUpdate \/ UNCHANGED answer
    BY <1>3, WatchAssumption DEF PollAsks, Past, Served, Ended, WatchTypeOK, Update
  <2>2. Past(s, published[s])' \/ answer'[s] = NoUpdate \/ UNCHANGED answer
    BY <1>1, <1>3, <2>1 DEF PollAsks, serviceVars, WatchTypeOK
  <2> QED
    BY <1>1, <1>2, <1>3, <2>2 DEF PollAsks, Polled, WatchTypeOK, serviceVars
<1>4. ASSUME NEW s \in Sessions, PollAnswered(s)
       PROVE  Polled'
  BY <1>1, <1>4 DEF PollAnswered, Polled, WatchTypeOK
<1>5. \/ UNCHANGED answer
      \/ \E s \in Sessions : PollAsks(s) \/ PollAnswered(s)
  BY DEF WatchNext, UserSteps, PageSteps, PollSteps, ManagerSteps, Pick, LoadReplay, RejectFile,
      ExportFails, Analyze, StartLive, StopLive, Analyzed, StartAnswered, StopAnswered, Listen,
      Deliver, watchVars, page
<1> QED
  BY <1>2, <1>3, <1>4, <1>5

\* What the page shows of a session was published.
LEMMA ShownKept ==
  ASSUME WatchTypeOK, Served, Heard, [WatchNext]_watchVars
  PROVE  Shown'
<1>1. \A s \in Sessions : /\ Began(s) => Began(s)'
                          /\ published[s].sequence \in Nat /\ published'[s].sequence \in Nat
                          /\ published[s].sequence <= published'[s].sequence
  BY Onward, TypesKept DEF Onwards, WatchTypeOK, Update
<1>2. ASSUME \/ store'.session = None
             \/ store'.session = store.session /\ store'.sequence = store.sequence
       PROVE  Shown'
  BY <1>1, <1>2 DEF Heard, Shown, WatchTypeOK, Store
<1>3. ASSUME NEW s \in Sessions, NEW update \in Update, applySessionUpdate(s, update), Past(s,
             update)
       PROVE  Shown'
  <2>1. \/ store'.session = None
        \/ store'.session = s /\ store'.sequence = update.sequence
        \/ store' = store
    BY <1>3, Applies DEF WatchTypeOK
  <2>2. Past(s, update)'
    BY <1>3, StaysPast
  <2> QED
    BY <1>2, <2>1, <2>2 DEF Past, Shown
<1>4. ASSUME Listen
       PROVE  Shown'
  <2>1. /\ Head(events)[1] \in Sessions /\ Head(events)[2] \in Update
        /\ applySessionUpdate(Head(events)[1], Head(events)[2])
    BY <1>4 DEF Listen, WatchTypeOK
  <2>2. Past(Head(events)[1], Head(events)[2])
    BY <1>4 DEF Listen, Heard, Sent
  <2> QED
    BY <1>3, <2>1, <2>2
<1>5. ASSUME NEW s \in Sessions, StartAnswered(s)
       PROVE  Shown'
  <2>1. [sequence |-> 0, state |-> "Starting"] \in Update
    BY DEF Update, State
  <2>2. start[s] = "ok" => Past(s, [sequence |-> 0, state |-> "Starting"])
    BY DEF Served, Past, WatchTypeOK, Update, Terminal
  <2>3. CASE fail(s)
    BY <1>2, <2>3 DEF fail
  <2> QED
    BY <1>3, <1>5, <2>1, <2>2, <2>3 DEF StartAnswered
<1>6. ASSUME NEW s \in Sessions, PollAnswered(s)
       PROVE  Shown'
  <2>1. answer[s] \in Update /\ (answer[s] # NoUpdate => Past(s, answer[s]))
    BY DEF WatchTypeOK, Heard, Polled
  <2> QED
    BY <1>2, <1>3, <1>6, <2>1 DEF PollAnswered
<1>7. ASSUME LoadReplay
       PROVE  Shown'
  BY <1>2, <1>7 DEF LoadReplay
<1>8. ASSUME RejectFile
       PROVE  Shown'
  BY <1>2, <1>8 DEF RejectFile, reject
<1>9. ASSUME ExportFails
       PROVE  Shown'
  BY <1>2, <1>9 DEF ExportFails, reject
<1>10. ASSUME Analyze
       PROVE  Shown'
  BY <1>2, <1>10 DEF Analyze
<1>11. ASSUME Analyzed
       PROVE  Shown'
  BY <1>2, <1>11 DEF Analyzed, fail, WatchTypeOK, Store
<1>12. ASSUME NEW s \in Sessions, StartLive(s)
       PROVE  Shown'
  BY <1>2, <1>12 DEF StartLive
<1>13. ASSUME NEW s \in Sessions, StopLive(s)
       PROVE  Shown'
  BY <1>2, <1>13 DEF StopLive
<1>14. ASSUME NEW s \in Sessions, StopAnswered(s)
       PROVE  Shown'
  BY <1>2, <1>14 DEF StopAnswered, fail, WatchTypeOK, Store
<1>15. ASSUME UNCHANGED store
       PROVE  Shown'
  BY <1>2, <1>15
<1> QED
  BY <1>4, <1>5, <1>6, <1>7, <1>8, <1>9, <1>10, <1>11, <1>12, <1>13, <1>14, <1>15
  DEF WatchNext, UserSteps, PageSteps, PollSteps, ManagerSteps, Pick, PollAsks, Deliver, watchVars,
      page

\* A session that goes on is the one the page asks for or holds.
LEMMA ClaimedKept ==
  ASSUME WatchTypeOK, Served, Heard, Claimed, [WatchNext]_watchVars
  PROVE  Claimed'
<1>1. ASSUME Pick
       PROVE  Claimed'
  BY <1>1 DEF Pick, serviceVars, Claimed, Asking, Began, Ended
<1>2. ASSUME LoadReplay
       PROVE  Claimed'
  <2>1. store'.session = None /\ store'.phase = "ready"
    BY <1>2 DEF LoadReplay
  <2>2. UNCHANGED <<start, published, answered>>
    BY <1>2 DEF LoadReplay, serviceVars
  <2>3. disowned' = IF TRUE THEN disowned \cup ({store.session, store.request} \cap Sessions)
        ELSE disowned
    BY <1>2 DEF LoadReplay, Disown
  <2> QED
    BY <2>1, <2>2, <2>3 DEF Claimed, Asking, Began, Ended
<1>3. ASSUME RejectFile
       PROVE  Claimed'
  <2>1. store'.session = store.session /\ store'.request = store.request
        /\ store'.phase # "starting"
    BY <1>3 DEF RejectFile, reject
  <2>2. UNCHANGED <<start, published, answered>>
    BY <1>3 DEF RejectFile, serviceVars
  <2>3. disowned' = IF Asking THEN disowned \cup ({store.session,
        store.request} \cap Sessions) ELSE disowned
    BY <1>3 DEF RejectFile, reject, Disown, Asking
  <2> QED
    BY <2>1, <2>2, <2>3 DEF Claimed, Asking, Began, Ended
<1>4. ASSUME ExportFails
       PROVE  Claimed'
  <2>1. store'.session = store.session /\ store'.request = store.request
        /\ store'.phase # "starting"
    BY <1>4 DEF ExportFails, reject
  <2>2. UNCHANGED <<start, published, answered>>
    BY <1>4 DEF ExportFails, serviceVars
  <2>3. disowned' = IF Asking THEN disowned \cup ({store.session,
        store.request} \cap Sessions) ELSE disowned
    BY <1>4 DEF ExportFails, reject, Disown, Asking
  <2> QED
    BY <2>1, <2>2, <2>3 DEF Claimed, Asking, Began, Ended
<1>5. ASSUME Analyze
       PROVE  Claimed'
  <2>1. UNCHANGED <<start, published, answered, disowned>>
    BY <1>5 DEF Analyze, serviceVars
  <2>2. \/ UNCHANGED store
        \/ store.session = None /\ ~Asking /\ store'.phase = "analyzing"
    BY <1>5 DEF Analyze, Asking
  <2> QED
    BY <2>1, <2>2, WatchAssumption DEF Claimed, Asking, Began, Ended
<1>6. ASSUME NEW s \in Sessions, StartLive(s)
       PROVE  Claimed'
  <2>1. /\ store.session = None /\ store.phase # "starting"
        /\ store' = [phase |-> "starting", request |-> s, session |-> None, sequence |-> 0,
                     shown |-> FALSE]
        /\ start[s] = "none" /\ start' = [start EXCEPT ![s] = "asked"]
        /\ UNCHANGED <<published, answered, disowned>>
    BY <1>6 DEF StartLive, Busy, AskStart
  <2>2. store'.session = None /\ store'.phase = "starting" /\ store'.request = s
        /\ store'.sequence = 0
    BY <2>1
  <2> QED
    BY <2>1, <2>2, WatchAssumption DEF Claimed, Asking, Began, Ended
<1>7. ASSUME NEW s \in Sessions, StopLive(s)
       PROVE  Claimed'
  <2>1. /\ store.session = s /\ store'.session = s /\ store'.request = store.request
        /\ store'.sequence = store.sequence
    BY <1>7 DEF StopLive
  <2>2. UNCHANGED <<start, published, answered, disowned>>
    BY <1>7 DEF StopLive, AskStop
  <2> QED
    BY <2>1, <2>2, WatchAssumption DEF Claimed, Asking, Began, Ended
<1>8. ASSUME Listen
       PROVE  Claimed'
  <2> DEFINE t == Head(events)[1]
             update == Head(events)[2]
  <2>1. t \in Sessions /\ update \in Update /\ applySessionUpdate(t, update)
    BY <1>8 DEF Listen, WatchTypeOK
  <2>2. Past(t, update)
    BY <1>8 DEF Listen, Heard, Sent
  <2>3. \/ UNCHANGED store
        \/ /\ store.request = t /\ store'.request = t
           /\ ~Ended(t) => store'.session = t
           /\ ~(store'.phase = "starting" /\ store'.session = None)
           /\ store.session \in {t, None}
    BY <2>1, <2>2, Applies DEF Past, WatchTypeOK
  <2>4. UNCHANGED <<start, published, answered, disowned>>
    BY <1>8 DEF Listen, serviceVars
  <2> HIDE DEF t
  <2> QED
    BY <2>1, <2>3, <2>4, WatchAssumption DEF Claimed, Asking, Began, Ended
<1>9. ASSUME Analyzed
       PROVE  Claimed'
  <2>1. UNCHANGED <<start, published, answered, disowned>>
    BY <1>9 DEF Analyzed, serviceVars
  <2>2. \/ UNCHANGED store
        \/ /\ store.request = "analysis" /\ store'.session = store.session
           /\ store'.phase \in {"error", "ready"}
    BY <1>9 DEF Analyzed, fail, WatchTypeOK, Store
  <2> QED
    BY <2>1, <2>2, WatchAssumption DEF Claimed, Asking, Began, Ended
<1>10. ASSUME NEW s \in Sessions, StartAnswered(s)
       PROVE  Claimed'
  <2>1. UNCHANGED <<start, published, disowned>> /\ answered' = answered \cup {s}
        /\ s \notin answered
        /\ start[s] \in {"ok", "err"}
    BY <1>10 DEF StartAnswered, serviceVars
  <2>2. CASE start[s] = "err" /\ fail(s)
    <3>1. \/ UNCHANGED store
          \/ /\ store.request = s /\ store'.session = store.session
             /\ store'.phase = "error"
      BY <2>2 DEF fail
    <3>2. ~Began(s) /\ ~Ended(s)
      BY <2>2 DEF Served, Began, Ended, Terminal
    <3> QED
      BY <2>1, <3>1, <3>2 DEF Claimed, Asking, Began, Ended
  <2>3. CASE start[s] = "ok"
    <3> DEFINE update == [sequence |-> 0, state |-> "Starting"]
    <3>1. applySessionUpdate(s, update) /\ update \in Update
      BY <1>10, <2>3 DEF StartAnswered, Update, State
    <3>2. Past(s, update)
      BY <2>3 DEF Served, Past, WatchTypeOK, Update, Terminal
    <3>3. \/ UNCHANGED store
          \/ /\ store.request = s /\ store'.request = s
             /\ ~Ended(s) => store'.session = s
             /\ ~(store'.phase = "starting" /\ store'.session = None)
             /\ store.session \in {s, None}
      BY <3>1, <3>2, Applies DEF Past, WatchTypeOK
    <3>4. Asking /\ store.request = s /\ store.sequence = 0 => store'.session = s
      BY <3>1 DEF Asking, applySessionUpdate, Accepts, Applied, Terminal
    <3> QED
      BY <2>1, <2>3, <3>3, <3>4, WatchAssumption DEF Claimed, Asking, Began, Ended
  <2> QED
    BY <1>10, <2>2, <2>3 DEF StartAnswered
<1>11. ASSUME NEW s \in Sessions, StopAnswered(s)
       PROVE  Claimed'
  <2>1. Ended(s) \/ UNCHANGED store
    BY <1>11 DEF StopAnswered, Served
  <2>2. \/ UNCHANGED store
        \/ store' = [store EXCEPT !.phase = "error", !.request = None] /\ store.request = s
        \/ /\ store' = [store EXCEPT !.phase = IF store.shown THEN "ready" ELSE "idle",
                                     !.request = None, !.session = None, !.sequence = 0]
           /\ store.session = s
    BY <1>11 DEF StopAnswered, fail
  <2>4. \/ UNCHANGED store
        \/ /\ store'.session = store.session /\ store.request = s
           /\ store'.phase # "starting"
        \/ store'.session = None /\ store.session = s /\ store'.phase # "starting"
    BY <2>2 DEF WatchTypeOK, Store
  <2>3. UNCHANGED <<start, published, answered, disowned>>
    BY <1>11 DEF StopAnswered, serviceVars
  <2> QED
    BY <2>1, <2>4, <2>3, WatchAssumption DEF Claimed, Asking, Began, Ended
<1>12. ASSUME NEW s \in Sessions, PollAsks(s)
       PROVE  Claimed'
  BY <1>12 DEF PollAsks, serviceVars, Claimed, Asking, Began, Ended
<1>13. ASSUME NEW s \in Sessions, PollAnswered(s)
       PROVE  Claimed'
  <2>1. UNCHANGED store
        \/ (answer[s] # NoUpdate /\ answer[s] \in Update /\ applySessionUpdate(s, answer[s]))
    BY <1>13 DEF PollAnswered, WatchTypeOK
  <2>2. answer[s] # NoUpdate => Past(s, answer[s])
    BY DEF Heard, Polled
  <2>3. \/ UNCHANGED store
        \/ /\ store.request = s /\ store'.request = s
           /\ ~Ended(s) => store'.session = s
           /\ ~(store'.phase = "starting" /\ store'.session = None)
           /\ store.session \in {s, None}
    BY <2>1, <2>2, Applies DEF Past, WatchTypeOK
  <2>4. UNCHANGED <<start, published, answered, disowned>>
    BY <1>13 DEF PollAnswered, serviceVars
  <2> QED
    BY <2>3, <2>4, WatchAssumption DEF Claimed, Asking, Began, Ended
<1>14. ASSUME NEW s \in Sessions, Deliver(s)
       PROVE  Claimed'
  BY <1>14 DEF Deliver, Hand, Claimed, Asking, Began, Ended
<1>15. ASSUME NEW s \in Sessions, Refuse(s), UNCHANGED page
       PROVE  Claimed'
  BY <1>15 DEF Refuse, page, Claimed, Asking, Began, Ended
<1>16. ASSUME NEW s \in Sessions, StartFails(s), UNCHANGED page
       PROVE  Claimed'
  BY <1>16 DEF StartFails, page, Claimed, Asking, Began, Ended
<1>17. ASSUME NEW s \in Sessions, Forget(s), UNCHANGED page
       PROVE  Claimed'
  BY <1>17 DEF Forget, page, Claimed, Asking, Began, Ended
<1>18. ASSUME NEW s \in Sessions, Begin(s), UNCHANGED page
       PROVE  Claimed'
  BY <1>18 DEF Begin, page, Claimed, Asking, Began, Ended, Terminal, NoUpdate
<1>19. ASSUME NEW s \in Sessions, Accept(s), UNCHANGED page
       PROVE  Claimed'
  BY <1>19 DEF Accept, page, Claimed, Asking, Began, Ended
<1>20. ASSUME NEW s \in Sessions, Mark(s), UNCHANGED page
       PROVE  Claimed'
  BY <1>20 DEF Mark, page, Claimed, Asking, Began, Ended, Terminal
<1>21. ASSUME NEW s \in Sessions, NotFound(s), UNCHANGED page
       PROVE  Claimed'
  BY <1>21 DEF NotFound, page, Claimed, Asking, Began, Ended
<1>22. ASSUME NEW s \in Sessions, Stopped(s), UNCHANGED page
       PROVE  Claimed'
  BY <1>22 DEF Stopped, page, Claimed, Asking, Began, Ended
<1>23. ASSUME NEW s \in Sessions, NEW new \in Terminal \cup {"Live"}, Publish(s, new),
              UNCHANGED page
       PROVE  Claimed'
  BY <1>23 DEF Publish, page, Claimed, Asking, Began, Ended, Terminal
<1>24. ASSUME UNCHANGED watchVars
       PROVE  Claimed'
  BY <1>24 DEF watchVars, serviceVars, page, Claimed, Asking, Began, Ended
<1> QED
  BY <1>1, <1>2, <1>3, <1>4, <1>5, <1>6, <1>7, <1>8, <1>9, <1>10, <1>11, <1>12, <1>13, <1>14, <1>15,
      <1>16, <1>17, <1>18, <1>19, <1>20, <1>21, <1>22, <1>23, <1>24
  DEF WatchNext, UserSteps, PageSteps, PollSteps, ManagerSteps

\* Every answer, update and click leaves the page with the session it holds, with the one it asked
\* for, or with none.
LEMMA ViewStep ==
  ASSUME WatchTypeOK, [WatchNext]_watchVars
  PROVE  Advances
<1>1. store.sequence \in Nat
  BY DEF WatchTypeOK, Store
<1>2. ASSUME store'.session = store.session, store'.sequence = store.sequence
       PROVE  Advances
  BY <1>1, <1>2 DEF Advances
<1>3. ASSUME NEW s \in Sessions, NEW update \in Update, applySessionUpdate(s, update)
       PROVE  Advances
  <2>1. update.sequence \in Nat
    BY DEF Update
  <2>2. \/ UNCHANGED store
        \/ /\ store'.session \in {s, None} /\ store.request = s /\ store'.sequence = update.sequence
           /\ \/ store.session = s /\ store.sequence < update.sequence
              \/ store.session = None /\ store.phase = "starting"
    BY <1>3, Applies DEF WatchTypeOK
  <2> QED
    BY <1>1, <1>2, <2>1, <2>2 DEF Advances
<1>4. ASSUME Listen
       PROVE  Advances
  <2>1. /\ Head(events)[1] \in Sessions /\ Head(events)[2] \in Update
        /\ applySessionUpdate(Head(events)[1], Head(events)[2])
    BY <1>4 DEF Listen, WatchTypeOK
  <2> QED
    BY <1>3, <2>1
<1>5. ASSUME NEW s \in Sessions, StartAnswered(s)
       PROVE  Advances
  <2>1. [sequence |-> 0, state |-> "Starting"] \in Update
    BY DEF Update, State
  <2>2. CASE fail(s)
    BY <1>2, <2>2 DEF fail
  <2> QED
    BY <1>3, <1>5, <2>1, <2>2 DEF StartAnswered
<1>6. ASSUME NEW s \in Sessions, PollAnswered(s)
       PROVE  Advances
  BY <1>2, <1>3, <1>6 DEF PollAnswered, WatchTypeOK
<1>7. ASSUME LoadReplay
       PROVE  Advances
  BY <1>2, <1>7 DEF LoadReplay, Advances
<1>8. ASSUME RejectFile
       PROVE  Advances
  BY <1>2, <1>8 DEF RejectFile, reject
<1>9. ASSUME ExportFails
       PROVE  Advances
  BY <1>2, <1>9 DEF ExportFails, reject
<1>10. ASSUME Analyze
       PROVE  Advances
  BY <1>2, <1>10 DEF Analyze, Advances
<1>11. ASSUME Analyzed
       PROVE  Advances
  BY <1>2, <1>11 DEF Analyzed, fail, WatchTypeOK, Store
<1>12. ASSUME NEW s \in Sessions, StartLive(s)
       PROVE  Advances
  BY <1>2, <1>12 DEF StartLive, Advances
<1>13. ASSUME NEW s \in Sessions, StopLive(s)
       PROVE  Advances
  BY <1>2, <1>13 DEF StopLive
<1>14. ASSUME NEW s \in Sessions, StopAnswered(s)
       PROVE  Advances
  BY <1>2, <1>14 DEF StopAnswered, fail, WatchTypeOK, Store, Advances
<1>15. ASSUME UNCHANGED store
       PROVE  Advances
  BY <1>2, <1>15
<1> QED
  BY <1>4, <1>5, <1>6, <1>7, <1>8, <1>9, <1>10, <1>11, <1>12, <1>13, <1>14, <1>15
  DEF WatchNext, UserSteps, PageSteps, PollSteps, ManagerSteps, Pick, PollAsks, Deliver, watchVars,
      page

\* The first state has it.
LEMMA InvInit ==
  ASSUME WatchInit
  PROVE  WatchInv
<1> USE DEF WatchInit, ServiceInit, NoUpdate
<1>1. NoUpdate \in Update
  BY DEF Update, State
<1>2. WatchTypeOK
  <2>1. store \in Store
    BY DEF Store, Phase
  <2>2. events \in Seq(Sessions \X Update)
    OBVIOUS
  <2>3. store.phase = "idle" /\ mishaps \in 0..MaxMishap
    BY WatchAssumption
  <2>5. {picking, analyzing} \subseteq BOOLEAN
    BY Zenon
  <2>4. /\ published \in [Sessions -> Update] /\ emitted \in [Sessions -> Update]
        /\ answer \in [Sessions -> Update]
    BY <1>1
  <2> QED
    BY <2>1, <2>2, <2>3, <2>4, <2>5 DEF WatchTypeOK, Call
<1>3. Served /\ Heard /\ Claimed
  BY DEF Served, Heard, Sent, Polled, Shown, Claimed, Began
<1> QED
  BY <1>2, <1>3 DEF WatchInv

\* Every step keeps it.
LEMMA InvKept ==
  ASSUME WatchInv, [WatchNext]_watchVars
  PROVE  WatchInv'
  BY TypesKept, ServedKept, SentKept, PolledKept, ShownKept, ClaimedKept DEF WatchInv, Heard

\* Every reachable state has it.
THEOREM WatchInvariant == WatchSpec => []WatchInv
<1>1. WatchInit => WatchInv
  BY InvInit
<1>2. WatchInv /\ [WatchNext]_watchVars => WatchInv'
  BY InvKept
<1> QED
  BY <1>1, <1>2, PTL DEF WatchSpec

----------------------------------------------------------------------------
(* What follows *)

\* The types of the page and of the service it uses; a live or stopping page knows its session.
THEOREM WatchTypes == WatchSpec => []WatchTypeOK
<1>1. WatchInv => WatchTypeOK
  BY DEF WatchInv
<1> QED
  BY <1>1, WatchInvariant, PTL

\* The page holds the session that goes on once it has had the answer of its start, whatever updates
\* are late or lost, unless a file was loaded or refused over it.
THEOREM LiveKnown == WatchSpec => []LiveIsKnown
<1>1. WatchInv => LiveIsKnown
  BY WatchAssumption DEF WatchInv, Served, Claimed, LiveIsKnown
<1> QED
  BY <1>1, WatchInvariant, PTL

\* A start the page makes meets no session that goes on and that the page does not know, unless a
\* file was loaded or refused over one.
THEOREM NotRefused == WatchSpec => []StartIsNotRefused
<1>1. WatchInv => StartIsNotRefused
  <2> SUFFICES ASSUME WatchInv, NEW s \in Sessions, start[s] = "asked", published[s] = NoUpdate,
                      active # None, ~Ended(active), disowned = {}
               PROVE  FALSE
    BY DEF StartIsNotRefused
  <2>1. s \notin answered /\ ~Ended(s) /\ ~Began(s)
    BY DEF WatchInv, Claimed, Ended, Began, Terminal, NoUpdate
  <2>2. active \in Sessions /\ Began(active) /\ start[active] # "none"
    BY DEF WatchInv, WatchTypeOK, Served
  <2>3. store.request = s /\ store.session \in {s, None}
    BY <2>1 DEF WatchInv, Claimed, Asking
  <2>4. active = s
    BY <2>2, <2>3, WatchAssumption DEF WatchInv, Claimed
  <2> QED
    BY <2>1, <2>2, <2>4
<1> QED
  BY <1>1, WatchInvariant, PTL

\* No late answer and no late update brings back a session that has ended, runs ahead of the session
\* or takes a step back.
THEOREM ViewAdvances == WatchSpec => ViewOnlyAdvances
<1>1. ASSUME WatchInv, [WatchNext]_watchVars, NEW s \in Sessions, store'.session = s
       PROVE  /\ store'.sequence <= published'[s].sequence
              /\ store.session = s => store.sequence <= store'.sequence
              /\ store.session # s => store.phase = "starting" /\ store.request = s
  <2>1. Advances /\ Shown' /\ s # None
    BY <1>1, ViewStep, InvKept, WatchAssumption DEF WatchInv, Heard
  <2> QED
    BY <1>1, <2>1 DEF Advances, Shown
<1>2. WatchInv /\ [WatchNext]_watchVars =>
        [\A s \in Sessions : store'.session = s =>
           /\ store'.sequence <= published'[s].sequence
           /\ store.session = s => store.sequence <= store'.sequence
           /\ store.session # s => store.phase = "starting" /\ store.request = s]_watchVars
  BY <1>1
<1> QED
  BY <1>2, WatchInvariant, PTL DEF WatchSpec, ViewOnlyAdvances
=============================================================================
