------------------------ MODULE ExportSessionProofs ------------------------
(***************************************************************************)
(* The reservation of a destination, the cancellation that comes before    *)
(* the last check, and that ExportSession implements AtomicExport, for     *)
(* every set of exports and destinations, any number of chunks, and any    *)
(* number of failures and page loads.                                      *)
(***************************************************************************)
EXTENDS ExportSession, TLAPS

----------------------------------------------------------------------------
(* The inductive invariant *)

\* No two entries of the registry have the same destination, and a finalizer owns its entry, which
\* nobody else then takes out of the registry.
Held ==
  /\ \A e, f \in registry : DestOf[e] = DestOf[f] => e = f
  /\ \A e \in Exports : cmd[e] \in Finalizer => e \in finalizing

\* A chunk is sent only while chunks are left, and a close is posted at most once before the export
\* unwinds: for the abort.
Begun == {"idle", "dialog"} \cup Listening
Counted ==
  \A e \in Exports :
    /\ task[e] \in {"idle", "dialog", "create"} => sent[e] = 0
    /\ task[e] = "append" \/ cmd[e] \in {"find", "append"} => sent[e] < NChunks
    /\ task[e] \in Begun /\ e \notin aborted => closes[e] = 0

\* What was cancelled before the last check has its flag set, which the last check sees.
Vetoed ==
  /\ vetoed \subseteq cancel
  /\ \A e \in Exports : cmd[e] = "publish" => e \notin vetoed
  /\ published \cap vetoed = {}

\* The command the webview waits for is the one it posted, and a command is under way or unanswered
\* only while the export has no outcome.
CommandsOf(step) ==
  CASE step = "create"   -> {"insert", "ok", "err"}
    [] step = "append"   -> {"find", "append", "ok", "err"}
    [] step = "finalize" -> Finalizer \cup {"begin", "ok", "err"}
    [] step = "gone"     -> Step
    [] OTHER             -> {"none"}
Driven ==
  \A e \in Exports :
    /\ cmd[e] \in CommandsOf(task[e])
    /\ task[e] \in Begun \/ cmd[e] # "none" => outcome[e] = "none"

\* The file is in place exactly when the finalizer leaves with success, which the webview hears of as
\* the answer of its last command.
Placed ==
  \A e \in Exports :
    /\ e \in published => /\ cmd[e] \in {"exit_ok", "ok", "none"}
                          /\ task[e] \in {"finalize", "finish", "settled", "gone"}
    /\ cmd[e] = "exit_ok" => e \in published
    /\ task[e] = "finalize" /\ cmd[e] = "ok" => e \in published

ExportInv == TypeOK /\ Held /\ Counted /\ Vetoed /\ Driven /\ Placed

----------------------------------------------------------------------------
(* Every step keeps it *)

\* Every command, and every step of the webview and of the clock, keeps the types.
LEMMA TypeKept ==
  ASSUME TypeOK, Counted, [Next]_vars
  PROVE  TypeOK'
<1> USE ChunksAssumption, BoundsAssumption DEF TypeOK, Counted, Step, Finalizer, Reading, Task,
    Listening, SessionState, Outcome, Begun
<1>1. ASSUME Cancel
       PROVE  TypeOK'
  BY <1>1 DEF Cancel, Abort, native
<1>2. ASSUME Unmount
       PROVE  TypeOK'
  BY <1>2 DEF Unmount, Abort, native
<1>3. ASSUME Reload
       PROVE  TypeOK'
  BY <1>3 DEF Reload, native
<1>4. ASSUME NEW e \in Exports, Choose(e)
       PROVE  TypeOK'
  BY <1>4 DEF Choose, native
<1>5. ASSUME NEW e \in Exports, Dismiss(e)
       PROVE  TypeOK'
  BY <1>5 DEF Dismiss, native
<1>6. ASSUME NEW e \in Exports, Save(e)
       PROVE  TypeOK'
  BY <1>6 DEF Save, Post, To, native
<1>7. ASSUME NEW e \in Exports, NewFails(e)
       PROVE  TypeOK'
  BY <1>7 DEF NewFails, Fault, To, native, webview
<1>8. ASSUME NEW e \in Exports, Insert(e)
       PROVE  TypeOK'
  BY <1>8 DEF Insert, Prune, Stale, SetCancel, To, webview
<1>9. ASSUME NEW e \in Exports, FindSession(e)
       PROVE  TypeOK'
  BY <1>9 DEF FindSession, Prune, Stale, SetCancel, To, webview
<1>10. ASSUME NEW e \in Exports, AppendChunk(e)
       PROVE  TypeOK'
  BY <1>10 DEF AppendChunk, Fault, To, webview
<1>11. ASSUME NEW e \in Exports, BeginFinalize(e)
       PROVE  TypeOK'
  BY <1>11 DEF BeginFinalize, Prune, Stale, SetCancel, To, webview
<1>12. ASSUME NEW e \in Exports, Finalize(e)
       PROVE  TypeOK'
  BY <1>12 DEF Finalize, Fault, Leave, To, webview
<1>13. ASSUME NEW e \in Exports, NEW step \in Reading,
              NEW after \in {"stage", "validate", "check"}, Pass(e, step, after)
       PROVE  TypeOK'
  BY <1>13 DEF Pass, Fault, Leave, To, webview
<1>14. ASSUME NEW e \in Exports, Validate(e)
       PROVE  TypeOK'
  BY <1>14 DEF Validate, Fault, Leave, To, webview
<1>15. ASSUME NEW e \in Exports, LastCheck(e)
       PROVE  TypeOK'
  BY <1>15 DEF LastCheck, Leave, To, webview
<1>16. ASSUME NEW e \in Exports, Publish(e)
       PROVE  TypeOK'
  BY <1>16 DEF Publish, Fault, Leave, To, webview
<1>17. ASSUME NEW e \in Exports, Exit(e)
       PROVE  TypeOK'
  BY <1>17 DEF Exit, To, webview
<1>18. ASSUME NEW e \in Exports, Close(e)
       PROVE  TypeOK'
  BY <1>18 DEF Close, SetCancel
<1>19. ASSUME NEW e \in Exports, Created(e)
       PROVE  TypeOK'
  BY <1>19 DEF Created, Throw, Thrown, Post, To, native
<1>20. ASSUME NEW e \in Exports, Appended(e)
       PROVE  TypeOK'
  BY <1>20 DEF Appended, Throw, Thrown, Post, To, native
<1>21. ASSUME NEW e \in Exports, Finalized(e)
       PROVE  TypeOK'
  BY <1>21 DEF Finalized, Throw, Thrown, Post, To, native
<1>22. ASSUME NEW e \in Exports, Unwind(e)
       PROVE  TypeOK'
  BY <1>22 DEF Unwind, native
<1>23. ASSUME NEW e \in Exports, Settle(e)
       PROVE  TypeOK'
  BY <1>23 DEF Settle, native
<1>24. ASSUME NEW e \in Exports, TimePasses(e)
       PROVE  TypeOK'
  BY <1>24 DEF TimePasses, webview
<1>25. ASSUME NEW e \in Exports, Expire(e)
       PROVE  TypeOK'
  BY <1>25 DEF Expire, SetCancel, Stale, webview
<1>26. ASSUME UNCHANGED vars
       PROVE  TypeOK'
  BY <1>26 DEF vars, native, webview
<1> QED
  BY <1>1, <1>2, <1>3, <1>4, <1>5, <1>6, <1>7, <1>8, <1>9, <1>10, <1>11, <1>12, <1>13, <1>14, <1>15,
      <1>16, <1>17, <1>18, <1>19, <1>20, <1>21, <1>22, <1>23, <1>24, <1>25, <1>26
  DEF Next, User, System, Command, Driver, Clock, Decode, Stage, Revalidate, Reading

\* Nobody takes an entry from its finalizer, or reserves a destination twice.
LEMMA HeldKept ==
  ASSUME TypeOK, Held, [Next]_vars
  PROVE  Held'
<1> USE DEF TypeOK, Held, Finalizer, Reading, Admits
<1>1. ASSUME Cancel
       PROVE  Held'
  BY <1>1 DEF Cancel, native
<1>2. ASSUME Unmount
       PROVE  Held'
  BY <1>2 DEF Unmount, native
<1>3. ASSUME Reload
       PROVE  Held'
  BY <1>3 DEF Reload, native
<1>4. ASSUME NEW e \in Exports, Choose(e)
       PROVE  Held'
  BY <1>4 DEF Choose, native
<1>5. ASSUME NEW e \in Exports, Dismiss(e)
       PROVE  Held'
  BY <1>5 DEF Dismiss, native
<1>6. ASSUME NEW e \in Exports, Save(e)
       PROVE  Held'
  BY <1>6 DEF Save, Post, To, native
<1>7. ASSUME NEW e \in Exports, NewFails(e)
       PROVE  Held'
  BY <1>7 DEF NewFails, To, native
<1>8. ASSUME NEW e \in Exports, Insert(e)
       PROVE  Held'
  BY <1>8 DEF Insert, To
<1>9. ASSUME NEW e \in Exports, FindSession(e)
       PROVE  Held'
  BY <1>9 DEF FindSession, To
<1>10. ASSUME NEW e \in Exports, AppendChunk(e)
       PROVE  Held'
  BY <1>10 DEF AppendChunk, To
<1>11. ASSUME NEW e \in Exports, BeginFinalize(e)
       PROVE  Held'
  BY <1>11 DEF BeginFinalize, To
<1>12. ASSUME NEW e \in Exports, Finalize(e)
       PROVE  Held'
  BY <1>12 DEF Finalize, Leave, To
<1>13. ASSUME NEW e \in Exports, NEW step \in Reading,
              NEW after \in {"stage", "validate", "check"}, Pass(e, step, after)
       PROVE  Held'
  BY <1>13 DEF Pass, Leave, To
<1>14. ASSUME NEW e \in Exports, Validate(e)
       PROVE  Held'
  BY <1>14 DEF Validate, Leave, To
<1>15. ASSUME NEW e \in Exports, LastCheck(e)
       PROVE  Held'
  BY <1>15 DEF LastCheck, Leave, To
<1>16. ASSUME NEW e \in Exports, Publish(e)
       PROVE  Held'
  BY <1>16 DEF Publish, Leave, To
<1>17. ASSUME NEW e \in Exports, Exit(e)
       PROVE  Held'
  BY <1>17 DEF Exit, To
<1>18. ASSUME NEW e \in Exports, Close(e)
       PROVE  Held'
  BY <1>18 DEF Close
<1>19. ASSUME NEW e \in Exports, Created(e)
       PROVE  Held'
  BY <1>19 DEF Created, Throw, Post, To, native
<1>20. ASSUME NEW e \in Exports, Appended(e)
       PROVE  Held'
  BY <1>20 DEF Appended, Throw, Post, To, native
<1>21. ASSUME NEW e \in Exports, Finalized(e)
       PROVE  Held'
  BY <1>21 DEF Finalized, Throw, Post, To, native
<1>22. ASSUME NEW e \in Exports, Unwind(e)
       PROVE  Held'
  BY <1>22 DEF Unwind, native
<1>23. ASSUME NEW e \in Exports, Settle(e)
       PROVE  Held'
  BY <1>23 DEF Settle, native
<1>24. ASSUME NEW e \in Exports, TimePasses(e)
       PROVE  Held'
  BY <1>24 DEF TimePasses
<1>25. ASSUME NEW e \in Exports, Expire(e)
       PROVE  Held'
  BY <1>25 DEF Expire
<1>26. ASSUME UNCHANGED vars
       PROVE  Held'
  BY <1>26 DEF vars, native
<1> QED
  BY <1>1, <1>2, <1>3, <1>4, <1>5, <1>6, <1>7, <1>8, <1>9, <1>10, <1>11, <1>12, <1>13, <1>14, <1>15,
      <1>16, <1>17, <1>18, <1>19, <1>20, <1>21, <1>22, <1>23, <1>24, <1>25, <1>26
  DEF Next, User, System, Command, Driver, Clock, Decode, Stage, Revalidate, Reading

\* The webview counts its chunks, and posts a close once.
LEMMA CountedKept ==
  ASSUME TypeOK, Counted, [Next]_vars
  PROVE  Counted'
<1> USE ChunksAssumption DEF TypeOK, Counted, Listening, Begun
<1>1. ASSUME Cancel
       PROVE  Counted'
  BY <1>1 DEF Cancel, Abort
<1>2. ASSUME Unmount
       PROVE  Counted'
  BY <1>2 DEF Unmount, Abort
<1>3. ASSUME Reload
       PROVE  Counted'
  BY <1>3 DEF Reload
<1>4. ASSUME NEW e \in Exports, Choose(e)
       PROVE  Counted'
  BY <1>4 DEF Choose
<1>5. ASSUME NEW e \in Exports, Dismiss(e)
       PROVE  Counted'
  BY <1>5 DEF Dismiss
<1>6. ASSUME NEW e \in Exports, Save(e)
       PROVE  Counted'
  BY <1>6 DEF Save, Post, To
<1>7. ASSUME NEW e \in Exports, NewFails(e)
       PROVE  Counted'
  BY <1>7 DEF NewFails, To, webview
<1>8. ASSUME NEW e \in Exports, Insert(e)
       PROVE  Counted'
  BY <1>8 DEF Insert, To, webview
<1>9. ASSUME NEW e \in Exports, FindSession(e)
       PROVE  Counted'
  BY <1>9 DEF FindSession, To, webview
<1>10. ASSUME NEW e \in Exports, AppendChunk(e)
       PROVE  Counted'
  BY <1>10 DEF AppendChunk, To, webview
<1>11. ASSUME NEW e \in Exports, BeginFinalize(e)
       PROVE  Counted'
  BY <1>11 DEF BeginFinalize, To, webview
<1>12. ASSUME NEW e \in Exports, Finalize(e)
       PROVE  Counted'
  BY <1>12 DEF Finalize, Leave, To, webview
<1>13. ASSUME NEW e \in Exports, NEW step \in Reading,
              NEW after \in {"stage", "validate", "check"}, Pass(e, step, after)
       PROVE  Counted'
  BY <1>13 DEF Pass, Leave, To, webview
<1>14. ASSUME NEW e \in Exports, Validate(e)
       PROVE  Counted'
  BY <1>14 DEF Validate, Leave, To, webview
<1>15. ASSUME NEW e \in Exports, LastCheck(e)
       PROVE  Counted'
  BY <1>15 DEF LastCheck, Leave, To, webview
<1>16. ASSUME NEW e \in Exports, Publish(e)
       PROVE  Counted'
  BY <1>16 DEF Publish, Leave, To, webview
<1>17. ASSUME NEW e \in Exports, Exit(e)
       PROVE  Counted'
  BY <1>17 DEF Exit, To, webview
<1>18. ASSUME NEW e \in Exports, Close(e)
       PROVE  Counted'
  BY <1>18 DEF Close
<1>19. ASSUME NEW e \in Exports, Created(e)
       PROVE  Counted'
  BY <1>19 DEF Created, Throw, Post, To
<1>20. ASSUME NEW e \in Exports, Appended(e)
       PROVE  Counted'
  BY <1>20 DEF Appended, Throw, Post, To
<1>21. ASSUME NEW e \in Exports, Finalized(e)
       PROVE  Counted'
  BY <1>21 DEF Finalized, Throw, Post, To
<1>22. ASSUME NEW e \in Exports, Unwind(e)
       PROVE  Counted'
  BY <1>22 DEF Unwind
<1>23. ASSUME NEW e \in Exports, Settle(e)
       PROVE  Counted'
  BY <1>23 DEF Settle
<1>24. ASSUME NEW e \in Exports, TimePasses(e)
       PROVE  Counted'
  BY <1>24 DEF TimePasses, webview
<1>25. ASSUME NEW e \in Exports, Expire(e)
       PROVE  Counted'
  BY <1>25 DEF Expire, webview
<1>26. ASSUME UNCHANGED vars
       PROVE  Counted'
  BY <1>26 DEF vars, webview
<1> QED
  BY <1>1, <1>2, <1>3, <1>4, <1>5, <1>6, <1>7, <1>8, <1>9, <1>10, <1>11, <1>12, <1>13, <1>14, <1>15,
      <1>16, <1>17, <1>18, <1>19, <1>20, <1>21, <1>22, <1>23, <1>24, <1>25, <1>26
  DEF Next, User, System, Command, Driver, Clock, Decode, Stage, Revalidate, Reading

\* A flag that is set stays set, and the last check sees it.
LEMMA VetoedKept ==
  ASSUME TypeOK, Vetoed, [Next]_vars
  PROVE  Vetoed'
<1> USE DEF TypeOK, Vetoed
<1>1. ASSUME Cancel
       PROVE  Vetoed'
  BY <1>1 DEF Cancel, native
<1>2. ASSUME Unmount
       PROVE  Vetoed'
  BY <1>2 DEF Unmount, native
<1>3. ASSUME Reload
       PROVE  Vetoed'
  BY <1>3 DEF Reload, native
<1>4. ASSUME NEW e \in Exports, Choose(e)
       PROVE  Vetoed'
  BY <1>4 DEF Choose, native
<1>5. ASSUME NEW e \in Exports, Dismiss(e)
       PROVE  Vetoed'
  BY <1>5 DEF Dismiss, native
<1>6. ASSUME NEW e \in Exports, Save(e)
       PROVE  Vetoed'
  BY <1>6 DEF Save, Post, To, native
<1>7. ASSUME NEW e \in Exports, NewFails(e)
       PROVE  Vetoed'
  BY <1>7 DEF NewFails, To, native
<1>8. ASSUME NEW e \in Exports, Insert(e)
       PROVE  Vetoed'
  BY <1>8 DEF Insert, Prune, SetCancel, To
<1>9. ASSUME NEW e \in Exports, FindSession(e)
       PROVE  Vetoed'
  BY <1>9 DEF FindSession, Prune, SetCancel, To
<1>10. ASSUME NEW e \in Exports, AppendChunk(e)
       PROVE  Vetoed'
  BY <1>10 DEF AppendChunk, To
<1>11. ASSUME NEW e \in Exports, BeginFinalize(e)
       PROVE  Vetoed'
  BY <1>11 DEF BeginFinalize, Prune, SetCancel, To
<1>12. ASSUME NEW e \in Exports, Finalize(e)
       PROVE  Vetoed'
  BY <1>12 DEF Finalize, Leave, To
<1>13. ASSUME NEW e \in Exports, NEW step \in Reading,
              NEW after \in {"stage", "validate", "check"}, Pass(e, step, after)
       PROVE  Vetoed'
  BY <1>13 DEF Pass, Leave, To
<1>14. ASSUME NEW e \in Exports, Validate(e)
       PROVE  Vetoed'
  BY <1>14 DEF Validate, Leave, To
<1>15. ASSUME NEW e \in Exports, LastCheck(e)
       PROVE  Vetoed'
  BY <1>15 DEF LastCheck, Leave, To
<1>16. ASSUME NEW e \in Exports, Publish(e)
       PROVE  Vetoed'
  BY <1>16 DEF Publish, Leave, To
<1>17. ASSUME NEW e \in Exports, Exit(e)
       PROVE  Vetoed'
  BY <1>17 DEF Exit, To
<1>18. ASSUME NEW e \in Exports, Close(e)
       PROVE  Vetoed'
  BY <1>18 DEF Close, SetCancel
<1>19. ASSUME NEW e \in Exports, Created(e)
       PROVE  Vetoed'
  BY <1>19 DEF Created, Throw, Post, To, native
<1>20. ASSUME NEW e \in Exports, Appended(e)
       PROVE  Vetoed'
  BY <1>20 DEF Appended, Throw, Post, To, native
<1>21. ASSUME NEW e \in Exports, Finalized(e)
       PROVE  Vetoed'
  BY <1>21 DEF Finalized, Throw, Post, To, native
<1>22. ASSUME NEW e \in Exports, Unwind(e)
       PROVE  Vetoed'
  BY <1>22 DEF Unwind, native
<1>23. ASSUME NEW e \in Exports, Settle(e)
       PROVE  Vetoed'
  BY <1>23 DEF Settle, native
<1>24. ASSUME NEW e \in Exports, TimePasses(e)
       PROVE  Vetoed'
  BY <1>24 DEF TimePasses
<1>25. ASSUME NEW e \in Exports, Expire(e)
       PROVE  Vetoed'
  BY <1>25 DEF Expire, SetCancel
<1>26. ASSUME UNCHANGED vars
       PROVE  Vetoed'
  BY <1>26 DEF vars, native
<1> QED
  BY <1>1, <1>2, <1>3, <1>4, <1>5, <1>6, <1>7, <1>8, <1>9, <1>10, <1>11, <1>12, <1>13, <1>14, <1>15,
      <1>16, <1>17, <1>18, <1>19, <1>20, <1>21, <1>22, <1>23, <1>24, <1>25, <1>26
  DEF Next, User, System, Command, Driver, Clock, Decode, Stage, Revalidate, Reading

\* The webview posts one command at a time, and none after the outcome.
LEMMA DrivenKept ==
  ASSUME TypeOK, Driven, [Next]_vars
  PROVE  Driven'
<1> USE DEF TypeOK, Driven, CommandsOf, Step, Finalizer, Reading, Begun, Listening
<1>1. ASSUME Cancel
       PROVE  Driven'
  BY <1>1 DEF Cancel
<1>2. ASSUME Unmount
       PROVE  Driven'
  BY <1>2 DEF Unmount
<1>3. ASSUME Reload
       PROVE  Driven'
  BY <1>3 DEF Reload
<1>4. ASSUME NEW e \in Exports, Choose(e)
       PROVE  Driven'
  BY <1>4 DEF Choose
<1>5. ASSUME NEW e \in Exports, Dismiss(e)
       PROVE  Driven'
  BY <1>5 DEF Dismiss
<1>6. ASSUME NEW e \in Exports, Save(e)
       PROVE  Driven'
  BY <1>6 DEF Save, Post, To
<1>7. ASSUME NEW e \in Exports, NewFails(e)
       PROVE  Driven'
  BY <1>7 DEF NewFails, To, webview
<1>8. ASSUME NEW e \in Exports, Insert(e)
       PROVE  Driven'
  BY <1>8 DEF Insert, To, webview
<1>9. ASSUME NEW e \in Exports, FindSession(e)
       PROVE  Driven'
  BY <1>9 DEF FindSession, To, webview
<1>10. ASSUME NEW e \in Exports, AppendChunk(e)
       PROVE  Driven'
  BY <1>10 DEF AppendChunk, To, webview
<1>11. ASSUME NEW e \in Exports, BeginFinalize(e)
       PROVE  Driven'
  BY <1>11 DEF BeginFinalize, To, webview
<1>12. ASSUME NEW e \in Exports, Finalize(e)
       PROVE  Driven'
  BY <1>12 DEF Finalize, Leave, To, webview
<1>13. ASSUME NEW e \in Exports, NEW step \in Reading,
              NEW after \in {"stage", "validate", "check"}, Pass(e, step, after)
       PROVE  Driven'
  BY <1>13 DEF Pass, Leave, To, webview
<1>14. ASSUME NEW e \in Exports, Validate(e)
       PROVE  Driven'
  BY <1>14 DEF Validate, Leave, To, webview
<1>15. ASSUME NEW e \in Exports, LastCheck(e)
       PROVE  Driven'
  BY <1>15 DEF LastCheck, Leave, To, webview
<1>16. ASSUME NEW e \in Exports, Publish(e)
       PROVE  Driven'
  BY <1>16 DEF Publish, Leave, To, webview
<1>17. ASSUME NEW e \in Exports, Exit(e)
       PROVE  Driven'
  BY <1>17 DEF Exit, To, webview
<1>18. ASSUME NEW e \in Exports, Close(e)
       PROVE  Driven'
  BY <1>18 DEF Close
<1>19. ASSUME NEW e \in Exports, Created(e)
       PROVE  Driven'
  BY <1>19 DEF Created, Throw, Post, To
<1>20. ASSUME NEW e \in Exports, Appended(e)
       PROVE  Driven'
  BY <1>20 DEF Appended, Throw, Post, To
<1>21. ASSUME NEW e \in Exports, Finalized(e)
       PROVE  Driven'
  BY <1>21 DEF Finalized, Throw, Post, To
<1>22. ASSUME NEW e \in Exports, Unwind(e)
       PROVE  Driven'
  BY <1>22 DEF Unwind
<1>23. ASSUME NEW e \in Exports, Settle(e)
       PROVE  Driven'
  BY <1>23 DEF Settle
<1>24. ASSUME NEW e \in Exports, TimePasses(e)
       PROVE  Driven'
  BY <1>24 DEF TimePasses, webview
<1>25. ASSUME NEW e \in Exports, Expire(e)
       PROVE  Driven'
  BY <1>25 DEF Expire, webview
<1>26. ASSUME UNCHANGED vars
       PROVE  Driven'
  BY <1>26 DEF vars, webview
<1> QED
  BY <1>1, <1>2, <1>3, <1>4, <1>5, <1>6, <1>7, <1>8, <1>9, <1>10, <1>11, <1>12, <1>13, <1>14, <1>15,
      <1>16, <1>17, <1>18, <1>19, <1>20, <1>21, <1>22, <1>23, <1>24, <1>25, <1>26
  DEF Next, User, System, Command, Driver, Clock, Decode, Stage, Revalidate, Reading

\* The answer of the last command says whether the file is in place.
LEMMA PlacedKept ==
  ASSUME TypeOK, Driven, Placed, [Next]_vars
  PROVE  Placed'
<1> USE DEF TypeOK, Driven, CommandsOf, Placed, Finalizer, Reading
<1>1. ASSUME Cancel
       PROVE  Placed'
  BY <1>1 DEF Cancel, native
<1>2. ASSUME Unmount
       PROVE  Placed'
  BY <1>2 DEF Unmount, native
<1>3. ASSUME Reload
       PROVE  Placed'
  BY <1>3 DEF Reload, native
<1>4. ASSUME NEW e \in Exports, Choose(e)
       PROVE  Placed'
  BY <1>4 DEF Choose, native
<1>5. ASSUME NEW e \in Exports, Dismiss(e)
       PROVE  Placed'
  BY <1>5 DEF Dismiss, native
<1>6. ASSUME NEW e \in Exports, Save(e)
       PROVE  Placed'
  BY <1>6 DEF Save, Post, To, native
<1>7. ASSUME NEW e \in Exports, NewFails(e)
       PROVE  Placed'
  BY <1>7 DEF NewFails, To, native, webview
<1>8. ASSUME NEW e \in Exports, Insert(e)
       PROVE  Placed'
  BY <1>8 DEF Insert, To, webview
<1>9. ASSUME NEW e \in Exports, FindSession(e)
       PROVE  Placed'
  BY <1>9 DEF FindSession, To, webview
<1>10. ASSUME NEW e \in Exports, AppendChunk(e)
       PROVE  Placed'
  BY <1>10 DEF AppendChunk, To, webview
<1>11. ASSUME NEW e \in Exports, BeginFinalize(e)
       PROVE  Placed'
  BY <1>11 DEF BeginFinalize, To, webview
<1>12. ASSUME NEW e \in Exports, Finalize(e)
       PROVE  Placed'
  BY <1>12 DEF Finalize, Leave, To, webview
<1>13. ASSUME NEW e \in Exports, NEW step \in Reading,
              NEW after \in {"stage", "validate", "check"}, Pass(e, step, after)
       PROVE  Placed'
  BY <1>13 DEF Pass, Leave, To, webview
<1>14. ASSUME NEW e \in Exports, Validate(e)
       PROVE  Placed'
  BY <1>14 DEF Validate, Leave, To, webview
<1>15. ASSUME NEW e \in Exports, LastCheck(e)
       PROVE  Placed'
  BY <1>15 DEF LastCheck, Leave, To, webview
<1>16. ASSUME NEW e \in Exports, Publish(e)
       PROVE  Placed'
  BY <1>16 DEF Publish, Leave, To, webview
<1>17. ASSUME NEW e \in Exports, Exit(e)
       PROVE  Placed'
  BY <1>17 DEF Exit, To, webview
<1>18. ASSUME NEW e \in Exports, Close(e)
       PROVE  Placed'
  BY <1>18 DEF Close
<1>19. ASSUME NEW e \in Exports, Created(e)
       PROVE  Placed'
  BY <1>19 DEF Created, Throw, Post, To, native
<1>20. ASSUME NEW e \in Exports, Appended(e)
       PROVE  Placed'
  BY <1>20 DEF Appended, Throw, Post, To, native
<1>21. ASSUME NEW e \in Exports, Finalized(e)
       PROVE  Placed'
  BY <1>21 DEF Finalized, Throw, Post, To, native
<1>22. ASSUME NEW e \in Exports, Unwind(e)
       PROVE  Placed'
  BY <1>22 DEF Unwind, native
<1>23. ASSUME NEW e \in Exports, Settle(e)
       PROVE  Placed'
  BY <1>23 DEF Settle, native
<1>24. ASSUME NEW e \in Exports, TimePasses(e)
       PROVE  Placed'
  BY <1>24 DEF TimePasses, webview
<1>25. ASSUME NEW e \in Exports, Expire(e)
       PROVE  Placed'
  BY <1>25 DEF Expire, webview
<1>26. ASSUME UNCHANGED vars
       PROVE  Placed'
  BY <1>26 DEF vars, native, webview
<1> QED
  BY <1>1, <1>2, <1>3, <1>4, <1>5, <1>6, <1>7, <1>8, <1>9, <1>10, <1>11, <1>12, <1>13, <1>14, <1>15,
      <1>16, <1>17, <1>18, <1>19, <1>20, <1>21, <1>22, <1>23, <1>24, <1>25, <1>26
  DEF Next, User, System, Command, Driver, Clock, Decode, Stage, Revalidate, Reading

\* The first state has it.
LEMMA InvInit ==
  ASSUME Init
  PROVE  ExportInv
  BY ChunksAssumption, BoundsAssumption
  DEF Init, ExportInv, TypeOK, Held, Counted, Vetoed, Driven, Placed, CommandsOf, Begun,
    SessionState, Finalizer, Reading, Step, Listening, Task, Outcome

\* Every step keeps it.
LEMMA InvKept ==
  ASSUME ExportInv, [Next]_vars
  PROVE  ExportInv'
  BY TypeKept, HeldKept, CountedKept, VetoedKept, DrivenKept, PlacedKept DEF ExportInv

\* Every reachable state has it.
THEOREM ExportInvariant == Spec => []ExportInv
<1>1. Init => ExportInv
  BY InvInit
<1>2. ExportInv /\ [Next]_vars => ExportInv'
  BY InvKept
<1> QED
  BY <1>1, <1>2, PTL DEF Spec

----------------------------------------------------------------------------
(* What follows *)

\* A finalizer keeps its entry, and its destination to itself, until it exits, whatever cancels,
\* expiries, prunes and admissions happen meanwhile: insert_export_session and the retain of
\* prune_stale_export_sessions, for every number of sessions.
THEOREM Exclusive == Spec => []DestinationIsExclusive
<1>1. ExportInv => DestinationIsExclusive
  BY DEF ExportInv, Held, TypeOK, DestinationIsExclusive
<1> QED
  BY <1>1, ExportInvariant, PTL

\* A cancel, an expiry or a prune before the last look of finalize_inner at the flag leaves the
\* destination as it was.
THEOREM LateCancel == Spec => []LateCancelIsHonoured
<1>1. ExportInv => LateCancelIsHonoured
  BY DEF ExportInv, Vetoed, LateCancelIsHonoured
<1> QED
  BY <1>1, ExportInvariant, PTL

----------------------------------------------------------------------------
(* ExportSession implements AtomicExport *)

\* AtomicExport counts the holders of a destination as ExportSession does.
LEMMA SameCount == \A S : Atomic!Cardinality(S) = Cardinality(S)
  BY DEF Cardinality, Atomic!Cardinality

\* Each step of a command, of the webview or of the clock is one of the promised steps, or does
\* not touch what is promised: insert_export_session reserves, replace_destination publishes, and
\* the catch and return of streamEventLogExport report.
LEMMA StepImplements ==
  ASSUME ExportInv, [Next]_vars
  PROVE  [Atomic!AtomicNext]_Atomic!avars
<1>1. ASSUME Cancel
       PROVE  UNCHANGED Atomic!avars
  BY <1>1 DEF Cancel, native, Atomic!avars
<1>2. ASSUME Unmount
       PROVE  UNCHANGED Atomic!avars
  BY <1>2 DEF Unmount, native, Atomic!avars
<1>3. ASSUME Reload
       PROVE  UNCHANGED Atomic!avars
  BY <1>3 DEF Reload, native, Atomic!avars
<1>4. ASSUME NEW e \in Exports, Choose(e)
       PROVE  UNCHANGED Atomic!avars
  BY <1>4 DEF Choose, native, Atomic!avars
<1>5. ASSUME NEW e \in Exports, Dismiss(e)
       PROVE  UNCHANGED Atomic!avars
  BY <1>5 DEF Dismiss, native, Atomic!avars
<1>6. ASSUME NEW e \in Exports, Save(e)
       PROVE  UNCHANGED Atomic!avars
  BY <1>6 DEF Save, native, Atomic!avars
<1>7. ASSUME NEW e \in Exports, NewFails(e)
       PROVE  UNCHANGED Atomic!avars
  BY <1>7 DEF NewFails, native, webview, Atomic!avars
<1>8. ASSUME NEW e \in Exports, Insert(e)
       PROVE  Atomic!Reserve(e) \/ Atomic!Release
  <2>1. outcome[e] = "none" /\ e \notin published
    BY <1>8 DEF Insert, ExportInv, Driven, Placed
  <2>2. CASE registry' = registry \ Stale
    BY <1>8, <2>2 DEF Insert, Atomic!Release, webview
  <2>3. CASE Admits(registry \ Stale, e) /\ registry' = (registry \ Stale) \cup {e}
    <3>1. registry \ Stale \in SUBSET registry /\ Atomic!Admits(registry \ Stale, e)
      BY <2>3, SameCount DEF Admits, Atomic!Admits
    <3>2. UNCHANGED <<published, outcome>>
      BY <1>8 DEF Insert, webview
    <3> QED
      BY <2>1, <2>3, <3>1, <3>2 DEF Atomic!Reserve
  <2> QED
    BY <1>8, <2>2, <2>3 DEF Insert
<1>9. ASSUME NEW e \in Exports, FindSession(e)
       PROVE  Atomic!Release
  BY <1>9 DEF FindSession, webview, Atomic!Release
<1>10. ASSUME NEW e \in Exports, AppendChunk(e)
       PROVE  UNCHANGED Atomic!avars
  BY <1>10 DEF AppendChunk, webview, Atomic!avars
<1>11. ASSUME NEW e \in Exports, BeginFinalize(e)
       PROVE  Atomic!Release
  BY <1>11 DEF BeginFinalize, webview, Atomic!Release
<1>12. ASSUME NEW e \in Exports, Finalize(e)
       PROVE  UNCHANGED Atomic!avars
  BY <1>12 DEF Finalize, webview, Atomic!avars
<1>13. ASSUME NEW e \in Exports, NEW step \in Reading,
              NEW after \in {"stage", "validate", "check"}, Pass(e, step, after)
       PROVE  UNCHANGED Atomic!avars
  BY <1>13 DEF Pass, webview, Atomic!avars
<1>14. ASSUME NEW e \in Exports, Validate(e)
       PROVE  UNCHANGED Atomic!avars
  BY <1>14 DEF Validate, webview, Atomic!avars
<1>15. ASSUME NEW e \in Exports, LastCheck(e)
       PROVE  UNCHANGED Atomic!avars
  BY <1>15 DEF LastCheck, webview, Atomic!avars
<1>16. ASSUME NEW e \in Exports, Publish(e)
       PROVE  Atomic!Publish(e) \/ UNCHANGED Atomic!avars
  <2>1. e \in registry \ published /\ outcome[e] = "none"
    BY <1>16 DEF Publish, ExportInv, TypeOK, Held, Driven, Placed, Finalizer
  <2> QED
    BY <1>16, <2>1 DEF Publish, Atomic!Publish, webview, Atomic!avars
<1>17. ASSUME NEW e \in Exports, Exit(e)
       PROVE  Atomic!Release
  BY <1>17 DEF Exit, webview, Atomic!Release
<1>18. ASSUME NEW e \in Exports, Close(e)
       PROVE  Atomic!Release
  BY <1>18 DEF Close, Atomic!Release
<1>19. ASSUME NEW e \in Exports, Created(e)
       PROVE  Atomic!Report(e) \/ UNCHANGED Atomic!avars
  <2>1. outcome[e] = "none" /\ e \notin published
    BY <1>19 DEF Created, ExportInv, Driven, Placed
  <2>2. Thrown(e) \in Atomic!Outcome \ {"none", "saved"}
    BY DEF Thrown, Atomic!Outcome
  <2> QED
    BY <1>19, <2>1, <2>2 DEF Created, Throw, Atomic!Report, native, Atomic!avars
<1>20. ASSUME NEW e \in Exports, Appended(e)
       PROVE  Atomic!Report(e) \/ UNCHANGED Atomic!avars
  <2>1. outcome[e] = "none" /\ e \notin published
    BY <1>20 DEF Appended, ExportInv, Driven, Placed
  <2>2. Thrown(e) \in Atomic!Outcome \ {"none", "saved"}
    BY DEF Thrown, Atomic!Outcome
  <2> QED
    BY <1>20, <2>1, <2>2 DEF Appended, Throw, Atomic!Report, native, Atomic!avars
<1>21. ASSUME NEW e \in Exports, Finalized(e)
       PROVE  Atomic!Report(e)
  <2>1. /\ outcome[e] = "none"
        /\ cmd[e] = "ok" => e \in published
        /\ cmd[e] = "err" => e \notin published
    BY <1>21 DEF Finalized, ExportInv, Driven, Placed
  <2>2. Thrown(e) \in Atomic!Outcome \ {"none", "saved"} /\ "saved" \in Atomic!Outcome \ {"none"}
    BY DEF Thrown, Atomic!Outcome
  <2> QED
    BY <1>21, <2>1, <2>2 DEF Finalized, Throw, Atomic!Report, native
<1>22. ASSUME NEW e \in Exports, Unwind(e)
       PROVE  UNCHANGED Atomic!avars
  BY <1>22 DEF Unwind, native, Atomic!avars
<1>23. ASSUME NEW e \in Exports, Settle(e)
       PROVE  UNCHANGED Atomic!avars
  BY <1>23 DEF Settle, native, Atomic!avars
<1>24. ASSUME NEW e \in Exports, TimePasses(e)
       PROVE  UNCHANGED Atomic!avars
  BY <1>24 DEF TimePasses, webview, Atomic!avars
<1>25. ASSUME NEW e \in Exports, Expire(e)
       PROVE  Atomic!Release
  BY <1>25 DEF Expire, webview, Atomic!Release
<1>26. ASSUME UNCHANGED vars
       PROVE  UNCHANGED Atomic!avars
  BY <1>26 DEF vars, native, webview, Atomic!avars
<1> QED
  BY <1>1, <1>2, <1>3, <1>4, <1>5, <1>6, <1>7, <1>8, <1>9, <1>10, <1>11, <1>12, <1>13, <1>14, <1>15,
      <1>16, <1>17, <1>18, <1>19, <1>20, <1>21, <1>22, <1>23, <1>24, <1>25, <1>26
  DEF Next, User, System, Command, Driver, Clock, Decode, Stage, Revalidate, Reading,
      Atomic!AtomicNext

\* The native sessions, their commands and the page implement exports that appear whole, at most
\* once, behind an exclusive reservation, and that the bar reports truthfully.
THEOREM Implements == Spec => AtomicExportSpec
<1>1. Init => Atomic!AtomicInit
  BY DEF Init, Atomic!AtomicInit
<1>2. ExportInv /\ [Next]_vars => [Atomic!AtomicNext]_Atomic!avars
  BY StepImplements
<1> QED
  BY <1>1, <1>2, ExportInvariant, PTL DEF Spec, AtomicExportSpec, Atomic!AtomicSpec
=============================================================================
