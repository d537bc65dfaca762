---------------------------- MODULE ExportSession ----------------------------
(***************************************************************************)
(* Event-log exports: the native sessions that spool the records the       *)
(* webview streams and then replace the destination                        *)
(* (src-tauri/src/event_log/export_session.rs, writer.rs), the webview     *)
(* task that drives one (event-export-session.ts) and the export bar that  *)
(* starts and cancels it (EvtxFilterBar.tsx).                              *)
(*                                                                         *)
(* A native command runs step by step between its locks and file passes;   *)
(* closing is one step.  The records of an export are NChunks chunks.      *)
(***************************************************************************)
EXTENDS Naturals, FiniteSets

CONSTANTS Exports,      \* the exports the user asks for
          Destinations, \* the files they may replace
          DestOf,       \* the destination each export asks for
          MaxSessions,  \* MAX_EXPORT_SESSIONS
          NChunks,      \* chunks of an export
          MaxFault,     \* file operations that fail
          MaxReload,    \* times the page is loaded again
          None          \* no export

ASSUME DestAssumption == DestOf \in [Exports -> Destinations]
ASSUME SessionsAssumption == MaxSessions \in Nat \ {0}
ASSUME ChunksAssumption == NChunks \in Nat \ {0}
ASSUME BoundsAssumption == MaxFault \in Nat /\ MaxReload \in Nat
ASSUME NoneAssumption == None \notin Exports

VARIABLES
  registry,   \* the exports with an entry in the session registry
  finalizing, \* the entries a finalizer owns
  idle,       \* the entries not used for EXPORT_SESSION_IDLE_TTL
  cancel,     \* the exports whose cancel flag is set
  state,      \* the session's state
  next,       \* the session's next_sequence
  cmd,        \* the step of the export's command under way, or its answer
  published,  \* the exports whose file replaced the destination
  task,       \* the step of the webview's export
  sent,       \* the webview's nextSequence
  closes,     \* close commands posted and not handled
  aborted,    \* the exports whose signal is aborted
  outcome,    \* how the webview's export ended
  bar,        \* the export of the export bar in view
  faults,     \* failures left
  reloads,    \* page loads left
  vetoed      \* history: the exports cancelled before the last check

native == <<registry, finalizing, idle, cancel, state, next, published, vetoed>>
webview == <<task, sent, closes, aborted, outcome, bar, reloads>>
vars == <<native, webview, cmd, faults>>

----------------------------------------------------------------------------
(* Types *)

SessionState == {"Receiving", "Finalizing", "Terminal"}

\* The passes that read the spool through a CancelReader.
Reading == {"decode", "stage", "revalidate"}

\* The steps of a finalizer, from begin_finalize_session to the removal of its entry.
Finalizer == Reading \cup {"finalize", "validate", "check", "publish", "exit_ok", "exit_err"}
Step == Finalizer \cup {"none", "insert", "find", "append", "begin", "ok", "err"}

\* The steps in which the webview listens for an abort.
Listening == {"create", "append", "finalize"}
Task == Listening \cup {"idle", "dialog", "unwind", "closing", "finish", "settled", "gone"}
Outcome == {"none", "saved", "cancelled", "failed"}

TypeOK ==
  /\ registry \subseteq Exports /\ finalizing \subseteq registry /\ idle \subseteq registry
  /\ cancel \subseteq Exports /\ published \subseteq Exports /\ aborted \subseteq Exports
  /\ vetoed \subseteq Exports
  /\ state \in [Exports -> SessionState]
  /\ next \in [Exports -> 0..NChunks] /\ sent \in [Exports -> 0..NChunks]
  /\ cmd \in [Exports -> Step]
  /\ task \in [Exports -> Task]
  /\ closes \in [Exports -> 0..1]
  /\ outcome \in [Exports -> Outcome]
  /\ bar \in Exports \cup {None}
  /\ faults \in 0..MaxFault /\ reloads \in 0..MaxReload

Init ==
  /\ registry = {} /\ finalizing = {} /\ idle = {} /\ cancel = {}
  /\ published = {} /\ aborted = {} /\ vetoed = {}
  /\ state = [e \in Exports |-> "Receiving"]
  /\ next = [e \in Exports |-> 0] /\ sent = [e \in Exports |-> 0]
  /\ cmd = [e \in Exports |-> "none"]
  /\ task = [e \in Exports |-> "idle"]
  /\ closes = [e \in Exports |-> 0]
  /\ outcome = [e \in Exports |-> "none"]
  /\ bar = None
  /\ faults = MaxFault /\ reloads = MaxReload

----------------------------------------------------------------------------
(* The session registry *)

To(e, step) == cmd' = [cmd EXCEPT ![e] = step]

\* A file operation of this command fails.
Fault == faults > 0 /\ faults' = faults - 1

\* Sets cancel flags.
SetCancel(es) ==
  /\ cancel' = cancel \cup es
  /\ vetoed' = vetoed \cup {e \in es \ published : cmd[e] # "publish"}

\* Mutant: an entry is pruned or expired whoever owns it.
Stale_owned == idle

Stale == idle \ finalizing

\* prune_stale_export_sessions cancels the stale entries, which the caller drops from the registry;
\* the entries in `used' are used now.
Prune(used) ==
  /\ SetCancel(Stale)
  /\ idle' = (idle \ Stale) \ used

\* Mutant: the destination is not compared.
Admits_any(holders, e) == Cardinality(holders) < MaxSessions

Admits(holders, e) ==
  /\ Cardinality(holders) < MaxSessions
  /\ \A f \in holders : DestOf[f] # DestOf[e]

\* EventLogExportSession::new refuses the destination or cannot create the spool.
NewFails(e) ==
  /\ cmd[e] = "insert"
  /\ Fault
  /\ To(e, "err")
  /\ UNCHANGED <<native, webview>>

\* insert_export_session, and the expiry task started under the same lock.
Insert(e) ==
  /\ cmd[e] = "insert"
  /\ Prune({})
  /\ \/ /\ Admits(registry \ Stale, e)
        /\ registry' = (registry \ Stale) \cup {e}
        /\ To(e, "ok")
     \/ /\ ~Admits(registry \ Stale, e)
        /\ registry' = registry \ Stale
        /\ To(e, "err")
  /\ UNCHANGED <<finalizing, state, next, published, webview, faults>>

\* find_session, which finds the session or not and refreshes the time of its last use.
FindSession(e) ==
  /\ cmd[e] = "find"
  /\ Prune({e})
  /\ registry' = registry \ Stale
  /\ To(e, IF e \in registry' THEN "append" ELSE "err")
  /\ UNCHANGED <<finalizing, state, next, published, webview, faults>>

\* append_chunk, on a blocking thread, under the session's lock.
AppendChunk(e) ==
  /\ cmd[e] = "append"
  /\ \/ /\ state[e] # "Receiving" \/ e \in cancel \/ sent[e] # next[e]
        /\ To(e, "err")
        /\ UNCHANGED <<state, next, faults>>
     \/ /\ state[e] = "Receiving" /\ e \notin cancel /\ sent[e] = next[e]
        /\ \/ /\ next' = [next EXCEPT ![e] = @ + 1]
              /\ To(e, "ok")
              /\ UNCHANGED <<state, faults>>
           \/ /\ Fault
              /\ state' = [state EXCEPT ![e] = "Terminal"]
              /\ To(e, "err")
              /\ UNCHANGED next
  /\ UNCHANGED <<registry, finalizing, idle, cancel, published, vetoed, webview>>

\* begin_finalize_session: from here on the finalizer owns the entry.
BeginFinalize(e) ==
  /\ cmd[e] = "begin"
  /\ Prune({e})
  /\ registry' = registry \ Stale
  /\ \/ /\ e \in registry' \ finalizing
        /\ finalizing' = finalizing \cup {e}
        /\ To(e, "finalize")
     \/ /\ e \notin registry' \ finalizing
        /\ To(e, "err")
        /\ UNCHANGED finalizing
  /\ UNCHANGED <<state, next, published, webview, faults>>

\* cancel_export_session, for a posted evtx_close_export_session.
Close(e) ==
  /\ closes[e] > 0
  /\ closes' = [closes EXCEPT ![e] = @ - 1]
  /\ SetCancel({e} \cap registry)
  /\ registry' = IF e \in finalizing THEN registry ELSE registry \ {e}
  /\ idle' = idle \cap registry'
  /\ UNCHANGED <<finalizing, state, next, published, cmd, task, sent, aborted, outcome, bar,
                 faults, reloads>>

\* An entry is not used for EXPORT_SESSION_IDLE_TTL.
TimePasses(e) ==
  /\ e \in registry \ idle
  /\ idle' = idle \cup {e}
  /\ UNCHANGED <<registry, finalizing, cancel, state, next, published, vetoed, webview, cmd, faults>>

\* expire_export_session_after_idle finds the entry idle and not finalizing.
Expire(e) ==
  /\ e \in Stale
  /\ SetCancel({e})
  /\ registry' = registry \ {e}
  /\ idle' = idle \ {e}
  /\ UNCHANGED <<finalizing, state, next, published, webview, cmd, faults>>

----------------------------------------------------------------------------
(* The finalizer, on a blocking thread, under the session's lock *)

\* finalize leaves finalize_inner.
Leave(e, step) ==
  /\ state' = [state EXCEPT ![e] = "Terminal"]
  /\ To(e, step)

\* finalize, and finalize_inner up to its first pass.
Finalize(e) ==
  /\ cmd[e] = "finalize"
  /\ \/ /\ state[e] = "Receiving" /\ e \notin cancel /\ next[e] = NChunks
        /\ state' = [state EXCEPT ![e] = "Finalizing"]
        /\ To(e, "decode")
        /\ UNCHANGED faults
     \/ /\ state[e] # "Receiving" \/ e \in cancel \/ next[e] # NChunks
        /\ Leave(e, "exit_err")
        /\ UNCHANGED faults
     \/ Fault /\ Leave(e, "exit_err")
  /\ UNCHANGED <<registry, finalizing, idle, cancel, next, published, vetoed, webview>>

\* A pass over the spool comes to its end.  CancelReader answers a set flag with
\* ErrorKind::Interrupted, which the byte iterator under serde_json retries: the pass does not end.
Pass(e, step, after) ==
  /\ cmd[e] = step
  /\ e \notin cancel
  /\ \/ To(e, after) /\ UNCHANGED <<state, faults>>
     \/ Fault /\ Leave(e, "exit_err")
  /\ UNCHANGED <<registry, finalizing, idle, cancel, next, published, vetoed, webview>>

\* The first pass decodes every record and checks its source.
Decode(e) == Pass(e, "decode", "stage")

\* The second pass writes the staged file beside the destination.
Stage(e) == Pass(e, "stage", "validate")

\* validate_export_publication looks at the flag and at the destination, then passes over the spool.
Validate(e) ==
  /\ cmd[e] = "validate"
  /\ \/ e \notin cancel /\ To(e, "revalidate") /\ UNCHANGED <<state, faults>>
     \/ e \in cancel /\ Leave(e, "exit_err") /\ UNCHANGED faults
     \/ Fault /\ Leave(e, "exit_err")
  /\ UNCHANGED <<registry, finalizing, idle, cancel, next, published, vetoed, webview>>

Revalidate(e) == Pass(e, "revalidate", "check")

\* Mutant: the flag is not looked at after the pass.
LastCheck_blind(e) ==
  /\ cmd[e] = "check"
  /\ To(e, "publish")
  /\ UNCHANGED <<native, webview, faults>>

\* The last look at the flag.
LastCheck(e) ==
  /\ cmd[e] = "check"
  /\ \/ e \notin cancel /\ To(e, "publish") /\ UNCHANGED state
     \/ e \in cancel /\ Leave(e, "exit_err")
  /\ UNCHANGED <<registry, finalizing, idle, cancel, next, published, vetoed, webview, faults>>

\* replace_destination.
Publish(e) ==
  /\ cmd[e] = "publish"
  /\ \/ published' = published \cup {e} /\ Leave(e, "exit_ok") /\ UNCHANGED faults
     \/ Fault /\ Leave(e, "exit_err") /\ UNCHANGED published
  /\ UNCHANGED <<registry, finalizing, idle, cancel, next, vetoed, webview>>

\* evtx_finalize_export_session removes the entry and answers.
Exit(e) ==
  /\ cmd[e] \in {"exit_ok", "exit_err"}
  /\ registry' = registry \ {e}
  /\ finalizing' = finalizing \ {e}
  /\ idle' = idle \ {e}
  /\ To(e, IF cmd[e] = "exit_ok" THEN "ok" ELSE "err")
  /\ UNCHANGED <<cancel, state, next, published, vetoed, webview, faults>>

----------------------------------------------------------------------------
(* The webview *)

\* The export bar posts a command and the task waits for its answer.
Post(e, step, at) ==
  /\ To(e, step)
  /\ task' = [task EXCEPT ![e] = at]

\* The task throws: the outcome is decided by the signal, whatever was thrown.
Thrown(e) == IF e \in aborted THEN "cancelled" ELSE "failed"

Throw(e, at) ==
  /\ outcome' = [outcome EXCEPT ![e] = Thrown(e)]
  /\ Post(e, "none", at)

\* exportVisible takes exportPendingRef and opens the save dialog.
Choose(e) ==
  /\ bar = None
  /\ task[e] = "idle"
  /\ bar' = e
  /\ task' = [task EXCEPT ![e] = "dialog"]
  /\ UNCHANGED <<native, sent, closes, aborted, outcome, cmd, faults, reloads>>

\* The dialog is dismissed.
Dismiss(e) ==
  /\ task[e] = "dialog"
  /\ task' = [task EXCEPT ![e] = "settled"]
  /\ bar' = IF bar = e THEN None ELSE bar
  /\ UNCHANGED <<native, sent, closes, aborted, outcome, cmd, faults, reloads>>

\* A destination is chosen and streamEventLogExport begins.
Save(e) ==
  /\ task[e] = "dialog"
  /\ Post(e, "insert", "create")
  /\ UNCHANGED <<native, sent, closes, aborted, outcome, bar, faults, reloads>>

\* closeForAbort: a known session is closed.
Abort(e) ==
  /\ aborted' = aborted \cup {e}
  /\ closes' = IF task[e] \in Listening \ {"create"} THEN [closes EXCEPT ![e] = @ + 1] ELSE closes

\* The user cancels the export of the bar.
Cancel ==
  /\ bar # None
  /\ task[bar] \in Listening
  /\ bar \notin aborted
  /\ Abort(bar)
  /\ UNCHANGED <<native, cmd, task, sent, outcome, bar, faults, reloads>>

\* The bar leaves the view, and its effect aborts the export under way.  Before the dialog is
\* answered there is no controller to abort.
Unmount ==
  /\ bar # None
  /\ bar' = None
  /\ \/ task[bar] \in Listening /\ bar \notin aborted /\ Abort(bar)
     \/ (task[bar] \in Listening => bar \in aborted) /\ UNCHANGED <<aborted, closes>>
  /\ UNCHANGED <<native, cmd, task, sent, outcome, faults, reloads>>

\* The answer of evtx_create_export_session.
Created(e) ==
  /\ task[e] = "create"
  /\ \/ /\ cmd[e] = "err"
        /\ Throw(e, "settled")
        /\ bar' = IF bar = e THEN None ELSE bar
     \/ cmd[e] = "ok" /\ e \in aborted /\ Throw(e, "unwind") /\ UNCHANGED bar
     \/ cmd[e] = "ok" /\ e \notin aborted /\ Post(e, "find", "append") /\ UNCHANGED <<outcome, bar>>
  /\ UNCHANGED <<native, sent, closes, aborted, faults, reloads>>

\* The answer of evtx_append_export_chunk.
Appended(e) ==
  /\ task[e] = "append"
  /\ \/ cmd[e] = "err" /\ Throw(e, "unwind") /\ UNCHANGED sent
     \/ /\ cmd[e] = "ok"
        /\ sent' = [sent EXCEPT ![e] = @ + 1]
        /\ \/ e \in aborted /\ Throw(e, "unwind")
           \/ /\ e \notin aborted
              /\ IF sent'[e] < NChunks THEN Post(e, "find", "append") ELSE Post(e, "begin", "finalize")
              /\ UNCHANGED outcome
  /\ UNCHANGED <<native, closes, aborted, bar, faults, reloads>>

\* The answer of evtx_finalize_export_session.
Finalized(e) ==
  /\ task[e] = "finalize"
  /\ \/ cmd[e] = "err" /\ Throw(e, "unwind")
     \/ cmd[e] = "ok" /\ outcome' = [outcome EXCEPT ![e] = "saved"] /\ Post(e, "none", "finish")
  /\ UNCHANGED <<native, sent, closes, aborted, bar, faults, reloads>>

\* Mutant: the finally block waits for a close that was never posted.
Unwind_waits(e) ==
  /\ task[e] = "unwind"
  /\ closes[e] = 1
  /\ task' = [task EXCEPT ![e] = "closing"]
  /\ UNCHANGED <<native, cmd, sent, closes, aborted, outcome, bar, faults, reloads>>

\* The finally block closes the session once more, after the close of an abort.
Unwind(e) ==
  /\ task[e] = "unwind"
  /\ closes[e] = 0
  /\ closes' = [closes EXCEPT ![e] = 1]
  /\ task' = [task EXCEPT ![e] = "closing"]
  /\ UNCHANGED <<native, cmd, sent, aborted, outcome, bar, faults, reloads>>

\* The export settles and the bar shows its outcome.
Settle(e) ==
  /\ task[e] \in {"closing", "finish"}
  /\ closes[e] = 0
  /\ task' = [task EXCEPT ![e] = "settled"]
  /\ bar' = IF bar = e THEN None ELSE bar
  /\ UNCHANGED <<native, cmd, sent, closes, aborted, outcome, faults, reloads>>

\* The page is loaded again: its tasks are gone, the commands they posted go on.
Reload ==
  /\ reloads > 0
  /\ reloads' = reloads - 1
  /\ task' = [e \in Exports |-> IF task[e] \in {"idle", "settled"} THEN task[e] ELSE "gone"]
  /\ bar' = None
  /\ UNCHANGED <<native, cmd, sent, closes, aborted, outcome, faults>>

----------------------------------------------------------------------------
(* Specification *)

Command(e) ==
  \/ NewFails(e) \/ Insert(e) \/ FindSession(e) \/ AppendChunk(e) \/ BeginFinalize(e)
  \/ Finalize(e) \/ Decode(e) \/ Stage(e) \/ Validate(e) \/ Revalidate(e) \/ LastCheck(e)
  \/ Publish(e) \/ Exit(e)
Driver(e) == Created(e) \/ Appended(e) \/ Finalized(e) \/ Unwind(e) \/ Settle(e)
Clock(e) == TimePasses(e) \/ Expire(e)
User == Cancel \/ Unmount \/ Reload \/ \E e \in Exports : Choose(e) \/ Dismiss(e) \/ Save(e)
System == \E e \in Exports : Command(e) \/ Close(e) \/ Driver(e) \/ Clock(e)

Next == User \/ System

Spec == Init /\ [][Next]_vars

\* Threads, posted commands, the page's promises and the clock do not all stand still; the user
\* may.  No step of the system can be taken forever, so this weak form of their fairness is enough.
FairSpec == Spec /\ WF_vars(System)

----------------------------------------------------------------------------
(* Properties *)

\* A finalizer is in a pass that a cancel has stopped.
Stuck(e) == cmd[e] \in Reading /\ e \in cancel

\* A finalizer keeps its entry, and with it its destination, until it exits, whatever cancels,
\* expiries and admissions happen meanwhile: no two finalizers stage and replace one destination
\* ("must retain the destination reservation until it exits").  Only entries of the registry are
\* marked as finalizing or idle.
DestinationIsExclusive ==
  /\ TypeOK
  /\ \A e \in Exports : cmd[e] \in Finalizer =>
       /\ e \in registry
       /\ \A f \in registry \ {e} : DestOf[f] # DestOf[e]

\* A cancel, expiry or prune that comes before the last look at the flag keeps the destination
\* as it was: the commit check of the writer honours a late cancellation.
LateCancelIsHonoured == published \cap vetoed = {}

\* An export under way comes to an end, so that an export bar never waits forever, and every session
\* gives its place and its destination back, one whose page is gone too; unless a cancel meets a
\* pass over the spool.
ExportsEnd ==
  \A e \in Exports :
    /\ task[e] = "create" ~> (task[e] \in {"settled", "gone"} \/ Stuck(e))
    /\ e \in registry ~> (e \notin registry \/ Stuck(e))

\* The sessions, their commands and the page that drives them implement exports that appear whole,
\* at most once, behind an exclusive reservation, and are reported truthfully.
Atomic == INSTANCE AtomicExport WITH reserved <- registry
AtomicExportSpec == Atomic!AtomicSpec
=============================================================================
