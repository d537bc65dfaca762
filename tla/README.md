# Verification of CMTrace Open

CMTrace Open is a Tauri desktop program: a Rust native side opens, parses and
tails logs, and a TypeScript webview shows them.  This directory holds TLA+
models of its stateful core (the tails of log files and of event-log channels, the exports, and
the live ESP diagnostics sessions, each with the page that drives it), TLC
configurations that check them on small instances, and TLAPS proofs for every
value of the constants.

## The system and its parts

| Part | State | Operations | Hard because |
|---|---|---|---|
| Firewall owner (`src-tauri/src/watcher/firewall.rs`) | checkpoint, owed transition, watch epoch, revision, active, paused | start, stop, set_paused, request, commit | commands and worker threads race; reads run outside the lock |
| Firewall worker (same file) | a request, a candidate outcome | loop: stop flag, request, read, commit and publish | stale reads, failures after a replacement was seen, late encoding change |
| Tail commands (`commands/parsing.rs`) | `tail_sessions` | start_tail, stop_tail, pause_tail, resume_tail | delayed and reordered commands, a launch that fails after admission |
| File opening (`commands/file_ops.rs`, `parser/mod.rs`) | `open_files` | open_log_file | replaces the owner under a running worker |
| Webview firewall state (`src/stores/firewall-state.ts`, `log-store.ts`) | session, watchEpoch, active, rows | beginFirewallWatch, endFirewallWatch, applyFirewallTail | events of ended watches, repeated and clashing rows |
| Watch effects (`src/hooks/use-file-watcher.ts`) | the mounted token | start, stop and pause effects, event listener | what a promise resolves to is used later |
| Tab loading (`src/lib/log-source.ts`, `tab-snapshot-cache.ts`) | tabSwitchGeneration, the tab cache | refresh, switchToTab, applyParseResultToStore | replies of loads the user has left |
| Firewall decoder and line stream (`parser/firewall_source.rs`, `firewall_stream.rs`) | carry, offsets, pending text, provisional row | push, push_text, snapshot_eof | chunk boundaries |
| Ordinary tail (`watcher/tail.rs`) | offset, carries, fragments, pending reset | read_new_entries, session loop | no epoch token; one-shot seeds; partial failures |
| Event-log exports (`event_log/export_session.rs`, `writer.rs`) | the registry, each session's spool, state and cancel flag | create, append, finalize, close, expire | a finalizer runs outside the registry lock while closes, expiries and admissions go on |
| Export bar and task (`EvtxFilterBar.tsx`, `event-export-session.ts`) | the export under way, its abort signal | export, cancel, unmount | an abort races the answer; the page may be loaded again |
| ESP session manager (`esp/session.rs`) | reservation, active session, shutdown flag, publications, joins | start, get, stop, shutdown; the worker's publish | three commands join one thread; five locks; a worker that delivers |
| ESP page (`esp-diagnostics-store.ts`, `EspDiagnosticsWorkspace.tsx`) | phase, request, session, sequence | startLive, stopLive, poll, listen, import, analyze, export | answers, updates and a poll in any order; updates may be lost |
| Event-log live tail (`event_log/live.rs`) | `ACTIVE_TAILS`, the batcher's queue, its next number and losses | evtx_start_tail, evtx_stop_tail, callback, flush | callbacks during the close; three callers of one flush |
| Event-log workspace (`evtx-store.ts`) | active and shown tail, pending stops, received numbers, gaps | startLiveTail, stopLiveTail, beginRequest, clearChannel, listener | calls that wait for many answers while another supersedes them |
| Event-log analysis sessions, queries, elevation ticket and single-instance handoff | registries, cancel flags, a one-time ticket | start, cancel, complete | not modelled yet |
| Collector, Graph client, timeline, parsers, reducers, rendering | none that outlives a call, or one that is built once | pure functions or operating-system calls | not concurrent |

The native side and the webview meet in three ways: commands (webview to
native), replies, and `tail-new-entries` events.  Neither ever sees a consistent
state of the other.  What keeps them together is the control token (source
session, watch epoch): a session is minted by every open, an epoch by every
watch, and the owner accepts a command or a commit only for the token it holds.

The sessions (export, ESP, live tail) follow the same pattern with other tokens: a
request id made up by the page, numbered chunks, updates or batches, a registry on
the native side, and pages that must tell a late answer from their own.

## Modules

* `FirewallOwner`: the native side for one path: the file as other programs
  change it, the owner, the registered session, the worker threads, and the
  commands as atomic steps (each holds the owner lock from its first check to its
  last write; `open_log_file` has two steps because it parses before it locks).
  A worker's turn has three: request (under the lock), read (outside) and commit
  with publication (under the lock).  The emission of what is committed may fail
  (`publish`), as `app.emit` may, which the code only logs.  The revision number is
  represented by `fresh`, which every `revision += 1` clears: only its equality is ever
  tested.
* `FirewallWatch`: extends it with the webview: the source state and the watch
  token of the mounted effect, loading, refreshing and switching tabs with the
  generation counter, pause, the tab cache, and the rows in view.  Commands,
  replies and events are in transit between the two.
* `MCFirewallOwner`, `MCFirewallWatch`: what other programs do to the file in
  each instance.
* `FirewallProofs`: of `FirewallOwner` the types, the fence, the reader of an active
  watch, revocation and the owed reset; then the stream of rows, its ids, and that the
  snapshot and the chunked reads agree.  On top of it all the safety properties of
  `FirewallWatch`.
* `LogicalRecords`: the framing of Device Inventory logs into bounded logical
  records and their projection to entries
  (`inventory/mod.rs`), as operators that the whole-file parse and the tail
  share, as they do in the code.
* `TailReader`: the ordinary tail of one file: `read_new_entries` with its owed
  reset, UTF-8 carry, line fragment and pending record, and the session thread
  that polls it, with pause, stop and the final batch.  A poll is one action for
  each of its results (nothing new, a batch, an error).  `start`, `seen`,
  `leftover` and `owed` are history variables.
* `MCTailReader`: the instances.  `SequenceFolds`: what a fold over a sequence computes,
  for any operator.  `TailReaderReads`: what the operators of `LogicalRecords` and
  `TailReader` compute, for every text.  `TailReaderProofs`: the types, the bound of what is
  held back, the lossless tail, its agreement with opening the file, and the owed reset.
* `AtomicExport`: what an export promises: a file appears whole and at most once,
  behind a reservation of its destination that nobody else holds, and its user is
  told what happened.
* `ExportSession`: the native registry, the commands step by step (each lock and
  each pass over the spool is a step), the finalizer, expiry, and the task and bar
  of the webview.  It implements `AtomicExport` (`AtomicExportSpec`).
  `ExportSessionProofs`: the reservation, the late cancel, and the refinement.
* `EspService`: what the session manager promises its page: at most one session is
  active, its updates are numbered and handed over one by one, one that ends it comes
  last, and stop answers after that one.
* `EspSession`: the manager and its workers: the gate, the control lock, the
  publication gate, the activation of a worker, the join of its thread.  It
  implements `EspService` (`ServiceSpec`).  `EspSessionProofs`: the types, the
  reservation, the single worker, the finality of stop, and the refinement.
* `EspWatch`: the page over `EspService`: it extends the abstract manager, not the
  detailed one, so the refinement is what connects the two.  `EspWatchProofs`: all of
  its safety properties.
* `LiveTail`: the live tail of the event-log workspace, both sides: subscription,
  capture, numbering, emission, stop and close per channel; the page's starts, stops,
  supersession, listener, clears, and its account of every number.  An answer that
  `stopLiveTail` has had counts as a failure when `clearChannel` asks for the stop anew
  (`Outdated`).  `LiveTailProofs`: the types, the owners of a tail, the gaps,
  and the accounts of a stop.
* `MCExportSession`, `MCEspSession`, `MCEspWatch`, `MCLiveTail`: their instances.

The correspondence of definitions to lines is in `PROJECT.json`.  Definitions
that no other definition uses and that stand just before one that is used
(`size_only` before `identities_differ`) are plausible mistakes in that place;
each is known to violate the property it is paired with.

### Abstractions

* One unit of the file is one complete log line and one row.  Provisional rows of
  unterminated lines, and scalars split by a chunk boundary, are left to the
  modules `FirewallStream` and `FirewallDecoder` of the plan.  A unit is ASCII or
  a byte that no UTF-8 text contains; UTF-16 sources are not distinguished from
  UTF-8 with a byte-order mark (both refuse invalid input for good).
* Rows carry the generation of the file they came from, which the program cannot
  see: that is what makes mixing detectable.  Two history variables: `owed` records
  that a committed read saw a generation end, `unsent` the payloads that were
  committed and could not be emitted, since a reset was last emitted.
* An opened file that is empty is not recognised as a firewall log: it has no
  owner, and the path becomes an ordinary file in the webview.
* The decoding status distinguishes ready and the three gaps.
* A load first awaits the stop of the tail in view.  `TailStopped` keeps another
  tab's load from going on before this file's stop is handled; the stop of another
  file's tail takes an arbitrary time (`leaving`), and the load is skipped when the
  user moves on meanwhile.
* `TailReader` works on bytes: `"l"` and `"t"` together encode the two-byte
  character `"u"`, `"b"` is no UTF-8, `"n"` is the newline, and a line is a
  header when it begins with `HeaderLen` times `"h"`.  There is no `'\r'`: trimming it
  from a line end (tail.rs:752-756, 823-826) makes a difference only to a line of exactly
  the size bound whose `'\r'` came in an earlier poll than its `'\n'`.  The open and read calls of
  one poll are one step: they use one file handle, and a file that shrinks
  meanwhile makes the read fail.
* A change of the reader's parser selection cannot happen in the program
  (nothing assigns it) and is left out, as are byte-order marks and UTF-16, header
  fields and malformed headers, the IME framing and the Company Portal framing.
  Blank lines give no entry, and without a logical framing an unterminated line
  is dropped when the tail stops.
* Folder aggregates, merged views and closing the last tab are not modelled.
* `ExportSession`: the records are `NChunks` chunks, and what a pass finds wrong in
  them (a source that does not match, an unwritable record) is a fault, like an input
  or output error.  Closing is one step, since it waits for nothing.
* `EspSession`: an iteration of the worker finds new evidence or none; what the
  evidence is does not matter to the control.  A stop of a session is not asked for
  again before the last one has answered.
* `EspWatch`: `Pick` stands for the time from the opening of a file dialog to the end
  of the reading of the file.  `MaxMishap` bounds failed deliveries, dialogs and failed
  exports together.  The shutdown ends the page too and is not in it, and neither is
  the page being loaded again.
* `LiveTail`: a batch is one number; how many records it holds is left out, and so are
  the attempt numbers and the notices of failed stops, the filters, and the wording of
  the tail's mode.  One `stopLiveTail` and one `clearChannel` wait at a time.  `Early`
  says whether a tail may be stopped, or a channel cleared, before its start is through.

## Runs

| Run | Question | Bounds | Result |
|---|---|---|---|
| `rotate` | Is every committed read exact, and does chunked reading across replacements, encodings and watches give what a fresh open gives? | 2 watches, 2 generations of up to 2 lines, chunk 1, 1 failure | `TypeOK`, `FenceIsExact`, `StreamIsCoherent`, `SnapshotParity`, `IdsNeverReused` hold |
| `reopen` | Do commands and workers of a replaced owner do harm, and does an owed reset survive failures and unknown identities? | 2 opens, emptied in place, 2 generations of up to 2 lines, 1 failure | `ActiveWatchIsTailed`, `OwedResetComesFirst`, `RevocationIsFinal` hold |
| `refresh` | Do both sides agree on the watch when all is settled, and does the view hold exactly the committed rows but those whose emission failed? | a refresh, 2 generations of up to 2 lines, 1 failure | `WatchIsHonoured`, `ViewIsCheckpoint`, `ViewIsFaithful` (with `WatchTypeOK`) hold |
| `catchup` | Is a pause honoured, and does every line reach the view in the end, or get lost by a failed emission? | 2 generations of up to 3 lines, 2 toggles, 1 failure | `PauseIsHonoured` holds, `ViewCatchesUp` holds under fairness |
| `reorder` | Does a watch survive the webview's interest when commands overtake each other? | 2 loads or switches, failed launch | `NoOrphanWatch` holds |
| `parity` | Is a Device Inventory log tailed in pieces the same as one opened at once, and what holds when lines are cut? | every text of up to 6 bytes, in 1 or 2 generations; size bound of 4 bytes | `TailMatchesOpen`, `TailIsLossless`, `PendingIsBounded` (with `TypeOK`) hold |
| `lines` | Does a tail of physical lines match, deliver owed resets and catch up? | 5 bytes over 3 generations, 2 toggles, 1 failure | `TailMatchesOpen`, `ObservedResetIsDelivered` hold, `TailCatchesUp` holds under fairness |
| `exports` | Is a destination replaced whole, by one writer, and reported truthfully, and does every export end? | 2 exports of one destination, 2 chunks, 1 failure, 1 page load | `DestinationIsExclusive` (with `TypeOK`), `LateCancelIsHonoured`, `AtomicExportSpec` and `ExportsEnd` hold |
| `esp` | Is there one worker at a time, are answers final, can nothing deadlock, and does the manager keep its promise? | 2 sessions, 1 update beyond the first, 1 failure, 2 stops | `EspTypeOK`, `OneWorker`, `ReservationIsKept`, `StopIsFinal`, `ServiceSpec` and `CommandsReturn` hold |
| `page` | Does the page know every session it has started, never go back, and leave starting and stopping in the end? | 2 sessions, 1 lost update or file loaded | `WatchTypeOK`, `LiveIsKnown`, `StartIsNotRefused`, `ViewOnlyAdvances` and `StartAndStopSettle` hold |
| `tail` | Is every native tail one the page will stop, is every batch accounted for, and does no call wait for ever? | 2 channels, 2 starts, 2 batches, 1 failed start, lost batch, load or clear | `TailTypeOK`, `NoOrphanTail`, `GapsAreReal`, `CallsGoOn` and `StopAccountsForAll` hold |
| `orphans` | see Findings | 1 start, 1 batch, a stop before the start is through | `NoOrphanTail` is violated |

Two watches are enough to supersede one; two opens to replace an owner; two
generations of two lines with a chunk of one give an append, a partial read, a
shrinking, an equal and a growing replacement; one failure meets a read at each
of its points, a launch or an emission; in `catchup` three lines let lines come before
and after a lost one.  `CHECK_DEADLOCK FALSE` is set where the bounded user, file or
number of opens can run out while every worker has exited; in `rotate` deadlock
is checked.  For the tail, six bytes with a bound of four hold several headers
and continuations, a character split between polls, and lines cut by the bound,
since every byte may be a poll of its own; shared among the generations they make
the next one shorter than, as long as, or longer than the offset held for the one
before.  Unknown identities are in `reopen`; for the ordinary tail only the proof
covers them.

Two exports of one destination compete for it, one may be started after the page of
the other is gone, and two chunks separate a first append from a last; with
`MaxSessions` 2 the capacity itself never refuses.  Two ESP sessions are enough for
one to be started while the other ends; two stops for one to join a thread the other,
or a shutdown, joins.  With two channels some starts of a tail are answered before
others, and with two starts one is superseded; two batches may be emitted in the wrong
order or leave a gap.  `SYMMETRY` permutes the channels, which nothing orders.

### Fairness

`ViewCatchesUp` assumes weak fairness of the worker threads (each loops with a
500 ms park), of the dispatch of commands and of the webview's event loop.
Nothing is assumed of the user or of other programs, and failures are finite in
number: a read that fails for ever never catches up.  A failed emission is not made up
for: it costs its lines, which the property counts (`UnsentRows`).

`TailCatchesUp` assumes weak fairness of `pollReads` alone: the thread's
`recv_timeout` returns after 500 ms even when no change is noticed.  `FairSpec`
writes it out as "infinitely often not able to read, or infinitely often reads",
because computing `ENABLED` of the folds is slow; `CanRead` is its guard.

`ExportsEnd` and `CommandsReturn` assume weak fairness of the whole
system (threads, posted commands, promises, timers) as one action.  That is weaker
than fairness of each of them, and enough, since every step of theirs can be taken
finitely often.  In `exports` the expiry timer is among them; in `esp` evidence,
expiry and panics are not.  `StartAndStopSettle` assumes the same of the
manager and the page's promises, and separately of the page's poll, which can go on
for ever.  `CallsGoOn` needs no fairness: it says of each state that a waiting call
can go on or that somebody it waits for can, and no step can be taken without end.

## Findings

* `orphans` violates `NoOrphanTail`.  A batch may show the tail before all its channels
  have answered.  A stop pressed then is sent for the channels shown; if the start goes
  through before that stop is answered, the store computes the channels that are left
  from the set it had read before (`evtx-store.ts:1852`), drops the others, and a native
  tail goes on that no later start, stop or load will stop.

The code departs from a property in six more places.  No run keeps them, and the
properties are stated, or their instances chosen, without them:

* A batch whose emission fails after the commit is only logged (`firewall.rs:411-413`):
  its rows never come again.  `ViewIsCheckpoint` and `ViewCatchesUp` hold but for those
  rows (`UnsentRows`).  When it was a reset, the view keeps the rows of the old
  generation and may refuse later payloads for their lines, until the next reset is
  emitted or the file is opened again; of that time the two properties say nothing
  (`NoResetUnsent`).  `refresh` violates `ViewIsCheckpoint` without either.
* A batch is committed and published in one step, then dropped by the webview because
  the tab was left meanwhile; coming back from the cache resumes from the advanced
  checkpoint.  `refresh` with `Tabs = {"cached"}`, `MaxLoad = 2`, `MaxSession = 3`,
  `MaxEpoch = 2`, `MaxFault = 0` violates `ViewIsCheckpoint`.
* A tab is left while its refresh is under way: the owner is replaced, the reply
  dropped, and the cached session is later refused without an error.  `refresh` with
  `Tabs = {"cached"}`, `MaxLoad = 3`, `MaxSession = 4`, `MaxEpoch = 2`, `MaxLen = 1`,
  `MaxGen = 1`, `MaxFault = 0` violates `WatchIsHonoured`.
* Switching to a tab that must be loaded stops the tail of the file in view; going back
  before the load ends returns early and nothing starts it again.
* When the opened file ends inside a line, the tail starts at the number of the next
  line, and everything it reads is numbered one too high.  `lines` with
  `OpenAtLineEnd = FALSE` violates `TailMatchesOpen`.
* An unterminated line gets only the room that the pending record leaves.  When a header
  does not fit there, its cut prefix is not recognised and the header joins the old
  record.  `TailMatchesOpen` is about texts whose lines fit (`Fits`), `TailIsLossless`
  says what holds for all.

Two more conditions in the properties name a place where the code does not keep them:
`Stuck` (a cancel that meets a pass over the spool is answered with
`ErrorKind::Interrupted`, which the reader retries without end) and `disowned` (a file
chosen in a dialog that was opened before a live start is loaded over the session, which
then runs with no button to stop it).

One more behaviour is modelled but not a finding: the batch that carries the reset
of a truncated file begins with the pending record of the old content.  The
documentation of `TailBatch.reset` promises a fresh read from byte 0, and a comment
at the place calls it the existing truncation contract.  `leftover` counts those
entries, and the properties speak of the ones after them.

## Proofs

All theorems hold for every value of the constants that satisfies their named
assumptions.  Some have a hypothesis on a parameter besides, explained with each:
`ParityHolds`; `WatchHonoured`, `ViewPictures` and `PauseHonoured`; `TailLosesNothing` and
`TailEqualsOpen`; and, of `LiveTail`, `NoOrphan`, `GapsReal` and `StopAccounted`.

`FirewallOwner`, in `FirewallProofs`:

* `TypeCorrect`: `TypeOK` is inductive.  One lemma for each operator that builds
  rows, checkpoints and outcomes; one case for each action.
* `FenceHolds`: `FenceIsExact` is not inductive, since a request that fails the
  token test may pass it later.  `FreshIsCommitted` says of every fresh request,
  current or not, that it was taken from what is committed.
* `ActiveWatchTailed`: a start must not find its token among the stopped ones.
  `SessionsAreAdmitted` bounds every registered and stopped token by the owner's
  session and epoch, so a token admitted next is new; `ActiveIsFirewall` keeps
  the current worker from leaving its loop.
* `RevocationFinal`: an action property that follows from the types alone, since
  epochs and sessions only grow.
* `OwedResetFirst`: `OwedIsPending` says that an owed reset is pending in the
  owner, and that every outcome computed under it, or that saw the end itself,
  is the reset or a gap that still owes it (`ReadSettles`).  With
  `FreshIsCommitted` no outcome computed before it was owed can be committed.

* `StreamCoherent` and `IdsNew`, from one invariant: `StreamInv` says that every
  checkpoint that is committed, read from, computed or about to be installed by an open
  is `Coherent`, and that the entries an outcome will publish bear ids of their own
  (`Continues`).  A committed outcome was computed from the checkpoint committed now
  (`FreshIsCommitted`), so its ids are new.  One lemma for each way to make rows.
* `ParityHolds`: `Parity` says what a checkpoint knows of the file: whose rows it
  holds, and that its encoding is Windows-1252 exactly when what it has consumed is no
  UTF-8.  `Owes` says that a restart is owed only where it is needed.  The hypotheses,
  that identities can be read and nobody empties the file in place, are those under which
  the code can tell two generations apart; `reopen` runs without them, and there the
  property does not hold.

`FirewallWatch`, in `FirewallProofs`.  A step of the composition is one of the native
side or leaves it alone (`StepIsNative`), so what is proved above holds of it too:

* `WatchTypes`: `WatchTypesInv` adds that queues are sequences, that the watch in view has
  had an epoch, and that a load being parsed is one that was sent.
* `NoOrphan`: a watch that runs, or whose start is on its way to an owner that would admit
  it, is the one shown, or its stop is on its way (`OrphanInv`).  A webview step may begin
  only what it shows and sends a stop for what it no longer shows (`Orderly`); an owner that
  has handled the stop refuses the start for good.  Nothing is assumed of the order.
* `ViewFaithful`: `GrowsInv` says what an outcome may do to the rows of the checkpoint it
  was computed from, `FaithfulInv` that the view, the events and the replies of one source
  hold only rows of it.  Ids only grow within a source, which is why a late event cannot
  bring back a row of an older generation under an id of this one.
* `WatchHonoured`: `StayInv` says that there is one load at a time and each source is
  watched once, so that the webview knows the present session or the reply that tells of it
  is on its way; `HonouredInv` that the watch in view runs or its start is on its way to an
  owner that has had none.  It assumes `Tabs = {}` and `~LaunchMayFail`: a reply dropped
  because a tab was left meanwhile breaks the property (Findings), and so does a failed
  launch, which the webview only logs.
* `ViewPictures`: while the emission of no reset has failed, the events under way lead,
  applied in their order, from the view to the rows of the committed checkpoint but those
  whose emission failed (`PicturedInv`).  `Leads` says it without recursion: there
  is a sequence of views, each the reconciliation of the one before with one event.  A
  published outcome makes it one longer, an applied event one shorter.  `GrowsInv` gives that
  a published outcome never clashes with the rows before it, `UnsentInv` that the rows lost
  are older than all that are still to come.  It assumes `Tabs = {}`, since
  an event that arrives while the tab is left is dropped (Findings).
* `PauseHonoured`: the last command about the watch in view that is on its way says what the
  button says, or none is and the owner knows (`PauseInv`).  `InOrder` is needed: a pause and
  a resume that overtake each other leave the wrong one in force.  With `OrphanInv` a watch
  that runs when all is handled is the one in view.

`TailReader`.  The framing, the projection and the decoding are folds over the bytes, the
lines or the records, and what they compute for every text is proved by induction.  The
induction theorems of the library take an operator as a parameter, which the provers cannot
instantiate, so the induction is made with sets: a set of naturals with 0 and every
successor is all of them (`NaturalInduction`, from the well-foundedness of `<`), and a set
with `<<>>` that is closed under `Append` has every sequence (`SequenceInduction`).

* `SequenceFolds` unfolds the recursive function in the definition of a fold
  (`IteratesExists`, `IteratesAgree`), which gives a fold of the empty sequence (`FoldEmpty`)
  and of one more element (`FoldAppend`), and the sets it stays in (`FoldStays`).  Each fold
  of the model is an instance (`SizeIsFold`, ...).  Induction over the naturals is a
  hypothesis there (`Inductive`), discharged for every instance (`Induction`).
* `TailReaderReads`: what a line, a chunk, a read and the opening of a file do to what the
  entries and the reader together hold (`Out`, the text; `Line`, the number of the line), to
  what is held back (`HeldBack`), and that decoding in parts is decoding at once, with an
  undecoded lead byte carried over.

In `TailReaderProofs`:

* `TypeCorrect`: the types.  Inductive only with what the reader's parts say of each other,
  such as that a continuation belongs to a pending record (`Coherent`, in `TailTypes`).
* `HeldBackIsBounded`: the pending record and the fragment together never exceed the bound
  (`Bounded`), since a line gets only the room the record leaves, and is cut to it.
* `TailLosesNothing`: `TailInv` says that the bytes of the file from `start` to the offset
  are those the tail tells (`Tells`): while it runs, its entries with what the reader holds
  back are their text, and the reader knows the line it is at (`Reads`); once it has stopped,
  the entries alone are (`HasRead`).  It says nothing while the reader has yet to see that
  its generation ended, and a reset begins it anew.  The theorem assumes `OpenAtLineEnd`: a
  tail that begins inside a line counts one line too many (Findings).
  `TailShowsWhatOpeningShows`, its half about the characters, assumes nothing.
* `TailEqualsOpen`: for a text whose lines fit, `Matches` says that there are records whose
  entries are those of the tail, and which with the reader's pending record and fragment are
  the framing of the whole text (`AtText`): the framing of a text has one form whatever
  reads it was cut into (`FrameTextAt`).  `MatchesFinal` closes the last record as opening
  does.  It needs `OpenAtLineEnd` for the same reason.
* `ResetDelivered`: `OwedInv` says that while the thread runs, an observed end of
  a generation stays in `pending_reset`.  A failed poll only ever adds to it
  (`OwedIsObserved`, `EndIsObserved`), and the batch of a successful one carries
  the reset exactly when one is observed.  Nothing of what the framing computes is
  used, so the theorem covers both framings, unknown identities and every bound.

`ExportSession`, in `ExportSessionProofs`.  The inductive invariant is `ExportInv`:

* `Held`: no two entries of the registry have one destination, and a finalizer owns its
  entry, which an expiry, a close or a prune leaves alone.  `Counted` and `Driven` tie
  the command under way to what the webview awaits; `Vetoed` says that the last check
  sees the flag of whatever was cancelled before it; `Placed` that the file is in place
  exactly when the finalizer leaves with success.
* `Exclusive` and `LateCancel` follow from `Held` and from `Vetoed`.
* `Implements`: every step is a step of `AtomicExport` or changes nothing of it
  (`StepImplements`); `Placed` is what makes the answer the user gets the right one.

The inductive invariant of `EspSession` is `EspInv`.  None of the properties is
inductive: that one worker runs at a time depends on who can find a worker, and that
on the gate.

* `Gated`: one start is inside `start_shutdown_gate`; a session is reserved exactly
  while its worker is created, with nothing active, and never once the shutdown has
  marked the manager.
* `Joins` and `Final`: a thread that was joined has ended; a worker ends by publishing
  how, and what it published last is handed over before it goes on.
* `Known`: a worker that runs is that of the active session, of the one about to be,
  or of the one a start joins before it reserves.
* `Life`: what a session may have published at each point of its life.

Each is kept by every step (`TypesKept` to `LifeKept`), with the ones before it as
hypotheses.  From `EspInv` follow:

* `EspTypeCorrect`, `ReservationKept` (from `Gated`), `SingleWorker` (from `Known`: two
  workers would be two starts beyond the gate, or one beside an active session, which
  `Gated` excludes) and `StopFinal` (from `Joins`, `Final` and `Known`).
* `SessionServes`: the manager implements `EspService`.  Under the refinement a
  command is what the page knows of it (`Calls`), and a session begins when it is
  activated, not when its thread is created (`Told`).  `StepServes` maps each step to one
  of the service or to none: `Publish` needs that a worker publishes only for the active
  session, `Activate` that every earlier session has handed over its last update.

`EspWatch`, in `EspWatchProofs`.  Its inductive invariant is `WatchInv`, over the
abstract manager, so that with `SessionServes` it holds of the page over the real one:

* `Served`: a session that has begun and not ended is the active one, and the answers of
  its commands say so.  `Heard`: what is on its way to the page, and what it shows, was
  published.  `Claimed`: the page waits for the answer of the start it made, or holds its
  session; after the answer it holds it, until it ends or a file comes over it.
* `WatchTypes`, `LiveKnown` and `NotRefused` are consequences.  `ViewAdvances` is about a
  step: an update is taken for the session in view when it is newer, or for the one asked
  for when none is (`Applies`), and every other step leaves the view or empties it.

`LiveTail`, in `LiveTailProofs`:

* `TailTypes`: `Types` adds to the types why the counters stay within their bounds: every
  number taken was an arrival, every source a turn.
* `NoOrphan`: `TailInv` adds `Stages` (what the page has been answered is so) and `Owners`:
  a tail that runs is of a start the page waits for, is to be stopped, or is one the page
  both has and shows.  "Shows" is the strengthening: `stopLiveTail` and `clearChannel` act
  on the channels shown.  `Halted` and `Cleared` carry it over the time a call waits.
* `GapsReal`: `GapInv` adds that a stop that was answered is of a tail that is gone and
  will not run again (`Ends`, kept because `Gone` is stable, `GoneKept`), that numbers are
  emitted and applied in their order (`Ordered`), and that what is reported or carried as
  lost is a number that is nowhere on its way (`Losses`, `Telling`).
* `StopAccounted`: `AccountInv` adds to `GapInv` what holds while `stopLiveTail` and
  `clearChannel` wait at once.  A tail that is closed has nothing left to emit (`Closes`),
  an answer that was had is so (`Answers`), and what is remembered of a tail is in the
  view (`Remembered`): the channels whose stop was acknowledged are accounted for by
  `FinalGaps`.  It remains that a stop is about every channel shown and none of them ended
  unseen (`Shows`, `Covers`): a channel whose stop is refused has ceased, and a second stop
  of one that was acknowledged would be refused too.  `Alone` and `Clearing` say which
  channel `clearChannel` may have stopped behind the back of `stopLiveTail`, and that it
  is put back in the tail only where the page shows it.
* The last three assume `~Early`, that nobody stops a tail or clears a channel before its
  start is through.  Without it `NoOrphanTail` is false, which is the finding of `orphans`.

Only model-checked, and what keeps them there:

* `ViewCatchesUp`, `TailCatchesUp`, `ExportsEnd`, `CommandsReturn` and
  `StartAndStopSettle` need fairness, and `CallsGoOn` needs `ENABLED`: both are out of the
  prover's reach.

## Not modelled

Event-log analysis sessions, queries and their cancellation, the elevation ticket and
the single-instance handoff (planned); the file set of an ESP session, which its one
worker owns; and what keeps no state between calls: parsers, reducers, collectors,
platform readers, the Graph client, rendering.  They are most of the lines of the
repository, and a state machine has nothing to say of them.  `PROJECT.json` gives the
reason for each.

Known limits of the code that no property covers: pause and resume that overtake each
other, a failed launch that the webview only logs, a file emptied and regrown between
two reads; for the ordinary tail a byte that is not UTF-8, which stops it for good, a
file watcher that cannot be created, batches without an epoch token, and a debounced
batch that is lost when the read after it fails; for the live tail a batch that is
reported as not received because it was flushed by the stop, and taken all the same;
and an ESP session whose page is loaded again, which the new page knows nothing of.

## Plan

Done: the firewall lane (`FirewallOwner`, `FirewallWatch`), the ordinary tail reader
for physical lines and Device Inventory records (`LogicalRecords`, `TailReader`), and
the sessions: exports, ESP diagnostics, the live tail.  Next, in this order:

1. `TailReader` with the Company Portal framing: the debounce, amendments of the
   record emitted by the initial open, and the discarded rest of a capped line.
2. `LogTail`: the ordinary tail with its commands and its webview, where a batch
   of a stopped session may arrive after the next session has started.
3. The remaining registries: event-log analysis sessions, the cancellation of queries,
   the elevation ticket with the single-instance handoff.
4. `FirewallDecoder` and `FirewallStream`: byte-order marks, carries, line
   framing and provisional rows as operators; any chunking equals the snapshot.
