# Verification of ghostty-qt in TLA+

ghostty-qt is a Qt terminal emulator built on libghostty-vt. Every pane has a
worker thread that owns a child process and its PTY; the GUI thread owns windows,
tabs, panes, configuration and the desktop services. This directory models the parts
whose correctness depends on the order in which threads, queued calls, timers, child
processes and users act, checks the models with TLC, and proves theorems about them
with TLAPS. Paths below are relative to the repository's root.

## 1. Inventory

### How the parts interact

    QML window --- TerminalWorkspace --- TerminalPane --- TerminalController     GUI thread
                        |                                   |   ^
          clipboard queues, dialogs              posted calls|   |queued signals
                        |                                   v   |
                        +---- TerminalClipboardBridge --- SessionWorker          one thread each
                               (mutex, wait)                 |  \
                        InitialSessionCoordinator (mutex) ---+   PTY, child, file jobs (pool)

- The GUI thread *posts* calls to a worker (input, resize, search, shutdown) and the
  worker *queues* signals back (frames, titles, errors, the exit). Each direction is in
  order; the two interleave freely.
- Three things break that asynchronous rule and are the hard places: a controller's
  destructor blocks the GUI thread on its worker; the worker blocks inside its parser
  while the GUI thread answers a clipboard request; and the first-session coordinator is
  shared by all of them under a mutex.
- Pool threads persist terminal files and reload configurations; their results come back
  as queued calls that can find their receiver closed or a newer request in its place.

### Components

State, operations, what is hard, and what makes each correct. Section 2 names the
modules of those that are modelled, section 6 says what is left.

| component | state | operations | hard | correct when |
|---|---|---|---|---|
| PTY write path (`src/session/pty_write_buffer.cpp`, `session_worker.cpp` 1861-2038) | buffer with a consumed prefix, write notifier | direct write, buffer, flush, clear | short writes, EAGAIN, hard errors, compaction | the child reads one ordered stream, gapless until an error; bytes that wait are flushed; storage is bounded |
| Child and PTY lifecycle (`session_worker.cpp`) | pid, descriptor, read notifier, continuation, exit state, staged keys | initialize, drain, check child, keys, shutdown | exit races output, budgeted reads, grace and kill | all output shown before the exit is announced, once; nothing stale is signalled; shutdown returns |
| Terminal-file effects (`session_worker.cpp` 353-443, 2870-3063) | ordered queue of files and input, cancellation flag | write file, complete, drain, cancel | jobs finish out of order, half done, or after the teardown | submission order, no orphan, no reported file removed, every request answered |
| First-session lease (`initial_session_coordinator.cpp`, `terminal_controller.cpp`) | holder, waiters, tickets, payload, pending notification | request, commit, release, cancel, update | two kinds of thread, coalesced notification, teardown of holders | one session at most consumes the launch command, waiters are promoted in order and never forgotten |
| Clipboard requests (`terminal_clipboard_bridge.h`, `terminal_workspace.cpp` 3425-3930) | a request per bridge, two bounded queues, two dialogs, two drain timers | ask, deliver, drain, answer, remove, close | the worker waits for the user while panes close and the GUI thread waits for workers | a request ends once and only with consent; nobody waits on anybody in a circle |
| Controller relay (`terminal_controller.cpp`) | requests made before the worker exists, generations | post, drop, replay | requests race start and shutdown | no request lost or applied to another session |
| Search, hover and link activation (`session_worker.cpp`, `terminal_controller.cpp`) | generations, continuation | begin, cancel, navigate | results of old generations | only the newest generation is shown |
| Child launch gate (`session_worker.cpp` 1466-1626) | ready pipe, cgroup gate | fork, wait, move, release | descriptors shared by concurrent forks, scope creation fails | a hard failure means that the command never ran |
| Shell integration (`ghostty_shell_integration.cpp`) | process-wide cache of preparations | prepare, join, evict | single flight, failure of the owner, files that change under it | no waiter left behind; what a launch gets was made from files that were there while it waited |
| Workspace: tabs, splits, closing (`terminal_workspace.cpp`) | trees of panes, a pending close, a deferred removal, the window's close state | split, close, transfer, approve | exit transitions, re-entrant observers | each pane is removed once; an approved window closes |
| Pane: input and action chains (`terminal_pane.cpp`, with tokens in `terminal_controller.cpp` and staged keys in `session_worker.cpp`) | active sequence, chain in progress, deferred input, consumed keys | press, release, commit, run, wait, resume, replay | asynchronous actions between keys, focus lost, the child or the pane ended meanwhile | input stays in order and sees the effects of earlier chains; a consumed key stays consumed; the keyboard unlocks |
| Configuration services (`ghostty_config_service.cpp`, `frontend_config_service.cpp`) | epoch, generation, load in progress, debounce, retry | request, load, apply, retry, watch | a reload during a load, a failure during a newer request, a result that asks for another colour scheme | the newest request settles; the last good snapshot stays; configuration and windows agree on the scheme |
| Application lifetime (`src/app`) | quit policy, timer, windows | window opened, closed, quit | a delayed quit against a new window | quits only without windows, and once |
| Single instance and IPC (`src/desktop/single_instance_activation.cpp`) | D-Bus name, owner | claim, activate, successor | owners die between steps | an activation is handled once |
| Global shortcut portal (`ghostty_global_shortcut_portal.cpp`) | session, pending requests, generation | create, bind, close, reply | replies to replaced sessions | a reply touches its own session only |
| Keybindings (`src/input`) | immutable trie, position | match | sequences, fallbacks | longest match as configured |
| Notifications, quick terminal, blur, cgroup calls (`src/desktop`) | small tables | show, hide | D-Bus failures | cosmetic or best effort |
| VT adapter, model, inspector, rendering (`src/terminal`) | grids, snapshots, GPU resources | parse, encode, draw | data, not order | outside TLC's reach; enters the models as inputs |
| Command line, config export and editing, Zig helpers, build | none that lives | parse, print | none | unit tests cover them |

`PROJECT.json` lists the same components with their source files and status.

### Hazards

`PROJECT.json` lists what is hard to test, at its line, with the properties that would
catch it. In short: output against exit; direct against buffered writes; job completion
against submission order and against teardown; a lease holder that fails, closes or is
destroyed; a coalesced notification; a pane closed under its own dialog; a GUI thread
that waits for a worker that waits for the GUI thread; descriptors that concurrent forks
share; files that change under a helper or under a load; a configuration that asks for the
other colour scheme than it was loaded for; a retry armed for an old request; a removal
that waits for animations while everything else goes on closing; a question whose window
vanishes; input deferred behind an action that never answers. Not modelled yet: search
generations, ownership of the activation name, stale portal replies.

## 2. Modules

| module | what it is |
|---|---|
| `ByteStream` | abstract: what the child may see of the bytes submitted |
| `PtyWriter` | the write path, byte by byte; implements `ByteStream` (its specification is `WriterSpec`) |
| `Subsequences` | the elements of a sequence at a set of positions, in a form proofs can use (`SelectSeq` takes a predicate, which they cannot) |
| `SequenceFacts` | lemmas on sequences and subsequences, shared by the proofs |
| `OrderedEffects`, `OrderedEffectsProofs` | terminal files and input in one queue, their jobs, teardown; proofs |
| `OneShotLease` | abstract: one lease, taken, returned or spent |
| `InitialSession` | the coordinator with the controllers and workers that use it; implements `OneShotLease` (its specification is `LeaseSpec`) |
| `TerminalSession` | abstract: what a session promises its pane |
| `SessionLifecycle` | worker, child and PTY; implements `TerminalSession` |
| `SessionProofs` | proofs about a pane's session: `SessionLifecycle`, `InitialSession` and `PtyWriter` |
| `ShellIntegrationCache` | the process-wide cache of shell integrations, single flight |
| `SessionLaunch`, `SessionLaunchProofs` | several workers that launch children at once; composes the cache with fork, handshake and gate; proofs |
| `ClipboardConsent` | abstract: what applications and the user are promised |
| `ClipboardRequests`, `MCClipboardRequests`, `ClipboardRequestsProofs` | bridges, workers, workspace queues, dialogs and closing; implements `ClipboardConsent`; its constants for TLC; proofs |
| `KeyStaging` | the worker's side of keyboard input: keys, staged leaders, actions of bindings |
| `KeyInput`, `KeyInputProofs` | a pane's side, over `KeyStaging`: bindings, chains of actions, deferral and replay; proofs about both |
| `Readiness` | abstract: what the service manager is told about reloads |
| `ConfigReload`, `MCConfigReload`, `ConfigReloadProofs` | both configuration services, the appearance and the notifications to systemd; implements `Readiness`; its constants for TLC; proofs |
| `WindowClosing` | how one window closes its panes and tabs and itself, as operators on a workspace |
| `QuitProtocol` | abstract: what quitting promises |
| `ApplicationQuit`, `ApplicationQuitProofs` | the workspaces of several windows under the controller and the quit policy, over `WindowClosing`; implements `QuitProtocol`; proofs |

Abstract and detailed specifications are joined by an `INSTANCE ... WITH` at the end of
the detailed module, and the abstract `Spec` is a property of a run. Operators whose
comment starts with "Mutant:" are wrong versions of the definition that follows them;
no specification uses them. They are there so that every property can be seen to fail
on a plausible bug.

`SessionProofs` extends three components at once, so the definitions that every
component has are prefixed in two of them: `LeaseInit`, `LeaseNext`, `LeaseTypeOK` and so
on in `InitialSession`, `WriterInit`, `WriterNext`, `WriterTypeOK` in `PtyWriter`.

The granularity is the same everywhere: a slot, posted call or callback that runs to
completion on one thread is one action; a function that blocks or is run by another
thread is split where others can act.

## 3. The models and the code

### PtyWriter

Bytes are numbered in submission order. `QueuePtyWrite(n, k)` submits n bytes when the
kernel would take k of them: with an empty buffer it writes directly and keeps the suffix,
else it only appends (`queuePtyWrite`, `bufferPtyWrite`). `WriterReady(k)` is
`flushPtyWrites`, `CloseWriter` what `closePty` does to the backlog: it drops it.
`storage` and `consumed` are the buffer's vector and its consumed prefix, and
`AppendToBuffer` compacts by the same test as `compactBeforeAppend`. `directWrites`,
chosen once, is the switch between the default and the legacy write path. `AllDelivered`
lets the kernel go on accepting at least one byte when it says it is ready.

### OrderedEffects

One queue holds file requests and, while any waits, input (`writeTerminalFile`,
`queueInputWrite`). A job is four steps on a pool thread: start (with its cancellation
check), make the directory, write, post the completion; each may fail and each looks
at the cancellation flag where the code does. `Completion` is the queued call on the
worker: it marks the effect and drains the queue from its head. `Shutdown` is
`cancelTerminalFileEffects` with the wait that follows it, `ChildExit` what `closePty`
does to the queue, `FocusLost` what `releaseHeldTerminalModifiers` writes. Paths, names
and permissions are reduced to the success of a step. A drain is stated by what it
publishes: the effects before the first one that is not ready (`StopsAt`), and of those
the ones with something to write.

### InitialSession

`claim`, `state`, `holder`, the waiters in order, their tickets and the payload are the
coordinator's; each of its mutex-protected functions is one atomic operator (`Poll`,
`Commit`, `Remove`, `UpdatePayload`), used by the handlers that call it
(`StartSession`, `TryStartSession`, `BeginShutdown`, `Destroy` on the GUI thread,
`InitializeWorker` on a worker). `RequestsChanged` is the queued, coalesced notification. It
reaches each controller as a second queued call, so a controller polls a state later
than the one it was told of. 64-bit tickets do not run out.

### SessionLifecycle

The child and the jobs it leaves behind (`Write`, `SetSlave`, `Exit`, `JobsEnd`) are the
environment; output is counted in chunks. `ReadFromPty` and `Continue` are the two ways
into `drainPty`: a read that spends `ReadBudget` turns the notifier off and queues a
continuation. The reads of `checkChild` and `shutdown` drain up to `FinalLimit`.
`StageSequenceKey`/`ResolveSequence` begin a key sequence and end it after anything else
happened. `Shutdown`, `GraceExpires`, `ShutdownReaps`, `ShutdownEnds` split `shutdown()`
at its waits. A terminal that reports an end of input while jobs can still open it again
(`hungUp`) is modelled as the code has it: the notifier stays off until the exit.

### ClipboardRequests

A worker has one request at a time, since it waits for it; `Ask` is a terminal callback
up to the wait, `Wake` its end. `Deliver` is the queued signal on the GUI thread, with
all of `beginTerminalClipboardWrite`/`Read`, the drain included; `Answer` is the dialog's
answer; `DrainTimer` the zero timer. Reads and writes differ in the code in two ways and
so they do here: a read is made before it is queued and takes no clipboard access when
agreed to, and one oversized write is let in alone. `Retire`, `CommitRemoval`,
`CommitWindowClose`, `DestroyWorkspace` and `DestroyBegins`/`DestroyEnds` close a pane,
commit its removal, close the window, drop the workspace, and delete a controller, for
which the GUI thread blocks until its worker has stopped: while `blockedOn` names a pane
no slot of the GUI thread runs. What the request was is kept while its worker waits or its
signal is in transit (`KeepWhileCarried`): the signal carries the request, also after the
worker gave up on it.

Left out: remembering a choice, moving a tab to another window, and what the
session-ended handler does (a worker that waits cannot have ended).

### SessionLaunch and ShellIntegrationCache

One worker's `spawnChild` is a chain of actions, split wherever another worker, a child or
the outside can act. The cache's mutex-protected sections are `Identify`, `Lookup` and so
on; a flight is led by one session and joined by others, and `seen` records which versions
of the files were there while a session prepared. Every result costs the same, so the
cache's limit is on entries; a result too large to keep is one that may not be kept.
A preparation whose files were changed and changed back under the helper cannot be told
from a good one by the code's comparison of identities; `PreparedFresh` excludes it by
`swapped`.

`holds` maps each process to the descriptors it has; a fork (`forkpty` is `OpenPty`, then
`Fork`) gives the child what the application has at that moment, and an exec drops what is
marked. That is why the end of file that a parent waits for can be late, and why after a
crash of the application two gated children can hold each other's gates open (`LaunchEnds`
promises the end of a launch only while the application lives). The model also shows that
a child forked between another launch's `forkpty` and its `FD_CLOEXEC`
(`src/session/session_worker.cpp:1657`) keeps that session's PTY master through its exec,
although `docs/architecture.md:133` says that the master is "owned only by
`SessionWorker`"; no property here depends on it. The helper and the calls to systemd have
timeouts; the model only says that they return. `GoesOnPrepared = FALSE` follows a launch
that prepared an integration only until it has the result, so the run explores the cache
and the gate one after the other and not in product.

### ConfigReload

`Ghostty` and `Frontend` are the two services, one protocol written twice. Timers and
flags of a service are `svc`, its worker's load is `load`. Request epochs and load
generations are only compared with the newest, so a load records whether it still is of
the newest epoch (`newest`) and generation. A load reads the files at one instant
(`Read`); the process loader's second query (`Verify`) is what makes that sound. `Watched`
is `refreshWatchPaths`: the candidates, and what the last snapshot was read from. A file
that becomes included by an edit and is edited again before the snapshot that names it is
loaded is not watched at that moment: `unseen` records such changes, and the
properties about being current except them. `Init` is after startup, when
`applicationReady` was said.

A configuration is loaded for a colour scheme and asks for one: `window-theme` names it,
takes the system's (`system`), or, by default (`auto`, which stands for `ghostty` too),
takes it from the luminance of the background, and both may differ between
`theme = light:...` and `dark:...`. The contents of the standard file are therefore a look
for each scheme it is loaded for, plus whether it includes another file; `LookOf` is the
look of a snapshot, `Resolved` the scheme it asks for. So a result may request the load of
the other scheme (`LoadSucceeded`), whose result may ask back: a file `Oscillates` if it
asks for the other scheme whichever it is loaded for. `Started` and `Attempt` are the
first load and the rounds of `reconcileAppearance(true)`, any load of which may fail; it
gives up after three rounds (`Init`), and the service may then have been asked for another
scheme than the windows use. `reconcileAppearance(false)` is part of `LoadSucceeded` and
`SystemSchemeChanged`; it has one round because the next one is requested. Abstracted:
theme and background come from the standard file only, the other files stand for options
without a look, and files do not change during startup.

### ApplicationQuit and WindowClosing

A workspace is a record, and `WindowClosing` has one operator per function of
`terminal_workspace.cpp` that changes it, so that an event that touches several windows is
a composition of operators. Tabs are named after the pane they were created with; their
order, selection and geometry are left out. `pending` is the dialog, `deferred` a removal
that waits for exit animations, `state` the closing of the window, `publish` its queued
publication. `topologyMutation_` is TRUE only inside one event and the argument that the
code keeps in `applicationQuitAssessment_` is passed along. A pane's request to close
during a deferred removal is dropped, as in the code: a pane whose child has exited then
stays until somebody closes it. `ApplicationQuit` adds the controller: windows from
creation to retirement (unmapped and drained in one step), the one question for all
windows, rehosted when its window vanishes (`Destroyed`, at most `MaxLost` times), the
aggregate shutdown and the delay after the last window. `createApplicationTab` bypasses
the closed state of a window, which is why `OpenTabRemotely` has a weaker guard than
`OpenTab`.

### KeyInput and KeyStaging

Presses and commits are numbered as they are typed. What the bindings are is left open: a
press may be unmatched, lead a sequence, end one without a match, be ignored by a
catch-all or run a binding, whatever the state of the sequence allows; a chain
of actions is its number of actions left for the worker (`left`), whether anything was
performed, and which of the outcomes of `finishLocalActionChain` applies (`Handlings`).
`deferred` is `deferredInputs_`, `consumed` is `consumedKeys_` with the press that put a
key there. A sequence's token is the number of its first leader, a request is the press
and the action's index. The controller's set of pending requests always equals the
pane's, so there is one; all outstanding requests are old when the epoch advances, so
`FailStale` fails them all.

An event of the GUI thread that runs a chain or replays input takes several steps, during
which `Busy` holds and the worker does not move: it takes from the other end of its queue,
so what it would have done commutes. `sent` and `released` record what the worker queued
for the child while it ran, `eaten` what must not be. Modifier keys, repeats, dead keys,
bindings for all panes, the key that dismisses an ended session, and the pointer are left
out. A composition that only shows preedit text has the effect of `BindingsReplaced`.

A pane takes input before its session exists. Until `SessionStarts`, `down` is the
controller's `pendingWorkerRequests_`, which the worker then gets in order; a shutdown
before that (`CancelStart`) drops them, and no worker will ever be. A start that fails
because the lease has no payload is not here: `LeaseSafe` of `InitialSession` excludes it.

## 4. The runs

| run | shows | bounds |
|---|---|---|
| `PtyWriter` | one ordered, gapless byte stream for both write paths (`RefinesByteStream`); the notifier is armed exactly while bytes wait (`NoLostWakeup`); compaction bounds the storage (`StorageBounded`); all bytes are delivered unless a write fails or the PTY closes (`AllDelivered`) | 7 bytes, chunks of up to 3, threshold 2: several compactions, short writes inside chunks and across them |
| `OrderedEffects` | publication and answers follow submission (`InSubmissionOrder`); nothing is pasted into a terminal that was read-only at the request (`ReadOnlyHonoured`); a file that was reported stays, any other is removed (`FilesAccountedFor`); requests are answered (`EveryRequestAnswered`) | 3 items, 2 pool threads: jobs complete in both orders around an item of input |
| `InitialSession` | a notification is never lost; tickets stay valid, the holder is live and one session consumes the command (`LeaseSafe`); grants are in order and carry the current snapshot (`GrantsSound`, `ImplementsLease`); who waits is resolved (`WaitersResolved`) | 3 controllers (a holder and two waiters, the fewest for an order), 2 payloads |
| `SessionLifecycle` | final output is shown (`FinalOutputShown`), only the session's own child is signalled (`PidIsOurs`), the pane's view (`ImplementsSession`); shutdown ends, output is read and the exit announced (`ShutdownCompletes`, `ChildObserved`) | PTY of 3 chunks, budget 2, 5 chunks written: the budget is spent, the PTY is full, and output remains at the exit |
| `SessionLaunch` | a preparation is made from files that were there while its session waited (`PreparedFresh`); a gated child runs its command only after the move, or under a soft policy after the attempt (`GateHolds`); a failed launch leaves no child and no descriptor (`FailedLeavesNothing`); launches end (`LaunchEnds`) | 2 workers, 2 requests, 2 edits, a cache and a flight table of one entry: joining, eviction, bypass, change and change back; each child forked while the other launch is anywhere |
| `ClipboardRequests` | a waiting request is on its way, queued or resolved, and the accounts are exact (`RequestNeverLost`); the dialog shows the head of its queue or is about to (`DialogFollowsQueue`); consent (`ImplementsConsent`); only the user keeps an application waiting, and shutdown never waits for the user (`NobodyIsStuck`) | 2 panes, two small requests of one and one, perhaps oversized, of the other, 2 entries and 2 bytes, sizes 1 and 3: full queues, oversized writes, a second request while the first one's signal is stale |
| `ConfigReload` | a service at rest has what is on disk for the scheme it is asked for, and that is the windows' scheme unless startup gave up on a file that oscillates (`QuietIsCurrent`); no load for an old colour scheme is applied (`NeverStaleScheme`); READY is said only when the newest requests are settled (`ReadyIsTrue`); with files that do not oscillate everything comes to rest (`Converges`) | 1 edit and 1 request against loads and retries of two services: every pair of them races; a file that includes another and asks for dark on a dark desktop, from then on for good (a result that requests one more load), and one that oscillates, either first or by the edit |
| `ApplicationQuit` | a wait for animations is for panes that animate (`WaitsAreLive`); a dialog asks about what is there and still asks (`DialogsAreLive`); the application can be quit again when the asker vanished (`QuitIsAnswerable`); what asks is closed with consent (`ClosedWithConsent`); `ImplementsQuit`; removals, windows and quits end (`ClosingEnds`) | 3 panes of which two animate, 2 windows, 1 lost window: a split or two animations next to another tab, an animation that is started again because the window closes too, a tab moved between windows, a quit asked in a window that vanishes |
| `KeyInput` | input reaches the child in order and not before the chain it was typed after is done (`InputInOrder`); what a binding consumed, release included, never does (`ConsumedStaysConsumed`); staged leaders have an owner (`StagedOwned`); input is never deferred for good (`KeyboardUnlocks`) | 2 keys, 3 presses or commits, chains of 2 worker actions, 1 loss of focus: a sequence, its binding and a key behind it; `MaxQueued`, `MaxTypedAtEnd` keep typing and ends from multiplying (a message waits when a key is typed; the end comes by the second key) |
| `OrderedEffectsFocus`, `ApplicationQuitConsent`, `KeyInputFocus` | *violated*, see section 7 | small, without fairness |

The type invariants are theorems (section 5); no run spends time on them.

Every run explores its whole state space. `CHECK_DEADLOCK FALSE` is set everywhere
because each system may come to rest: all is written, closed or answered.

The bounds are on data that the code treats uniformly (more bytes, more panes, more
requests repeat the same guards); what they must reach is each guard from both sides,
and a pair of actors in each order. Properties that are proved (section 5) do not depend
on them.

### Fairness

| module | assumed | because |
|---|---|---|
| `PtyWriter` | the start of the child completes; a ready descriptor takes at least one byte in the end | the event loop calls an armed notifier; a child that never reads is not promised delivery |
| `OrderedEffects` | jobs, queued completions and the end of shutdown | pool threads run; queued calls are delivered; shutdown waits for a bounded time only. No input, toggle or exit is assumed |
| `InitialSession` | the notification, each controller's poll, each worker's initialize, with either result | queued calls are delivered, threads run. No commit is assumed, only that initialize returns |
| `SessionLaunch` | each step of a worker, of the helper and of a child that is ready, while the application lives | threads and processes run; helper and D-Bus calls have timeouts. No edit of files and no crash is assumed |
| `SessionLifecycle` | every slot of the worker that is ready, the grace timer, and that a child that has been sent SIGKILL ends | event loop and kernel. The child is not assumed to write, exit or obey SIGHUP |
| `ClipboardRequests` | threads, queued signals, zero timers, deferred deletions, exit transitions; strong fairness for the start of a deletion | the GUI thread may be blocked on another pane's worker whenever a deletion is due, but each such wait ends. No answer of the user and no close is assumed |
| `ConfigReload` | file events, timers and queued results; strong fairness for the reads and the loader's second query, and for the completion | `Converges` promises nothing for a file that oscillates: its loads request each other for ever, and READY is not said (without that condition TLC finds the loop). It promises nothing either when every load fails: a read that is tried again and again succeeds in the end. A completion is due at once, a retry only after seconds, so retries do not starve it |
| `ApplicationQuit` | a step that is due is not put off for ever: animations end, queued publications and deletions run, timers fire, a committed removal goes on | one event loop. Written as one condition (`[]<>~Due \/ []<><<Discharge>>_vars`), which weak fairness of `DueStep` implies. No answer and no request of the user is assumed |
| `KeyInput` | the GUI thread's own steps, the start of the session among them, the worker, and the jobs that write files | event loops and pool threads run, and a waiting session starts (`WaitersResolved` of `InitialSession`); nobody is assumed to type, answer, exit or close |

## 5. What is proved

All theorems hold for every value of the constants under the `ASSUME` of the module
they are about.

For each component there is one inductive invariant, `IInv` (in `SessionProofs`, which is
about three components, also `LeaseInv` and `WriterInv`). The proofs show `Init => IInv`,
`IInv /\ [Next]_vars => IInv'` action by action, and what follows from it; TLC checked the
invariants on small instances before they were proved. Assumptions are only those
on constants; nothing is assumed about how often anything happens.

**SessionProofs, `PtyWriter`** (assumes a positive compaction threshold and natural
bounds). The invariant is `TypeOK`, `NoLostWakeup`, `StorageBounded`, a backlog that never
exceeds the recorded peak, and an empty storage without a PTY. The peak is needed because
the bound of the storage is stated in it. `RefinesStream` maps each submission to one
abstract step that shows the bytes the kernel took; its core is that what waits is
`SubSeq` of the storage after the prefix, and that compaction and append keep it
(`SequenceFacts`). The abstract stream has an invariant of its own (what was seen and what
waits, concatenated, is strictly increasing, and is exactly 1..sent before an error), from
which `StreamInOrder` and `StreamGapless` follow for the code.

**OrderedEffectsProofs** (assumes natural bounds and at least one pool thread; any number of
submissions and threads). `InSubmissionOrder` is not inductive: that the next thing
published comes after everything published needs that the queue is sorted, that its head
is a file that is not ready (`QueueOrdered`) and that nothing is known of a submission
that was not yet accepted (`Numbered`). `ReadOnlyHonoured` needs that no effect in the queue
carries a refused paste (`Refused`). `FilesAccountedFor` needs an owner for every directory:
its job, its posted completion, its effect, or the answer (`Owned`); the delicate steps are
a completion that finds the session stopping and a drain that answers several requests.

**SessionProofs, `InitialSession`** (assumes only that the absent payload is not a
payload). Four groups strengthen the properties: the coordinator's state agrees with its
holder and its waiters; each controller's and worker's phase agrees with its ticket; where
a ticket can be, given its controller's phase; and one consumer. The two parts of
`LeaseSafe`, `LeaseNeverBroken` and `ReservationLive`, are not inductive alone: that a
worker's commit finds its reservation needs that nobody can withdraw a ticket whose worker
was started. First come first served and the kept snapshot are action properties from the
same invariant. `RefinesLease` maps a removal with a promotion to one `Return`.

**SessionProofs, `SessionLifecycle`** (assumes positive budgets and `Capacity <=
FinalLimit`: the final drain can read all the PTY can hold). The invariant adds to the
properties that announcements match the phase (`SignalsMatch`), that the descriptor and
the pid exist in the phases that use them (`Resources`), that unread output fits the PTY
(`Buffered`), that reading stays armed, by one mechanism at a time (`ReadGated`), that no
child is left after its session (`ChildrenReaped`) and that a begun sequence is kept while
it can still matter (`Staged`). Without `Buffered` the final drain could stop short, and
the announcement would precede output: that is the one place where a constant of the code
matters.

**SessionLaunchProofs** (assumes that the application is not one of its workers, that
files have some version, and a cache of at least one entry; any number of workers,
requests and edits, whether or not a launch is followed on after its preparation). The
invariant has two parts that share only the stages. `LaunchOK` says what a launch has
opened, forked and decided at each stage, from which `GateHolds` follows for a child that
outlives its parent. `PreparationOK` says what a preparation, a flight and a cache entry
know about the files. The hard case is a session that joins a flight: what its leader read
before the session came must not be what it gets, and `WaitOK` says why not: either the
session saw those files too, or they changed twice since the leader looked, and then the
leader's second look differs (`swapped` excepts the change and change back that no
comparison can see).

**ClipboardRequestsProofs** (assumes that no pane is the absent one, natural limits and at
least one entry; any number of panes, requests and sizes). `PaneOK` relates a pane's
worker, bridge, reply and consent; `QueuesOK` says that no pane has two entries in the two
queues and that an entry is its pane's current request unless the bridge was closed;
`Known` that a worker still to be answered has a signal in transit or an entry.
`RequestNeverLost` alone is not inductive: without `QueuesOK` a drain could answer a
request by an entry of an older one. The account of the bytes (`LimitsHold`) is proved for
queues of any length from a definition by a recursive function: removal keeps order, and a
sum over fewer entries is not larger. `RefinesConsent` maps a request to `Ask`, an
accepted dialog to `Agree`, whatever ends the worker's request to one `End` and the
shutdown of panes to one `Close`; every other step is a stutter.

**ConfigReloadProofs** (assumes two services, natural bounds, and any contents of the
files, whichever scheme they ask for). `LoadOK` says that the load that runs is of the
newest request exactly if no timer or deferred request is pending, and that a load that was not dropped is for the scheme
asked for; `ResultOK` that its result is current unless a change is on its way to the
service; `FailureOK` that a failure shown has a retry or a newer request, never both;
`LifeOK` that the lifecycle, which sees only signals, waits for exactly the services that
are unsettled. `QuietIsCurrent` needs all four: a load of the newest request leaves a
current snapshot, and only then is the service quiet. `ImplementsReadiness` maps each
request to one `Request`, each newest result to a `Settle`, and a success that asks for
another scheme, which settles and requests in one event, to a `Request` (an options
change of the frontend service may request a load of the other one). `SchemeOK` says that
the scheme in use is what the snapshot in use asks for, whose proof follows each event
that changes a snapshot or the system's scheme, and that the service was asked for another
one only while that snapshot is of a file that oscillates. For `Init` this is `GivesUp`:
if the third round still leaves the two apart, no load since the second failed
(`AttemptOK`), so each of them was for another scheme and asked for the opposite one.

**ApplicationQuitProofs** (assumes at least one pane and one window and that the panes
that animate are panes; any number of panes, windows and lost windows). The first part has
lemmas about each operator of `WindowClosing`: it makes a good workspace of a good one
(`Good`), it leaves to the controller what is the controller's (`Keeps`: no new panes, a
closing window stays so, the question of a quit is not forgotten), and it takes away only
panes that are named or ask for nothing (`Spares`). `Good` adds to `WaitsAreLive` and
`DialogsAreLive` what they rest on: that in an open window only the panes of the deferred
removal are shut down (`ShutOK`), that the flags of the closing agree with its state, and
that within one event only the pane whose animation is just reported may have stopped
(`ClosingOK`). The invariant then says that no two windows share a pane and that
workspaces agree with the stage of their window (`WindowsOK`), that a quit that waits for
its answer has a registered host that asks or closes, or is to get one (`HostOK`), and
that the lifetime policy ends the event loop only without windows (`LifetimeOK`).
`ClosedWithConsent` follows event by event from `Spares`: what an event takes away was
covered by its dialog or asked for nothing. `ImplementsQuit` maps the controller's state
to four phases and each event to one step of the abstract protocol or none.

**KeyInputProofs** (assumes natural bounds, and that the bound for ends does not exceed
the one for typing; any keys, amount of typing, length of chains and loss of focus).
`InputInOrder` is about what was written, what waits in the worker's queue, what the
worker holds back and what the pane has deferred, and no step touches all four. The proof
looks at one sequence, the *flow*: the leaders that the worker holds back, as if they were
yet to be staged, and behind them its queue. When the worker holds back one more leader
the flow does not change; when it writes or drops a sequence the flow loses a prefix; the
pane only appends. `Good(sent, flow, Held, eaten)` says that the flow is in order
(`Sorted`), that nothing passes a leader before its sequence is resolved but a late commit
(`NoneOvertaken`), that a leader is still the pane's or will be resolved (`Staged`), that
the pane's leaders are no others than those (`Distinct`), and that the flow writes nothing
that was eaten (`Uneaten`). The first part of the proof has one lemma for each kind of
message the pane can append and each way the worker can shorten the flow. The second part
is about the pane: whatever is yet to be handled (the next key, the deferred ones, the
press of the chain) is later than all that was handled (`AllLimited`); a pane that runs a
chain has no sequence of its own, and what is deferred is in order (`PaneOrdered`); and
presses, releases and the marks of consumed keys match (`KeysOK`), without which a release
could be swallowed with the wrong press.

| theorem | states |
|---|---|
| `TypeCorrect`, `LeaseTypeCorrect`, `WriterTypeCorrect`, `TypeOKHolds` (one for each component) | its `TypeOK` |
| `WakeupNeverLost`, `StorageStaysBounded`, `RefinesStream` | `NoLostWakeup`, `StorageBounded`, `RefinesByteStream` |
| `StreamInOrder`, `StreamGapless` | the child's view: no byte reordered, repeated, invented; none missing before an error |
| `PublishedInOrder`, `RefusedStaysOut`, `FilesHaveOwners` | `InSubmissionOrder`, `ReadOnlyHonoured`, `FilesAccountedFor` |
| `NotificationKept`, `LeaseStaysSafe`, `FirstComeFirstServed`, `GrantsHonoured`, `RefinesLease` | `NoLostNotification`, `LeaseSafe`, waiters promoted in order, `GrantsSound`, `ImplementsLease` |
| `LeaseExclusive`, `PromotedWithCurrent`, `SnapshotKept` | one consumer; a holder's snapshot is the payload of its promotion and stays so |
| `NoOutputLost`, `ReadingNeverStalls`, `PidNeverStale`, `RefinesSession` | `FinalOutputShown`, reading stays armed, `PidIsOurs`, `ImplementsSession` |
| `EveryChildReaped`, `LeaderKept` | no child outlives its session; a sequence begun before the exit can dismiss it |
| `NobodyPassesTheGate`, `FailureCleansUp`, `PreparationsAreFresh` | `GateHolds`, `FailedLeavesNothing`, `PreparedFresh` |
| `LimitsHold`, `NeverLost`, `DialogsFollow`, `RefinesConsent` | the accounts and limits of the queues (`AccountsExact`), `RequestNeverLost`, `DialogFollowsQueue`, `ImplementsConsent` |
| `NoChangeMissed`, `SchemesAreCurrent`, `ImplementsReadiness` | `QuietIsCurrent`, `NeverStaleScheme`, `ReadyIsTrue` |
| `WaitsAreLiveHolds`, `DialogsAreLiveHolds`, `QuitIsAnswerableHolds`, `ClosedWithConsentHolds`, `ImplementsQuitHolds` | `WaitsAreLive`, `DialogsAreLive`, `QuitIsAnswerable`, `ClosedWithConsent`, `ImplementsQuit` |
| `InOrder`, `NeverWritten`, `LeadersOwned` | `InputInOrder`, `ConsumedStaysConsumed`, `StagedOwned` |

Only model-checked: everything under fairness (`AllDelivered`, `EveryRequestAnswered`,
`WaitersResolved`, `ShutdownCompletes`, `ChildObserved`, `NobodyIsStuck`, `LaunchEnds`,
`Converges`, `ClosingEnds`, `KeyboardUnlocks`), which the prover does not reach. Every
invariant, action property and refinement of the passing runs is a theorem. The library's
induction rules take a predicate as a parameter, which the provers here cannot
instantiate; where a fact about a sequence of any length is needed (the order of an
enumeration, the sum over a queue), it is proved by a least counterexample instead
(`LeastElement` of `SequenceFacts`).

## 6. Not modelled, and the plan

Parsing, encoding, rendering, colours, geometry, formatting, command-line handling and
the build are data transformations without shared state; they stay out for good, and they
are most of the code's lines (the VT adapter, the renderer, the export of configurations,
the inspector and the option parsers alone are a third of it). The rest is planned, in
this order:

1. Bindings for all panes (`ghostty_application_keybindings.cpp`): one execution over
   several panes with a barrier for their input, composed with `KeyInput`.
2. Search and link activation: generations of requests over the two queues between pane,
   controller and worker; only the newest is shown.
3. Single instance: who owns the activation name when launchers race and owners die
   between two steps; an activation is handled once.
4. The portal of global shortcuts: replies to sessions that have been replaced.
5. What is left out of modelled components (section 3): remembered clipboard choices,
   the order and selection of tabs, modifier keys and repeats.

## 7. Findings

`ReleaseFollowsPress` (run `OrderedEffectsFocus`): while a terminal file is being
written, a key press is queued behind it (`src/session/session_worker.cpp:1929`). When
the window loses focus, the releases of the held key and modifiers are written at once
(`src/session/session_worker.cpp:2534`), before the press that is still queued; the
press then follows and nothing releases it. `docs/architecture.md:309` says of input
that the worker keeps "mode changes and later input in one ordered stream". TLC's
counterexample has three steps: request a file, press a key, lose focus.

`QuitNeedsConsent` (run `ApplicationQuitConsent`): a window shows the question about
quitting the application. The last shell in that window exits. `commitTabRemoval` drops
the dialog and approves the window's close (`src/workspace/terminal_workspace.cpp:2829`)
with the intent to quit still set, the approval is published as that of the application,
and every other window closes with its processes, unanswered. The comment at
`src/workspace/terminal_workspace.cpp:3092` says that a state change in this one workspace
"must not silently resolve that process-wide decision".

`NoStaleIdentity` (run `KeyInputFocus`): a press waits behind an action, the focus is
lost, and the press is replayed and consumed by a binding. Its key is put into
`consumedKeys_` (`src/workspace/terminal_pane.cpp:3631`) although its release went to
another window; only a chain that waited for the worker compares the focus epoch
(4144). The release of the next press of that key is then swallowed.
`tests/test_terminal_pane.cpp:12095` says that a replay must not manufacture "a stale
consumed-key identity". Two relatives of it are excepted in the properties of `KeyInput`
(they say so): a release that is deferred when the focus is lost is written although its
press was consumed; and text that an input method commits cancels the sequence at once but
is itself deferred, so it overtakes leaders that are replayed before it.

One more is stated as the exception of `QuietIsCurrent` and the condition of `Converges`
instead of a run of its own. With the default window theme, where the colour scheme is the
luminance of the background, and `theme = light:<a dark one>,dark:<a light one>`, each of
the three attempts of startup (`src/app/main.cpp:484`) loads the configuration for the
scheme that the last one asked for, and gets one that asks for the other. The application
goes on with a configuration for one scheme and windows of the other, and requests nothing
more, although the comment at `src/app/main.cpp:482` says "Settle startup before
constructing QML controls". The first reload of such a file then does not end: each result
requests the next load before the completion is due, so systemd is not told READY until a
load fails or the file changes.

## 8. Running the checks

    tlc -config SessionLifecycle.cfg SessionLifecycle.tla     # any run: its cfg and module
    tlapm SessionProofs.tla                                   # any proof module

The cfg of a run has the run's name; `PROJECT.json` gives the module (`ClipboardRequests`
and `ConfigReload` use their `MC` module). The slowest run, `ApplicationQuit`, takes three
minutes, the longest proof, `KeyInputProofs`, five minutes on four cores.
