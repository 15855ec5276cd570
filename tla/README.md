# Verification of window-switcher

TLA+ specifications of window-switcher (`src/`, Rust, Windows), the TLC configurations that
model-check them on small instances, and TLAPS proofs of the properties that matter most for every
value of the constants. Paths below are relative to `src/src/` unless they start with `src/`.

    tlc -workers 2 -config Switching.cfg MCSwitching # one of the runs of section 3
    tlapm Mailbox_proofs.tla                         # one of the proof modules

## 1. The system

window-switcher is one process with one UI thread, which owns `App`. Everything the user does
reaches it from other threads: a keyboard-hook thread that must answer Windows within the hook
timeout, auxiliary workers that enumerate windows, load icons and search, and workers that change
settings or replace the running instance by another process. Nothing blocks the UI: it takes
mutexes with `try_lock` only, polls bounded channels, and is woken by posted messages that may be
lost, behind which a 50 ms timer stands (`INPUT_POLL_TIMER`, `app/runtime.rs:343`).

| component | state | operations | hard behaviour | what makes it correct | modelled by |
|---|---|---|---|---|---|
| gesture recogniser (`keyboard/state.rs`) | pressed and consumed keys, active gesture, session counter, injected Control | `handle`, `accepted`, `rejected`, `reset` | refusals, replaced gestures, resets under held keys, AltGr | no stuck key; a gesture lives while its modifier is held; one terminal event per session | InputMachine, InputGestures |
| input queue (`keyboard/dispatch.rs`, `window_target.rs`) | `sync_channel`, reservation counter, notification flag, acknowledged and revoked sessions, pause | `submit`, `enqueue`, `take_timed`, `acknowledge`, `revoke` | lock-free accounting between two threads, lost notifications, a full queue | exact counter, a slot for the terminal event, nothing of a finished session comes back | InputDispatch |
| UI turn (`app/input.rs`, `app/pause.rs`) | shown session, finishing flag, pause job | `drain_input`, `complete_switch`, `toggle_pause` | stale events, revocations without events | sessions only advance; an accepted Finish ends its gesture | InputDispatch, Session |
| hook thread (`keyboard.rs`, `keyboard/activation.rs`) | the recogniser, requested and applied activation | `process`, the activation message | callbacks running while input is turned off | acknowledged means quiet | KeyboardHook |
| switching session (`app/switching.rs`, `app/coordinator.rs`, `app/panel.rs`, `app/window_cycle.rs`, `app/details.rs`) | pending switches, the snapshot asked for, panel, cycle, focus to return to | `pump_switches`, `poll_switching`, `apply_app_snapshot`, finishing, cancelling | late snapshots, refreshes that reorder, presses before the panel, a desktop that moves, the 3 s timeout | the panel belongs to its session; the selection is where the presses led; the chosen window is the one in front | Session |
| search and details lists (`search.rs`, `picker/*`, `window_details.rs`) | rows and epochs, query, selection, close question | keys, pointer, wheel, input method, polls, row updates | rows replaced under the user's hand, late answers, auto-repeat, native callbacks inside an update | a window is opened or closed only as it was shown; one Return acts once | Picker |
| worker mailbox (`worker.rs`, `worker/request.rs`) | generation, request slot, bounded results, waiter | `request`, `cancel`, `take`, `close`, `receive`, `publish` | lost wakeups, backpressure, cancellation while publishing | the latest request is answered, in order, and nothing else | LatestResults, Mailbox |
| knowledge of the desktop (`foreground.rs`, `window_snapshot/*`, `mru.rs`, `process_metadata.rs`) | version and resolved foreground, lifetimes of handles, order of use, processes by pid | events on the UI thread; resolve, observe, scan, revalidate on the worker | reused handles and pids, reads overtaken by the desktop, busy locks, full tables | a verdict is about the window in front; an identity names the window it was taken from; a snapshot is complete or an error | Windows |
| icons (`icon_cache.rs`, `icon_loader/*`) | entries, leased bytes, request and results, icons on the page | request a page, load, insert, evict, flush, refresh | fewer bytes or entries than shown, failures, changed sources | what is shown stays cached; the page settles on its sources | Icons |
| previews (`preview/*`) | selection delay, lease of the compositor, window, retry times | `poll` step by step, retire, revoke | selection, permission, source and the place of the surface change between steps; a lease that cannot be given back | the picture is the selection; a lease has its window; a poll that looks leaves it beside the list | Preview |
| message loop, tray, jobs, notices (`app/runtime.rs`, `worker/job.rs`, `trayicon.rs`, `app/settings.rs`, `app/feedback.rs`, `app/report.rs`) | deferred messages, jobs and their threads, menu, pending notice | `dispatch`, `apply`, menu commands, `request`/`poll`, `notify` | re-entrancy, stale menus, threads that cannot be made or die, a shell that restarts | one change at a time; the menu keeps its word; everything asked is answered; an exit ends | Interface |
| restart handoff (`restart.rs`, `restart/*`, `app/lifecycle.rs`, `utils/single_instance.rs`) | phases of two instances, decision, pipes, mutex | `poll_lifecycle`, `Worker::run`, `ChildWorker::run`, `request_exit` | crashes, timeouts and cancellations at every step, an elevated child that cannot be killed | one owner of the input; someone serves in the end | Handoff |
| configuration (`config/document.rs`, `config/transaction.rs`, `config/settings.rs`, `config/watch*.rs`, `config/reload.rs`) | the file, its recovery copy, observed and offered versions | complete, save a setting, recover; `observe`, `next`, `complete` | an editor, two writers, failures and crashes between renames, a file that changes during a handoff | nothing the user wrote is lost; the last version comes into force or is reported | Documents, ConfigFile, Configuration |
| startup registration (`startup.rs`, `startup/*`, `utils/scheduled_task*`) | Run value, scheduled task, journal | inspect, reconcile, roll back | one of two changes fails, the rollback too, others change or remove the entries | autostart is never lost on the way; reports are true; foreign changes stay, as far as they can be told from its own | Registration |
| log (`config/logging/*`, `config/file_identity.rs`) | bounded queue, file, archives | append, rotate, clean up | two instances with limits of their own, failures and kills between steps, foreign and deleted files, an INI that is the log | lines in order; a loss is told while somebody can be told; nothing foreign is deleted | Logging |
| painting, accessibility, localisation, Win32 wrappers | | | rendering and I/O | | not modelled |

How they interact: the hook thread submits `InputEvent`s to the queue and posts `WM_INPUT_READY`;
the UI turn applies them and asks the snapshot, icon and search workers through mailboxes; their
results come back through the same turn. The snapshot worker also resolves the foreground, whose
verdict the hook thread reads. A changed configuration, or a change of elevation, starts a handoff,
which turns the hook off through `InputActivation`, releases the mutex, and waits for the child.
`PROJECT.json` lists every component and every hazard, at its line, with the properties that cover
it.

## 2. Modules

Each module models its code at the granularity at which another thread can interfere: one action
per access to shared state where threads share atomics (InputDispatch, Mailbox, Windows), one
action per handler where a thread is alone between two messages or two channel operations (Session,
Picker, Interface, Handoff), one action per operation of the file system where a process may die in
between (ConfigFile, Registration, Logging). Where a handler is long it is an operator from a state
record to a state record, and the action applies it. Definitions keep the source's names;
`PROJECT.json` maps each to its lines. A definition named as a mutant, right before the one it
changes, is a plausible bug of that code, used to show that the runs would notice it (section 3).

**InputEvents**: sessions, actions and events (`keyboard.rs`). A `Cycle` carries its kind and
direction, a `Finish` its kind.

**InputMachine**: the recogniser as operators on a record: `Handle` returns the new state, the
event and whether the key is consumed, with every early return of `InputMachine::handle` in its
order; `Accepted`, `Rejected`, `Reset` and `Seeded` as in the code. Decoding scan codes is
abstracted to key names.

**InputDispatch**: `submit`/`enqueue` on the hook thread and `drain_input` on the UI thread, in
about twenty control points. The UI's work for a gesture (waiting for snapshots, switching) is
left open: `BackgroundWaits`, `BackgroundCompletes`, `BackgroundFails`. What the hook thread
submits is open as well, except that sessions never decrease.

**KeyboardHook** composes the two: key events run through `Handle`, an event is submitted step by
step, the result feeds `Accepted` or `Rejected`, and the UI turns input off and on through
`InputActivation`. It implements InputDispatch (`ImplementsDispatch == Spec`: same variables, the
open submitting thread replaced by the recogniser).

**InputGestures**: the same hook with `submit` as one step that succeeds or fails, which leaves
room for complete sets of bindings, foreground permissions, injected keys and restarts.

**Session**: what InputDispatch leaves open. One turn of `drain_input` in its phases (deliver the
inputs, poll, pump), with a hook that submits and revokes, a snapshot worker that answers late or
dies, a request that ages to its timeout, and a desktop where windows open, close, reuse a handle
and take the foreground. `ghost` remembers what the user did, for the properties.

**Picker**: the window procedures only note what the user asks for; a later poll acts on it. The
record `v` is `ViewState`, `CloseState` and the native controls, `x` adds the session, the mailbox
and the user. `user` remembers what was on screen when the user acted.

**LatestResults** is the abstract contract of an auxiliary worker: the results of the latest
request only, each once and in order, nothing after it was given up.

**Mailbox**: `request`, `cancel`, `take` and `close` on the UI thread and a worker of the shape of
`SnapshotService::start`, split at every atomic, every mutex and `unpark`. The payload of a request
is its generation; a result is the pair of generation and index. It implements LatestResults.

**Windows**: the UI thread handles one native event in its steps (foreground version, requested
window, lifetimes), and the snapshot worker resolves the foreground, keeps the order of use and
scans, each read a step of its own. A process is a pid and its creation time. The hooks skip the windows of
this process (`Told`), and `Deliver` ignores its own foreground as `ForegroundStatus::request` does.

**Icons**: the page the UI asks for, the loader's walk over cache and sources, leases of bytes held
by cache, results and page, weak references, expiry and refresh.

**Preview**: `poll` from the selection's delay to the visible picture in about ten steps, and the
arithmetic of `PreviewLayout` as operators on rectangles. A request is a source, a surface and a place
(anchor, monitor, scale). `Relocate` moves or resizes the surface under the same selection, and `Begin` then
takes the new place and keeps delay, lease and visible window, as `SelectionDelay::select` does.

**Interface**: `made` and `stage` are `run()`'s resources, `handler` the message that borrows `App`,
`pending` the deferred ones. A menu is a handler that stays open while others arrive. Jobs, their
threads, the popup thread, the tray icon and the exit are fields of `ui`.

**Handoff**: the old UI, its restart worker, the child's control worker and the child UI. The two
workers are straight-line programs, so `Script` and `ChildScript` list their steps and one action
per kind of step executes them. `check()` is a step of its own (`Check`, `WorkerCheck`), because
what it saw may be stale when the value arrives.

**Documents** is the text of the INI, lines in sections, with `merge_missing`, `set_value` and the
validation of a document. **ConfigFile** EXTENDS it with the writers: each stage of `write_with_hook`,
recovery and rollback, beside an editor. **Configuration** adds launches, saved settings, the watcher
and the handoffs that put a version into force.

**Registration**: the background worker's inspection, plan, exchanges, journal and rollback over a
Run value and a task, the helper process that may be killed, and what the UI thread knows of it. `theirs`
remembers what others made of an entry, whether the worker could have noticed it (`noticed`: it came after
the entry was read, and not between a comparison and its write), and whether it is the same as what the worker
had made of the entry or was to make of it (`likewise`), which `rollback` cannot tell from its own.

**Logging**: the producers' queue, a worker of an old and of a new instance with limits of their own, and
the rotation in steps: each path inspected, each line copied. What is at a path, and whose it is, is state.
`Held` is what the handles of a worker keep others from replacing; the handle of the new archive is closed
before the log is emptied (`config/logging/rotation.rs:208`), so from then on the user may delete it. A
process is live, closing (the UI has ended, threads still log) or stopping (the queue is drained).

**MC\*** give the constants, of InputGestures with **GestureConfigurations**. MCSwitching, MCWindows,
MCPresentation and MCRecords each put together two modules that share no variable in the code either, and
let every execution move one of them (`part`), so one run asks about both. **\*_proofs** hold the theorems of section 5, and **SequenceFacts** the lemmas about
sequences that several of them need.

## 3. Runs

| run | module | what it checks |
|---|---|---|
| dispatch | InputDispatch | the queue's accounting under all interleavings, the slot of the terminal event, no return of finished sessions; revocations and accepted Finishes take effect although notifications are lost |
| keyboard | MCKeyboard | recogniser and queue together implement InputDispatch; nothing follows a terminal event; acknowledged means quiet |
| switching | MCSwitching | the gestures: no stuck key, gestures end once and live with their modifier, AltGr types, in three configurations; the session: the panel belongs to its session, the selection follows the presses and held presses visit every window, an activation lands and is not undone, a released switch ends |
| pause_release | MCGestures | finding: the release of a swallowed pause press can leak |
| picker | MCPicker | acts on what was shown only, once per Return, on rows that answer the text; a question survives a refresh; a waiting list is answered |
| windows | MCWindows | the verdict is about the window in front, identities identify, snapshots are true, resolution settles; the mailbox loses no wakeup, implements LatestResults and answers |
| presentation | MCPresentation | the preview shows the selection or nothing, keeps its leases, and every poll that looks leaves it beside the surface where that now is; shown icons stay cached; both settle on their sources |
| interface | MCInterface | one change at a time in the order of the messages, the menu keeps its word, everything asked is answered, an exit ends |
| handoff | Handoff | one owner of the input, resume only beside a dead child, leave only for a keeper, someone serves, orphans end |
| configuration | MCConfiguration | nothing the user wrote is lost whatever fails or dies, completion is faithful; the last version is settled |
| records | MCRecords | autostart is not lost, reports are true, others' entries stay; log and archives in order, losses told, nothing but the user takes lines away unarchived, foreign files kept |
| removal | MCRemoval | finding: the rollback overwrites a removal by others |

Several properties are conjunctions of named parts (`OneInstance == InputNeedsMutex /\ ResumesAlone`,
`PreviewIsTrue == []PictureIsTrue /\ LooksClear`, ...), which the modules define
and comment one by one. `PROJECT.json` names one mutant for each property. Parts that this mutant does
not break have one of their own beside the definition it changes:

| part | mutated operator | | part | mutated operator |
|---|---|---|---|---|
| SwallowedRelease... | `AcceptedKeepsOld` | | NothingAfterTheEnd, over refusals | `RejectedKeepsGesture` |
| NoSleepOnRequest | `WakeSleeperOnly` | | InputNeedsMutex | `SuspendedAtOnce` |
| HeldPressesVisitAll | `NotReconciled` | | RowsAnswerTheText | `ChangedOffering` |
| ReturnActsOnce | `EnterKeyRepeating` | | FirstIsForeground | `ObservedOnce` |
| CompletedFaithfully | `NeverDocumented` | | OthersWin | `AnyValue` |
| OthersFilesStay | `Always` | | LossIsTold | `Forget` |
| LeaseHasWindow | `NothingLeft` | | PictureIsSelection | `AnySource` |
| SettlesOnSource | `KeepsAny` | | InOrder | `AnyKind` |
| Answered, of jobs and of notices | `OnlyAnswers`, `LeavesSilently` | | | |

### Bounds and why they suffice

- `Capacity = 2` stands for 64: the code distinguishes full, one slot left, and more; two is the
  smallest queue with all three. The proofs cover every capacity.
- `MaxSession` stands for `u64::MAX`. The run `keyboard` has two sessions, a finished one and a newer
  one, and reaches the counter's exhaustion (`keyboard/state.rs:261`); the run `dispatch` has one, as
  its safety properties are proved for every number of sessions.
- `MaxActivations = 2`: input goes off and comes back.
- `Limit = 2`, `Results = 3`, `MaxGeneration = 3`: a request produces more results than the queue
  holds, and two later requests or cancellations interfere. `MaxGeneration` also stands for
  `u64::MAX`, whose overflow closes the mailbox.
- `MaxHandoffs = 2`: a failed handoff is followed by another one, from the state the first left.
  The handoff has no clock: a deadline, a superseded candidate, a failed post and a failed kill are
  choices that may happen at every step where the code checks for them.
- Session: three windows of one, two or three applications, and two or three moves (a hotkey, a
  window that opens, closes or comes to the front), so that a window vanishes or changes places
  between a press and its release. Five setups separate the kinds, orders and options.
- Picker: two windows, a page of one row (so that a row can leave the screen), one or two texts and
  two refreshes; six instances give the user keys, pointer, wheel or input method.
- Windows: two or three handles, two processes with one pid, tables of one to three entries. Each
  setup spends its moves, busy locks and scans on one race.
- Icons: two windows; `Base` has room for both and a change and a failure of a source, `Tight` no
  image to spare, `Narrow` one entry for two windows and one that goes away. Preview: two handles, a
  panel that grows to the middle of the monitor and a search at twice the scale, one change of the world,
  two selections or moves of the surface, one failure anywhere; a pixel of the model is a gap of the layout.
- Interface: `MaxDeferred = 2` for 64 messages and `Retries = 1` for 5; seven setups spend a budget of
  messages, clicks, faults, crashes of the shell, notices, candidates and shortages of threads; `Early` opens a
  menu before the first message has started the services.
- Configuration: five settings in three sections; every text of a small grammar (values out of range,
  colliding hotkeys, sections in pieces, notes out of place) is completed and edited once; failures,
  crashes, an editor and the watcher work on a few of them.
- Records: every pair of entries and every preference with two failures; a few of them with others'
  changes and removals, exits and launches; the run `removal` has one launch, one change by others and no
  failure. The old process keeps two archives of up to three lines, the new one one of up to two; two lines
  are written to three slots from five histories (nothing, a log that is too long, every path used, copies
  of one log left by killed workers, an unmarked file), with one kill, one fault, one intrusion;
  `MaxSequence = 4` stands for `u64::MAX`, and one history comes to it.

`CHECK_DEADLOCK FALSE` appears only where the program, or the budget of the world around it, may
really stop (both processes have ended, the application has closed, nothing more happens).

### Fairness

Everything the UI does periodically rests on `INPUT_POLL_TIMER`, whose `WM_TIMER` runs `drain_input`
(`app/runtime.rs:287`), and through it `poll_lifecycle`, `poll_pause`, `poll_switching`, `poll_search`,
`flush_panel` and `poll_preview` (`app/input.rs:10-81`). Threads of the program run. Nothing is assumed
of the user, of other programs, of posted messages, of failures or of crashes.

- dispatch: weak fairness of UI turns and of the hook thread's steps inside a callback; strong
  fairness that a finishing gesture completes or fails, which is what Session's `SwitchCompletes`
  shows of it. Nothing forces a notification to arrive, a key to be pressed or released.
- switching: of the session, turns go on (`[]<><<TRUE>>_<<pc, taken>>`, which is weak fairness of the turn as one of its
  steps is always enabled), and a request grows old (`RequestAges`, the 3 s timeout). The worker need
  not answer. The gestures have no liveness property; that keys are pressed and released, in the same
  formula, has no consequence for them.
- picker: the posted hint is taken in the end (it is what the timer's poll takes too), the workers
  answer as long as they live.
- windows: weak fairness of the UI's event in progress and of the worker. The mailbox: weak fairness of
  UI calls and of the worker (parks time out, operations return); strong fairness of `take` (it is
  polled every 50 ms and the worker holds the mutex briefly, so `try_lock` does not fail for ever).
- presentation: weak fairness of polls, of the loader thread and of the passing of time.
- interface: weak fairness of the loop and its handlers (the user closes a menu), of the timer, of the
  taskbar's message after a shell has started, of job threads and the popup thread; the shell returns.
- handoff: weak fairness of each UI's poll, of the workers (every wait has a deadline), of hook
  threads applying posted messages, and of the end of a process that was told to end or was killed.
- configuration: weak fairness of the reading and writing thread, the watcher, the UI and an exit in
  progress. `ReadingIsFair` is weak fairness of `Reading`, spelled out with the condition that enables
  it, as TLC evaluates `ENABLED` of a long action slowly.
- records: safety only.

In MCWindows and MCPresentation, `Either` gives two steps, one of each part, one fairness condition:
only one part ever moves in an execution, so it is fairness of that part's step.

## 4. Findings

- **A leaking release** (`pause_release`). When the foreground denies the open gesture on the very
  release of the pause key, the `Cancel` of `keyboard/state.rs:169` is returned with
  `consume: false`, before the code that would swallow the release. The test at
  `keyboard/state.rs:473` names the opposite.
- **A removal undone** (`removal`). The worker is about to remove an entry and others remove it first: the
  exchange fails, and the rollback finds `None`, which is also what it has journalled as its own result
  (`startup/transaction.rs:239`), so it writes the old entry back over their removal. The message on the
  next line, and the name of the test at `startup/transaction/tests.rs:149`, say that what others changed is
  never overwritten. `OthersWin` says what remains true.

Observed while modelling, and not stated as findings:

- A surface that moves or grows under the same selection keeps its picture (`preview/selection.rs:15`), and
  `poll` does not lay it out anew while its last look is less than an interval old (`preview.rs:110`) or a
  failure waits for its retry (`preview.rs:126`). Until then the preview may lie over the list, of which
  `src/window-switcher.ini:702` says that it is not covered. `LooksClear` names these two waits as its only
  exceptions.
- A pause key that is held across the reset of a restart toggles again: `reset()` clears `pressed`
  (`keyboard/state.rs:118`), and the next key-repeat looks like a first press, where
  `src/window-switcher.ini:288` says that holding does not repeat.
- A handoff whose elevated child has acknowledged its acceptance while the parent timed out leaves the
  old UI suspended beside the child that serves, until that child ends (`restart/parent.rs:143`; the
  child serves, so `SomeoneServes` holds). A child that crashes right after writing `AcceptedAck` is not
  noticed, and the old instance leaves. A window destroyed between the acceptance and `Accepted` takes
  the child with it.
- A lock found busy while the foreground is noted is not tried again until the foreground changes.
  `WindowLifetimes::event` raises the revision before it changes the entry, so a reader between the two
  may keep a dead identity until the next event. A window whose event arrives during a scan is left out
  of it. `NoneForgotten` and `FirstIsForeground` say what remains true.
- After the search worker's failure was shown once, typing clears the message and no poll shows it
  again (`WaitingEnds` accepts that the session knows of the failure).
- After an exit was requested during a handoff the menu still offers the report, which then fails. A
  notice whose thread cannot be made waits for the next notice. A job whose thread cannot be made the
  first time never has one (`worker/job.rs`); its requests are refused.
- The inspection of the startup entry begins with the services. A menu that was opened before may have
  begun a pause or a setting by then, and the inspection runs beside it (`app/settings.rs`); it changes
  nothing of the configuration, so one change at a time remains true.
- Under memory exhaustion a good older icon may give way to the generic one.
- A rotation may drop up to `HEADER_LIMIT` bytes of the oldest lines. A kill between creating an
  archive and writing its header leaves an unmarked file at which every later rotation stops; a kill
  after the header leaves a partial archive that counts as complete.
- A kill or failure between copying the log and emptying it leaves the archive beside the log, and the
  next rotation copies the same lines again, where a full set of archives may drop an older one for it.
  `Chronicle` lets lines repeat for copies of one log only.
- Between the closing of the new archive and the emptying of the log (`config/logging/rotation.rs:208`, 209)
  the user, or another program, may delete the archive, and the log is emptied all the same.
- What is lost after the UI has ended, while the last lines are written, nobody is told
  (`config/logging/worker.rs:122`).
- Of a startup entry the comparison and the change are two operations, and a change by others between
  them is overwritten (`OthersWin` excludes that moment). So is one that makes of an entry what the worker
  had made of it too and undoes later. A rollback that an exit cuts short is reported
  as not restored. A standard process cannot put back a task with highest privileges.
- Of duplicate sections in the INI only the first is in force, and saving a setting that stands only in
  a later one fails. Retries used up by an unresolved recovery leave a version unapplied until the
  file changes again.

## 5. Proofs

All proofs are of safety, for every value of the constants, under the named assumptions of the
modules: `CapacityAssumption` (a capacity of at least two), `MailboxAssumption` and
`InterfaceAssumption` (bounds are numbers), `RegistrationAssumption` and `LoggingAssumption` (what the
enumerated entries, setups and histories are; a history is in order itself; each process has limits of its
own), `PreviewAssumption` (the places of a surface are in a work area whose corners are in order -
`preview/layout.rs:24` rejects others -, positive scales and sizes, a finite set of budgets), `SessionAssumption` (a surface of this program is none of the listed windows, a
window stands once on the desktop at the start, the setups are well formed), and that the model value
`None` is no value of the data. Every inductive
invariant was first checked by TLC on the run's instance.

**KeyboardHook_proofs**, on the queue. The counter is not inductive alone, because it is changed before
or after the channel. `Inv` is the conjunction of `Flags`, `Counters` (the marks and sessions), `Control`
(inside submit an event is at hand) and `Queue` (the counter is the channel's length, plus the one
reservation and the one release in flight, and never above the capacity). Each action is one step under
each conjunct it can disturb.
From `Invariance`: `TypeCorrect` (the counter never wraps below zero, which matters because
`take_timed` sizes a `Vec` by it), `CounterExact`, `SendNeverFails` (the `Full` branch of
`try_send` is dead), together `QueueSound`, which is the run's `QueueIsSound`; `TerminalSlot`; and the
action property `SessionsAdvance`.

**KeyboardHook_proofs**, on the hook. InputDispatch leaves open what its submitting thread submits;
`HookImplementsDispatch` is that the recogniser, the activation message and the UI's switching of input
do what is left open and no more (`ImplementsDispatch`). First the pure half: whatever the key, the
bindings and the foreground's permissions, a decision of `Handle` (`Deciding`, `Handling`) is one of
four: `Nothing`, `Pauses`, `Continues` (an event of the gesture in progress, which has not had its last,
and is marked by its last) or `Opens` (the first event of the next number). Then `HookInv`: `Inv`; the
gesture in progress is the newest session, of a bound kind (`IsMachine`); what is being submitted is of the
newest session and its refusal ends it (`Submission`); without a gesture the newest session is over
(`NoneLeftOpen`), which makes the UI's drain after an acknowledgement safe; while input is off no
callback is inside submit (`Quiet`); the gesture whose last event was submitted is marked (`Endings`)
and over before another one opens (`EndedOver`); and a Finish on its way is the last event of its
session (`FinishesKnown`). From the same invariant `NothingFollows` (`NothingAfterTheEnd`), and through the refinement
`HookQueueSound`. The assumption on the bindings is `HotkeysAssumption`: the kinds that are bound and the
directions their keys give are among those of the queue. The proof found a case the run had missed:
at the last session number a gesture that another binding replaces is dropped and not ended
(`keyboard/state.rs:261`; in the program after 2^64 gestures), so `SuspendDrain` allows for it now. It
may do so only while no Finish of a session that is not over is on its way; with less the run `dispatch`
refutes `FinishCompletes`.

**Mailbox_proofs.** "The worker that sleeps has been told" is not inductive because the worker and
the UI pass through each other's half-finished calls. `Inv` adds `Marks` (order of generation, slot,
job), `Registered` (the waiter is registered before the slot is read), `Superseded` (a request in
progress has advanced the generation, so nothing older is current), `RequestsTold` (from `filter` on,
not only in `park`), `RoomTold`. From it `RequestWakesWorker` and `RoomWakesWorker`, together
`WakeupsArrive`: the run's `NoLostWakeup`.

The second half shows that the mailbox implements its contract: `HandsOverTheLatest` is
`Spec => DeliversLatest`, every step being an `Ask`, a `Deliver`, a `GiveUp` or a stutter of
`LatestResults` (`ContractStep`). What carries it is `Hand`: the queue holds results of one request
only (`Uniform`, because what the worker finds under the lock is never older than its request,
`Ordered`), only the request asked last is ever current (`Asked`), nothing has been done for one that is
still on its way (`Untouched`), and what waits continues what was handed over, of which the worker has
counted every result (`Following`, `Counted`). That retain() and take() keep all or nothing of such a
queue (`FreshIsAllOrNothing`) follows from the recursive definition of `Fresh` by its least
counterexample; the contract states no liveness, so the theorem is the whole of the run's property.

**Handoff_proofs.** `OneInput`: the invariant is that an instance without the mutex is `Quiet`: its
hook is gone, or neither its applied nor its requested generation says active. The requested
generation is what makes it inductive: an acknowledgement may arrive long after the mutex changed
hands. That makes the mutex alone the reason two instances never take the same key, whatever the
messages do. `NeverResumesBesideChild`: a `FailedSafe` in the queue, and the phase `Restoring`, imply
that the worker has ended and the child is dead; nothing can spawn a child from there. `Exclusion` joins
them: the run's `OneInstance`.

The second half of the module is about the handshake itself: `ScriptIsKept` (`GoesByScript`). What
makes it inductive is that the two scripts and the queues between them are never more than one exchange
apart: `Paced` (an event is there only at the three steps after which the worker waits, and the command
it waits for only after it), `Sent`, `Posted` and `Answered` (each pipe holds at most what the reader's
step has still to take), `Ended` (a worker that has ended leaves only news of its failure), and `Keeper`:
whoever has heard `AcceptedAck`, in the pipe, in the script or in the old UI's queue, has a child past
its last check.

**Records_proofs**, on the startup entries. The journal carries the proof (`JournalInv`, `SystemInv`): of an entry that
is not in it the system has what was read, and of one that is it has what was tried or, for the last
attempt only, still what was read. `PlanInv` says that what is left of the plan and what is in the
journal together make the wanted state, the removal of the other entry after the creation of the wanted
one. So `AutostartNeverLost` (an autostart that was on and is wanted stays on at every moment, also of a
rollback that fails), `ReportsAreTrue` and `OthersAreKept`, together `EntriesStayTrue`, for any entries,
policies, failures, exits and changes and removals by others. `OthersAreKept` rests on one more fact: a
change that was noticed, and is not what the journal or the plan has of the entry, is still there, since a
comparison finds neither `before` nor `after`.

**Records_proofs**, on the log. The mutex carries the proof (`ExclusionInv`): what a worker has seen and made of
the archives stays true until it is done with them (`RotationInv`, per control point: the slot it has
created is the newest, empty or the copied part of the log). Of an archive it is enough that it remembers
the first line of the log it copies: `InOrder` says line by line that the log is the last lines written, that
those of an archive follow one another, and that they precede every later archive and the log unless these
begin at the line it was copied from. From it `TheChronicleIsInOrder` and, with the accounts of `LossInv`
(lines sent are kept, queued or lost, and a loss is recorded until it was told), `LossesAreTold` while the UI
runs; together `LogStaysTrue`. `FilesStayKept` is the action property `FilesAreKept`: that the newest
lines are in the newest archive is established by the last line copied, and only a step of the user takes
it back.
The lemmas under it are about minimal and maximal numbers of finite sets, from the well-foundedness of
the natural numbers.

**Interface_proofs.** `Sound` is what the application is between any two operations of a handler: at
most one job changes the configuration, a handoff is under way only beside none, nothing of the
startup entry is known before the services run. Each operation of the module `Leads` from a sound
application to a sound one in which the target stays closed and services stay started; the handlers are
compositions of them (`HandlingLeads`, `RunLeads`). `Deferral` orders the messages: the deferred ones wait
behind the handled one and have opened no menu. With `MenuKeepsItsWord` itself, which holds because
nothing that runs `Aside` of an open menu changes what it offered, the invariant is inductive, and gives
`NothingGetsAhead` (`OneThingAtATime`) and `MenuIsHonest`.

**Preview_proofs.** The numbers first: `LayoutClear` says that whatever `calculate` returns lies in the
work area, beside its surface, and has room for a content, for any rectangles, scales, sizes and
budgets; that the best of the slots exists, and its widest content, follows from bounded sets of
numbers having a least and a greatest element. Then the poll: `Control` (what every step knows of
window, lease and selection), `Lease` (a lease that was not kept back is of the handle selected, not yet of
the window: `Measure` is where the two become one) and `Picture` (a presentation is a layout for some place,
live only with the selection's lease). From these `PictureIsTrue`; and the lemma `PreviewLooksClear`
is the action property `LooksClear`: with `Delayed` (what is presented has waited for its delay) the only ways
to end a poll with a visible preview are the step that shows it, after `prepare` has laid it out for the place
of the request, and the two waits that the property names. `PreviewStaysTrue` joins the two: the run's `PreviewIsTrue`.

**Session_proofs.** A handler of the UI thread runs to its end, so the invariant speaks of a turn's state
as one record, `Whole`, and each operation has a lemma that takes a sound record to a sound one; a step
is then a composition of operations (`Acting`, `Polling`, `PollingTheView`, `TurnKeeps`). Neither
`PanelBelongs` nor `ActivationLands` is inductive. The first needs `Owned`: the request under way was
made for the session, since it is the answer that becomes the panel's owner; and `IsPanel`, which asks
of a panel that an answer lists a window once and that old and new entries share no application
(`Ordering`), and of any number of presses that they stay inside the list (`MovingTheSelection`). The second
needs `Landed` in the middle of a step: what follows an activation there - hiding the panel,
closing the view, giving the focus back - takes the foreground from surfaces only, and no surface is a
window (`LandedIsAWindow`, `GivingUp`), and the panel is not painted over it (`Pumping`, `Flushing`). Closing
and reopening a handle changes its lifetime and not the order, so a landed identity stays current.
`TurnsStaySound` is the invariant; `PanelStaysWithItsSession` and `ChosenWindowsLand` are the run's
properties. Filters, the walk over the windows and the moves of the selection are recursive functions;
that each exists and keeps what a step keeps is proved by the least number for which it would not
(`Keeping`, `WalkingWindows`), which needs no induction theorem. The proof also showed that an earlier
`ApplyAction` had two CASE guards true of a search's key, which TLA+ leaves open and TLC resolves by the
first; the guards are disjoint now, as the arms of the `match` are.

**SequenceFacts** has what the proofs need of `Append`, `Head`, `Tail`, `SubSeq`, `Front`, `Last` and `\o`.

Only model-checked:

- all liveness, which TLAPS cannot prove (`ENABLED` and fairness);
- the recogniser's properties, which quantify over a history of key presses that a fold decodes;
- `SelectionIsTrue` (Session): it compares the selection with the net of the presses, which a fold counts,
  through refreshes that reorder the list;
- `VerdictOfForeground`, `LifetimeIdentifies` (Windows), `WritesKeepAll` (Configuration) and `ActsAsMeant`
  (Picker): what they say is about the result of folds and selections over rows, lines or entries. The
  library's induction theorems take an operator as a parameter, and the values of `SelectSeq` and of the
  folds are given by recursion, so they need the formulation Session has now first (section 7);
- the page of Icons.

## 6. What the models leave out

- Metrics, wording and logging by other components everywhere; the decoding of scan codes; the time
  between the seeding of modifiers and the installation of the hook (`keyboard.rs:217`).
- Memory is sequentially consistent. The shared atomics use acquire/release on single variables, and
  where two are read together (`Permits`, `Handle`) the model reads them at once: each only grows, so
  a later value only denies more.
- The activation message is handled in one step: it runs on the hook thread, between callbacks. A
  stopped hook behaves like one whose target is closed.
- `ShowDetails` may take the slot reserved for terminal events (`keyboard/dispatch.rs:104`), as in
  the code: `TerminalSlotReserved` says "not a Cycle".
- Mailbox: `take` with the mutex busy is no step; the filter of `take`, the worker's closing after a
  failed start, and the two reads in `Filter` are grouped. A panicking operation ends its thread.
- Handoff: sending the configuration snapshot to the child, which the `Spawn` step stands for, and the
  services a new instance starts; the child becoming the next old instance; unexpected signals (each
  side fails on them, and none is sent); an error of `try_wait` in `await_cleanup`, which Win32 returns
  for an invalid handle only and which would leave the old instance suspended without a word.
- Session: layout and hit tests, icons, timings, the surface's painting failures. `SetForegroundWindow`
  grants or refuses.
- Picker: matching and phonetics (any answer to the text, ranked), placement, painting,
  announcements, the help and the clear button.
- Icons: duplicates in a request, names, pending counts, COM failures, decoding. A refresh falls due
  only after the page was answered. Preview: the tooltip's place above it, painting, GDI resources, an
  error of the compositor's composition state, its status line.
- Interface: messages before the loop runs, editing the INI, drawing, the polls that Session, Picker,
  Preview and Handoff model (a handoff is its outcome here). A message of any kind may arrive at any
  time, also while any handler runs: a superset of what Windows delivers.
- Configuration: encodings, line ends, leftover temporary files, the wording of a rejected candidate,
  the check that the log can be written, security metadata that cannot be copied.
- Registration: the task's XML beyond owner, policy and text; a request of a killed helper that takes
  effect later; panics. Logging: the format and limit of a line, a line handed over while the worker
  stops, lines written in part, pinned directories, a log that the user himself deletes or cuts while the
  program runs; the 2 s an exit waits counts as a kill.

### Not modelled

Restart transport and process identity (Win32 pipes and tokens: the handoff's channels break when
it likes), diagnostics (counters), accessibility (COM plumbing that repeats the state of the panel and
the picker), painting, layout and fonts (rendering; the font loader is one more service of the mailbox's
shape), localisation and profiles (texts), Win32 wrappers and installation scripts. The parsers of
single values and the matcher of the search are text algorithms without state, which unit tests cover.

## 7. Plan

The modules planned are written, and of the runs' invariants those of the dispatch, the keyboard hook,
the mailbox, the handoff, the interface, the previews and the records are proved, and two of the three
of the session. What is left, in this order:

1. `SelectionIsTrue` (Session), from `Inv` and a lemma that the net of appended presses is the sum.
2. Type invariants of Mailbox and Handoff as theorems, from the invariants proved.
3. `VerdictOfForeground` and `LifetimeIdentifies` (Windows): versions and stamps only grow; needed first:
   that a filtered sequence has no element that was not there before.
4. `WritesKeepAll` over an abstract document: one of the file, its recovery and the writer's handle has
   what the user wrote.
