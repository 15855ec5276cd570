-------------------------------- MODULE Handoff --------------------------------
(***************************************************************************)
(* Replacing the running instance by a child process (src/restart.rs,      *)
(* src/restart/*.rs, App::poll_lifecycle in src/app/lifecycle.rs).  Four   *)
(* threads take part: the UI of the old instance, its restart worker, the  *)
(* control worker of the child and the UI of the child.  The workers talk  *)
(* over a pipe each way, and to their UI through bounded channels; what    *)
(* they hand over is the keyboard hook, guarded by a named mutex.          *)
(***************************************************************************)
EXTENDS Naturals, Sequences

CONSTANTS
  Elevations,      \* whether the child may be an elevated process, which cannot be killed
  MaxHandoffs      \* bound on the restarts requested

VARIABLES
  \* the old instance
  old,             \* "up", "stopping" (finish_exit), "closed" (window destroyed),
                   \* "stopped" (hook removed), "gone" or "dead" (it crashed)
  phase,           \* Lifecycle.phase
  exiting,         \* Lifecycle.exit_requested
  restart,         \* Lifecycle.restart is Some
  events,          \* ParentEvents for the UI
  commands,        \* ParentCommands for the worker
  decision,        \* Decision
  parent,          \* the step of Script the restart worker is at, 0 when it has ended
  checked,         \* check() has passed in its present wait
  rollback,        \* "none", "abort" or "await": the worker's clean-up of a failure
  \* the child
  child,           \* "none", "up", "stopping", "stopped" or "gone"
  elevated,
  killed,          \* TerminateProcess was called on the child
  childPhase,      \* its Lifecycle.phase
  childEvents, replies, canceled,
  worker,          \* the step of ChildScript its control worker is at, 0 when it has failed
  workerChecked,   \* its wait() has found the parent alive
  \* between them
  down, up,        \* the pipes to and from the child
  linked,          \* the parent has not let go of its ends
  mutex,           \* owner of the named mutex, "none" when free
  requested, applied, posted,   \* InputActivation of each instance
  installed,       \* its hook thread runs
  handoffs

ui == <<phase, exiting, restart, events, commands, decision>>
parentVars == <<parent, checked, rollback>>
childUi == <<childPhase, childEvents, replies, canceled>>
pipes == <<down, up, linked>>
input == <<mutex, requested, applied, posted, installed>>
childWorker == <<worker, workerChecked>>
process == <<child, elevated, killed>>
vars == <<old, ui, parentVars, process, childUi, childWorker, pipes, input, handoffs>>

Instances == {"old", "new"}

Step(do, what) == [do |-> do, what |-> what]

\* Mutant: the old instance leaves before the child has acknowledged.
ScriptLeavesEarly == <<
  Step("Spawn", ""),
  Step("Wait", "Prepared"), Step("CheckCurrent", ""), Step("Event", "Suspend"),
  Step("WaitUi", "Suspended"), Step("CheckCurrent", ""), Step("Send", "Activate"),
  Step("Wait", "Active"), Step("CheckCurrent", ""), Step("Event", "Ready"),
  Step("WaitUi", "Commit"), Step("CheckCurrent", ""), Step("Send", "Commit"),
  Step("Wait", "Committed"), Step("Event", "Done"), Step("Decide", ""),
  Step("Send", "Accepted"), Step("Event", "Complete"), Step("Wait", "AcceptedAck") >>

\* run(): the child is spawned, negotiate(), the decision and its acknowledgement.
Script == <<
  Step("Spawn", ""),
  Step("Wait", "Prepared"), Step("CheckCurrent", ""), Step("Event", "Suspend"),
  Step("WaitUi", "Suspended"), Step("CheckCurrent", ""), Step("Send", "Activate"),
  Step("Wait", "Active"), Step("CheckCurrent", ""), Step("Event", "Ready"),
  Step("WaitUi", "Commit"), Step("CheckCurrent", ""), Step("Send", "Commit"),
  Step("Wait", "Committed"), Step("Event", "Done"), Step("Decide", ""),
  Step("Send", "Accepted"), Step("Wait", "AcceptedAck"), Step("Event", "Complete") >>

\* ChildWorker::run
ChildScript == <<
  Step("Reply", "Prepared"), Step("Write", "Prepared"), Step("Command", "Activate"),
  Step("Current", ""), Step("Post", "Activate"), Step("Reply", "Active"),
  Step("Current", ""), Step("Write", "Active"), Step("Command", "Commit"),
  Step("Current", ""), Step("Post", "Commit"), Step("Reply", "Committed"),
  Step("Write", "Committed"), Step("Command", "Accepted"), Step("Current", ""),
  Step("Post", "Accept"), Step("Reply", "AcceptedAck"), Step("Write", "AcceptedAck") >>

\* the control worker has written AcceptedAck and no longer watches its parent
Kept == Len(ChildScript) + 1

Active(p) == installed[p] /\ applied[p] % 2 = 1

Acknowledged(p, on) == (requested[p] % 2 = 1) = on /\ applied[p] = requested[p]

Canceled == IF decision = "undecided" THEN "canceled" ELSE decision

Init ==
  /\ old = "up" /\ phase = "Running" /\ exiting = FALSE /\ restart = FALSE
  /\ events = <<>> /\ commands = <<>> /\ decision = "undecided"
  /\ parent = 0 /\ checked = FALSE /\ rollback = "none"
  /\ child = "none" /\ elevated = FALSE /\ killed = FALSE
  /\ childPhase = "Preparing" /\ childEvents = <<>> /\ replies = <<>> /\ canceled = FALSE
  /\ worker = 0 /\ workerChecked = FALSE
  /\ down = <<>> /\ up = <<>> /\ linked = FALSE
  /\ mutex = "old"
  /\ requested = [p \in Instances |-> IF p = "old" THEN 1 ELSE 0] /\ applied = requested
  /\ posted = [p \in Instances |-> FALSE]
  /\ installed = [p \in Instances |-> p = "old"]
  /\ handoffs = 0

-------------------------------------------------------------------------------
(* Input activation: a UI asks, its hook thread applies the latest request *)
(* between two callbacks and so acknowledges it.                           *)

\* The generation request() stores.
Toggle(generation, on) ==
  IF (generation % 2 = 1) = on THEN generation
  ELSE (generation \div 2 + 1) * 2 + (IF on THEN 1 ELSE 0)

\* The generation is stored before the message is posted; posting may fail.
RequestInput(p, on, sent) ==
  /\ requested' = [requested EXCEPT ![p] = Toggle(@, on)]
  /\ posted' = [posted EXCEPT ![p] = @ \/ sent]

ApplyInput(p) ==
  /\ posted[p] /\ installed[p]
  /\ applied' = [applied EXCEPT ![p] = requested[p]]
  /\ posted' = [posted EXCEPT ![p] = FALSE]
  /\ UNCHANGED <<old, ui, parentVars, process, childUi, childWorker, pipes,
                 mutex, requested, installed, handoffs>>

-------------------------------------------------------------------------------
(* The UI of the old instance: poll_lifecycle and request_exit.            *)

notOldUi == <<parentVars, process, childUi, childWorker, pipes, applied, installed, handoffs>>

\* restart_saved and poll_config
StartRestart ==
  /\ old = "up" /\ phase = "Running" /\ ~exiting /\ ~restart /\ handoffs < MaxHandoffs
  /\ handoffs' = handoffs + 1
  /\ restart' = TRUE /\ events' = <<>> /\ commands' = <<>> /\ decision' = "undecided"
  /\ parent' = 1 /\ checked' = FALSE /\ rollback' = "none"
  /\ elevated' \in Elevations
  /\ child' = "none" /\ killed' = FALSE /\ worker' = 0
  /\ UNCHANGED <<old, phase, exiting, childUi, workerChecked, pipes, input>>

Received(e) ==
  /\ old = "up" /\ restart
  /\ events # <<>> /\ Head(events) = e /\ events' = Tail(events)

OnSuspend ==
  /\ Received("Suspend") /\ ~exiting
  /\ \/ RequestInput("old", FALSE, TRUE) /\ phase' = "Pausing" /\ decision' = decision
     \/ RequestInput("old", FALSE, FALSE) /\ phase' = phase /\ decision' = Canceled
  /\ UNCHANGED <<old, exiting, restart, commands, mutex, notOldUi>>

\* commit() refuses once the decision is taken, and lifecycle_error cancels.
OnReady ==
  /\ Received("Ready") /\ ~exiting
  /\ commands' = IF decision = "undecided" THEN Append(commands, "Commit") ELSE commands
  /\ UNCHANGED <<old, phase, exiting, restart, decision, mutex, requested, posted, notOldUi>>

OnDone ==
  /\ Received("Done") /\ ~exiting
  /\ decision' = IF decision = "undecided" THEN "accepted" ELSE decision
  /\ UNCHANGED <<old, phase, exiting, restart, commands, mutex, requested, posted, notOldUi>>

OnComplete ==
  /\ Received("Complete")
  /\ restart' = FALSE /\ old' = "stopping"
  /\ UNCHANGED <<phase, exiting, commands, decision, mutex, requested, posted, notOldUi>>

\* Mutant: resumes whatever became of the child.
OnFailedAlwaysSafe ==
  /\ \E e \in {"FailedSafe", "FailedUnsafe"} : Received(e)
  /\ restart' = FALSE
  /\ IF exiting THEN old' = "stopping" /\ phase' = phase
                ELSE old' = old /\ phase' = "Restoring"
  /\ UNCHANGED <<exiting, commands, decision, mutex, requested, posted, notOldUi>>

\* Mutant: forgets the pause that was asked for and not yet acknowledged.
OnFailedWhilePausing ==
  /\ Received("FailedSafe")
  /\ restart' = FALSE
  /\ IF exiting THEN old' = "stopping" /\ phase' = phase
                ELSE old' = old /\ phase' = IF phase = "Pausing" THEN phase ELSE "Restoring"
  /\ UNCHANGED <<exiting, commands, decision, mutex, requested, posted, notOldUi>>

\* A failure that left the child running leaves the handoff open.
OnFailed ==
  /\ \/ /\ Received("FailedSafe")
        /\ restart' = FALSE
        /\ IF exiting THEN old' = "stopping" /\ phase' = phase
                      ELSE old' = old /\ phase' = "Restoring"
     \/ /\ Received("FailedUnsafe")
        /\ UNCHANGED <<old, phase, restart>>
  /\ UNCHANGED <<exiting, commands, decision, mutex, requested, posted, notOldUi>>

OnEventWhileExiting ==
  /\ exiting /\ \E e \in {"Suspend", "Ready", "Done"} : Received(e)
  /\ decision' = Canceled
  /\ UNCHANGED <<old, phase, exiting, restart, commands, mutex, requested, posted, notOldUi>>

\* Mutant: takes the request for its acknowledgement.
SuspendedAtOnce ==
  /\ old = "up" /\ phase = "Pausing"
  /\ mutex' = IF mutex = "old" THEN "none" ELSE mutex
  /\ phase' = "Suspended"
  /\ commands' = IF decision = "undecided" THEN Append(commands, "Suspended") ELSE commands
  /\ UNCHANGED <<old, exiting, restart, events, decision, requested, posted, notOldUi>>

\* The mutex is released only when no callback can submit any more.
Suspended ==
  /\ old = "up" /\ phase = "Pausing" /\ Acknowledged("old", FALSE)
  /\ mutex' = IF mutex = "old" THEN "none" ELSE mutex
  /\ phase' = "Suspended"
  /\ commands' = IF decision = "undecided" THEN Append(commands, "Suspended") ELSE commands
  /\ UNCHANGED <<old, exiting, restart, events, decision, requested, posted, notOldUi>>

\* acquire() fails while the child owns the mutex, and is tried again.
Restore ==
  /\ old = "up" /\ phase = "Restoring" /\ mutex \in {"none", "old"}
  /\ mutex' = "old"
  /\ IF Acknowledged("old", TRUE)
       THEN phase' = "Running" /\ UNCHANGED <<requested, posted>>
       ELSE phase' = phase /\ \E sent \in BOOLEAN : RequestInput("old", TRUE, sent)
  /\ UNCHANGED <<old, exiting, restart, events, commands, decision, notOldUi>>

OldUiTurn ==
  \/ OnSuspend \/ OnReady \/ OnDone \/ OnComplete \/ OnFailed \/ OnEventWhileExiting
  \/ Suspended \/ Restore

\* request_exit, from the tray menu
RequestExit ==
  /\ old = "up" /\ ~exiting
  /\ exiting' = TRUE
  /\ \E sent \in BOOLEAN : RequestInput("old", FALSE, sent)
  /\ IF restart THEN old' = old /\ decision' = Canceled
                ELSE old' = "stopping" /\ decision' = decision
  /\ UNCHANGED <<phase, restart, events, commands, mutex, notOldUi>>

\* WM_DESTROY closes the target, the message loop ends without request_exit.
WindowDestroyed ==
  /\ old = "up" /\ old' = "closed"
  /\ UNCHANGED <<ui, mutex, requested, posted, notOldUi>>

\* The message loop has ended: the hook thread is joined, then the rest dropped.
Teardown ==
  /\ old \in {"stopping", "closed"} /\ old' = "stopped"
  /\ installed' = [installed EXCEPT !["old"] = FALSE]
  /\ UNCHANGED <<ui, parentVars, process, childUi, childWorker, pipes, mutex,
                 requested, applied, posted, handoffs>>

\* A process that ends takes its threads, its hook and its mutex with it.
OldEnds ==
  /\ installed' = [installed EXCEPT !["old"] = FALSE]
  /\ mutex' = IF mutex = "old" THEN "none" ELSE mutex
  /\ parent' = 0 /\ checked' = FALSE /\ rollback' = "none" /\ linked' = FALSE
  /\ UNCHANGED <<ui, process, childUi, childWorker, down, up, requested, applied, posted,
                 handoffs>>

OldExits == old = "stopped" /\ old' = "gone" /\ OldEnds
OldDies == old \in {"up", "stopping", "closed"} /\ old' = "dead" /\ OldEnds

OldAlive == old \notin {"gone", "dead"}
ChildAlive == child \in {"up", "stopping", "stopped"}

-------------------------------------------------------------------------------
(* The restart worker of the old instance: Worker::run and finish.         *)

notParent == <<old, phase, exiting, restart, childUi, input, handoffs>>

ParentAt(do) == parent # 0 /\ Script[parent].do = do
What == Script[parent].what

\* check() also fails at the deadline and, before acceptance, when a newer
\* configuration was saved: ParentFails may happen whenever check() is called.
Checks ==
  /\ decision # "canceled"
  /\ decision = "accepted" \/ old = "up"

NextStep ==
  /\ parent' = IF parent = Len(Script) THEN 0 ELSE parent + 1
  /\ checked' = FALSE

Spawn ==
  /\ ParentAt("Spawn") /\ Checks
  /\ child' = "up" /\ killed' = FALSE /\ childPhase' = "Preparing"
  /\ childEvents' = <<>> /\ replies' = <<>> /\ canceled' = FALSE
  /\ worker' = 1 /\ workerChecked' = FALSE
  /\ down' = <<>> /\ up' = <<>> /\ linked' = TRUE
  /\ requested' = [requested EXCEPT !["new"] = 0] /\ applied' = [applied EXCEPT !["new"] = 0]
  /\ posted' = [posted EXCEPT !["new"] = FALSE]
  /\ installed' = [installed EXCEPT !["new"] = TRUE]
  /\ NextStep
  /\ UNCHANGED <<old, ui, rollback, elevated, mutex, handoffs>>

\* wait(): check() passes, then a value arrives or check() is called again.
Check ==
  /\ ParentAt("Wait") \/ ParentAt("WaitUi")
  /\ ~checked /\ Checks
  /\ checked' = TRUE
  /\ UNCHANGED <<notParent, parent, rollback, events, commands, decision, process, childWorker,
                 pipes>>

\* expect()
Receive ==
  /\ ParentAt("Wait") /\ checked /\ up # <<>> /\ Head(up) = What
  /\ up' = Tail(up) /\ NextStep
  /\ UNCHANGED <<notParent, rollback, events, commands, decision, process, childWorker, down,
                 linked>>

\* command()
WaitUi ==
  /\ ParentAt("WaitUi") /\ checked /\ commands # <<>> /\ Head(commands) = What
  /\ commands' = Tail(commands) /\ NextStep
  /\ UNCHANGED <<notParent, rollback, events, decision, process, childWorker, pipes>>

\* require_current()
CheckCurrent ==
  /\ ParentAt("CheckCurrent") /\ Checks
  /\ NextStep
  /\ UNCHANGED <<notParent, rollback, events, commands, decision, process, childWorker, pipes>>

\* event()
Notify ==
  /\ ParentAt("Event")
  /\ events' = Append(events, What) /\ NextStep
  /\ UNCHANGED <<notParent, rollback, commands, decision, process, childWorker, pipes>>

Send ==
  /\ ParentAt("Send") /\ ChildAlive
  /\ down' = Append(down, What) /\ NextStep
  /\ UNCHANGED <<notParent, rollback, events, commands, decision, process, childWorker, up, linked>>

Decide ==
  /\ ParentAt("Decide") /\ decision = "accepted"
  /\ NextStep
  /\ UNCHANGED <<notParent, rollback, events, commands, decision, process, childWorker, pipes>>

\* A step fails, event() only when nobody receives any more; finish() cancels,
\* and abort() begins: an ordinary child is killed if that is allowed, an
\* elevated one loses its pipe and what is in it.
ParentFails ==
  /\ \/ \E do \in {"Spawn", "Wait", "WaitUi", "CheckCurrent"} : ParentAt(do)
     \/ ParentAt("Send") /\ ~ChildAlive
     \/ ParentAt("Event") /\ old = "stopped"
     \/ ParentAt("Decide") /\ decision # "accepted"
  /\ parent' = 0 /\ checked' = FALSE /\ rollback' = "abort"
  /\ decision' = Canceled
  /\ killed' \in IF ChildAlive /\ ~elevated THEN BOOLEAN ELSE {FALSE}
  /\ linked' = FALSE /\ down' \in IF elevated THEN {down, <<>>} ELSE {down}
  /\ UNCHANGED <<notParent, events, commands, child, elevated, childWorker, up>>

\* The clean-up is confirmed, or abort() gives up and await_cleanup goes on.
Rollback ==
  /\ \/ /\ rollback \in {"abort", "await"} /\ ~ChildAlive
        /\ events' = Append(events, "FailedSafe") /\ rollback' = "none"
     \/ /\ rollback = "abort" /\ ChildAlive
        /\ events' = Append(events, "FailedUnsafe") /\ rollback' = "await"
     \/ /\ rollback = "await" /\ old # "up"
        /\ events' = events /\ rollback' = "none"
  /\ UNCHANGED <<notParent, parent, checked, commands, decision, process, childWorker, pipes>>

ParentStep ==
  \/ Spawn \/ Check \/ Receive \/ WaitUi \/ CheckCurrent \/ Notify \/ Send \/ Decide
  \/ ParentFails \/ Rollback

-------------------------------------------------------------------------------
(* The control worker of the child: ChildWorker::run.                      *)

notWorker == <<old, ui, parentVars, process, childPhase, input, handoffs>>

WorkerAt(do) == worker \in 1..Len(ChildScript) /\ ChildScript[worker].do = do
Signal == ChildScript[worker].what

NextWorkerStep == worker' = worker + 1 /\ workerChecked' = FALSE

\* wait(): not canceled, and the parent is alive; then a value arrives.
WorkerCheck ==
  /\ WorkerAt("Reply") \/ WorkerAt("Command")
  /\ ~workerChecked /\ ~canceled /\ OldAlive
  /\ workerChecked' = TRUE
  /\ UNCHANGED <<notWorker, worker, childEvents, replies, canceled, pipes>>

\* reply()
Reply ==
  /\ WorkerAt("Reply") /\ workerChecked /\ replies # <<>> /\ Head(replies) = Signal
  /\ replies' = Tail(replies) /\ NextWorkerStep
  /\ UNCHANGED <<notWorker, childEvents, canceled, pipes>>

\* The reader of an ordinary child's output may outlive its receiver by a signal.
Write ==
  /\ WorkerAt("Write") /\ OldAlive /\ (linked \/ ~elevated)
  /\ up' = Append(up, Signal) /\ NextWorkerStep
  /\ UNCHANGED <<notWorker, childEvents, replies, canceled, down, linked>>

\* command()
Command ==
  /\ WorkerAt("Command") /\ workerChecked /\ down # <<>> /\ Head(down) = Signal
  /\ down' = Tail(down) /\ NextWorkerStep
  /\ UNCHANGED <<notWorker, childEvents, replies, canceled, up, linked>>

\* require_current()
Current ==
  /\ WorkerAt("Current") /\ NextWorkerStep
  /\ UNCHANGED <<notWorker, childEvents, replies, canceled, pipes>>

\* post()
Post ==
  /\ WorkerAt("Post")
  /\ childEvents' = Append(childEvents, Signal) /\ NextWorkerStep
  /\ UNCHANGED <<notWorker, replies, canceled, pipes>>

\* Mutant: the control worker ends without a word to its UI.
WorkerFailsQuietly ==
  /\ \/ \E do \in {"Reply", "Command", "Current"} : WorkerAt(do)
     \/ WorkerAt("Write") /\ (~OldAlive \/ ~linked)
  /\ worker' = 0 /\ workerChecked' = FALSE
  /\ UNCHANGED <<notWorker, childEvents, replies, canceled, pipes>>

\* The deadline passes, the parent is gone, the pipe is closed, or the disk has
\* another configuration: the worker cancels and ends.
WorkerFails ==
  /\ \/ \E do \in {"Reply", "Command", "Current"} : WorkerAt(do)
     \/ WorkerAt("Write") /\ (~OldAlive \/ ~linked)
  /\ worker' = 0 /\ workerChecked' = FALSE /\ canceled' = TRUE
  /\ UNCHANGED <<notWorker, childEvents, replies, pipes>>

ChildWorkerStep ==
  /\ ChildAlive
  /\ WorkerCheck \/ Reply \/ Write \/ Command \/ Current \/ Post \/ WorkerFails

-------------------------------------------------------------------------------
(* The UI of the child: the same poll_lifecycle.                           *)

notChildUi == <<old, ui, parentVars, elevated, killed, childWorker, pipes, applied, installed,
                handoffs>>

ChildPrepared ==
  /\ child = "up" /\ childPhase = "Preparing"
  /\ replies' = Append(replies, "Prepared") /\ childPhase' = "Prepared"
  /\ UNCHANGED <<notChildUi, child, childEvents, canceled, mutex, requested, posted>>

ChildReceived(e) ==
  /\ child = "up" /\ ~canceled
  /\ childEvents # <<>> /\ Head(childEvents) = e /\ childEvents' = Tail(childEvents)

\* Without the mutex, or when the hook thread cannot be told, the child exits.
ChildActivate ==
  /\ ChildReceived("Activate") /\ childPhase = "Prepared"
  /\ mutex' = IF mutex = "none" THEN "new" ELSE mutex
  /\ \/ /\ mutex' = "new" /\ RequestInput("new", TRUE, TRUE)
        /\ childPhase' = "Activating" /\ child' = child
     \/ /\ requested' = IF mutex' = "new"
             THEN [requested EXCEPT !["new"] = Toggle(Toggle(@, TRUE), FALSE)]
             ELSE requested
        /\ posted' \in {posted, [posted EXCEPT !["new"] = TRUE]}
        /\ childPhase' = childPhase /\ child' = "stopping"
  /\ UNCHANGED <<notChildUi, replies, canceled>>

ChildActive ==
  /\ child = "up" /\ ~canceled /\ childPhase = "Activating" /\ Acknowledged("new", TRUE)
  /\ replies' = Append(replies, "Active") /\ childPhase' = "Active"
  /\ UNCHANGED <<notChildUi, child, childEvents, canceled, mutex, requested, posted>>

ChildCommit ==
  /\ ChildReceived("Commit") /\ childPhase = "Active"
  /\ replies' = Append(replies, "Committed") /\ childPhase' = "Committed"
  /\ UNCHANGED <<notChildUi, child, canceled, mutex, requested, posted>>

ChildAccept ==
  /\ ChildReceived("Accept") /\ childPhase = "Committed"
  /\ replies' = Append(replies, "AcceptedAck") /\ childPhase' = "Running"
  /\ UNCHANGED <<notChildUi, child, canceled, mutex, requested, posted>>

\* request_exit
ChildStops ==
  /\ child' = "stopping"
  /\ \E sent \in BOOLEAN : RequestInput("new", FALSE, sent)
  /\ UNCHANGED <<notChildUi, childUi, mutex>>

ChildAborts == child = "up" /\ childPhase # "Preparing" /\ canceled /\ ChildStops

\* The tray icon is there only once the services are started.
ChildUserExits == child = "up" /\ childPhase = "Running" /\ ChildStops

ChildTeardown ==
  /\ child = "stopping" /\ child' = "stopped"
  /\ installed' = [installed EXCEPT !["new"] = FALSE]
  /\ UNCHANGED <<old, ui, parentVars, elevated, killed, childUi, childWorker, pipes, mutex,
                 requested, applied, posted, handoffs>>

ChildEnds ==
  /\ child' = "gone"
  /\ installed' = [installed EXCEPT !["new"] = FALSE]
  /\ mutex' = IF mutex = "new" THEN "none" ELSE mutex
  /\ worker' = IF worker = Kept THEN Kept ELSE 0
  /\ workerChecked' = FALSE
  /\ UNCHANGED <<old, ui, parentVars, elevated, killed, childUi, pipes, requested, applied, posted,
                 handoffs>>

ChildExits == child = "stopped" /\ ChildEnds
ChildKilled == ChildAlive /\ killed /\ ChildEnds
ChildDies == ChildAlive /\ ~killed /\ ChildEnds

ChildUiTurn ==
  \/ ChildPrepared \/ ChildActivate \/ ChildActive \/ ChildCommit \/ ChildAccept \/ ChildAborts

-------------------------------------------------------------------------------
Next ==
  \/ \E p \in Instances : ApplyInput(p)
  \/ StartRestart \/ OldUiTurn \/ RequestExit \/ WindowDestroyed
  \/ Teardown \/ OldExits \/ OldDies
  \/ ParentStep
  \/ ChildWorkerStep
  \/ ChildUiTurn \/ ChildUserExits \/ ChildTeardown \/ ChildExits \/ ChildKilled \/ ChildDies

\* Each UI polls every 50 ms, each worker wakes every TICK and gives up at its
\* deadline, hook threads pump messages and processes that were told to end do.
\* Nothing forces a user, a crash or a restart.
Fairness ==
  /\ \A p \in Instances : WF_vars(ApplyInput(p))
  /\ WF_vars(OldUiTurn) /\ WF_vars(Teardown) /\ WF_vars(OldExits)
  /\ WF_vars(ParentStep)
  /\ WF_vars(ChildWorkerStep)
  /\ WF_vars(ChildUiTurn) /\ WF_vars(ChildTeardown) /\ WF_vars(ChildExits) /\ WF_vars(ChildKilled)

Spec == Init /\ [][Next]_vars
FairSpec == Spec /\ Fairness

-------------------------------------------------------------------------------
ParentEvents == {"Suspend", "Ready", "Done", "Complete", "FailedSafe", "FailedUnsafe"}

\* A hook that takes keys belongs to the instance that owns the mutex, through
\* pauses, restores, crashes and late acknowledgements: two never take the same key.
InputNeedsMutex == \A p \in Instances : Active(p) => mutex = p

\* The old instance resumes only when the child process has ended (finish's
\* safe_to_resume), whatever the child was doing when the handoff failed.
ResumesAlone == phase = "Restoring" => ~ChildAlive

\* Two instances never do the work of one: not the keyboard, and not an old
\* instance that resumes beside its child (restart/handoff.rs, restart/parent.rs).
OneInstance == InputNeedsMutex /\ ResumesAlone

\* The old instance leaves for a child only when that child has acknowledged the
\* acceptance, after which it no longer ends with its parent.
LeavesToKeeper == old = "stopping" /\ ~exiting => worker = Kept

\* No bounded channel is ever asked to hold more than parent::start and
\* ChildSession::accept give it: try_send would fail (restart/parent.rs,
\* restart/child.rs).
ChannelsFit ==
  /\ Len(events) <= 4 /\ Len(commands) <= 2 /\ Len(childEvents) <= 4 /\ Len(replies) <= 4
  /\ Len(down) <= 8

\* A handoff goes by its script: room for every message, and the last one last.
GoesByScript == LeavesToKeeper /\ ChannelsFit

Serves(p) == Active(p) /\ mutex = p

\* A handoff ends with exactly one instance serving: the child runs, or the old
\* one resumes, unless the user ends one of them or one crashes after acceptance.
SomeoneServes ==
  restart /\ old = "up" ~>
    \/ childPhase = "Running" /\ Serves("new")
    \/ phase = "Running" /\ ~restart /\ Serves("old")
    \/ exiting \/ old \in {"closed", "dead"}
    \/ worker = Kept /\ child # "up"

\* A child that was not accepted does not outlive its parent, even one that
\* crashed or that may not terminate an elevated process.
OrphanEnds == ~OldAlive /\ ChildAlive ~> ~ChildAlive \/ worker = Kept
================================================================================
