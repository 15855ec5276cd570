----------------------------- MODULE Interface -----------------------------
(***************************************************************************)
(* The thread of the user interface (app/runtime.rs, app/runtime/window.rs,*)
(* window_target.rs, app.rs, app/lifecycle.rs) and the services it looks   *)
(* after between two messages: the jobs of the pause, the settings, the    *)
(* startup entry and the report (worker/job.rs, pause.rs, app/pause.rs,    *)
(* app/settings.rs, startup.rs, app/report.rs), the tray icon and its menu *)
(* (trayicon.rs, trayicon/quick_settings.rs) and what the user is told     *)
(* (app/feedback.rs).                                                      *)
(*                                                                         *)
(* A message may come in while another is handled: always while the menu   *)
(* is open, otherwise when the handler waits for the system.  The          *)
(* application is borrowed then and the message deferred.  What a handler  *)
(* does is a function of the state `ui`; threads and the system change     *)
(* `ui` between two handlers and while the menu is open.  A posted message *)
(* is a hint that may be late or lost; the timer is what is relied on.     *)
(***************************************************************************)
EXTENDS Integers, Sequences, SequencesExt, FiniteSets

CONSTANTS MaxDeferred, \* messages kept while the application is borrowed
          Retries,     \* of the tray icon
          Setups,      \* what may happen in an execution
          None

Budgets == {"messages", "clicks", "faults", "crashes", "asks", "candidates", "outcomes", "shortages"}
ASSUME InterfaceAssumption ==
  /\ MaxDeferred \in Nat \ {0} /\ Retries \in Nat
  /\ \A s \in Setups : /\ s.budget \in [Budgets -> Nat] /\ s.rejections \in 0..Retries
                       /\ s.elevated \in BOOLEAN /\ s.explorer \in BOOLEAN

VARIABLES
  made,    \* what run() holds, in the order it was made
  stage,   \* of run()
  handler, \* the message being handled, None: the application is free
  pending, \* AppHost.pending
  tickets, \* numbers of the messages that must not be lost: given, handled
  ui,      \* the application, and the world as it finds it
  budget   \* what may still happen

vars == <<made, stage, handler, pending, tickets, ui, budget>>

Resources == <<"window", "owner", "registration", "timer", "hook">>
Spend(what) == budget[what] > 0 /\ budget' = [budget EXCEPT ![what] = @ - 1]

\* Step(a), with `a` evaluated once: what one step leaves goes into the next.
Then(a, Step(_)) == CHOOSE b \in {Step(x) : x \in {a}} : TRUE

(***************************************************************************)
(* Jobs: one at a time each, on a thread made with the first one.          *)
(***************************************************************************)
Jobs == {"pause", "settings", "startup", "report"}
Changes == Jobs \ {"report"}
Ended == {"done", "refused", "died"}
Idle == [task |-> None, state |-> "idle"]

Busy(a, j) == a.jobs[j].state # "idle"
CanChange(a) == a.phase = "running" /\ ~a.exit /\ a.restart = None

\* What the user is told: by the tray icon, else the newest by one thread.
Informs(a) == a.tray.icon
Notify(a) ==
  IF Informs(a) THEN a
  ELSE [a EXCEPT !.popup.pending = TRUE,
                 !.popup.active = @ \/ a.spawns,
                 !.popup.thread = IF ~a.popup.active /\ a.spawns THEN "looks" ELSE @]

\* A thread that cannot be made leaves its worker without one for good; the
\* startup entry has a new thread for each job.
Starts(a, j) ==
  /\ a.live /\ ~a.exit /\ ~Busy(a, j)
  /\ \/ j # "startup" /\ a.worker[j] = "alive"
     \/ (j = "startup" \/ a.worker[j] = "new") /\ a.spawns

Request(a, j, task) ==
  IF Starts(a, j)
  THEN [a EXCEPT !.jobs[j] = [task |-> task, state |-> "running"], !.worker[j] = "alive"]
  ELSE Notify([a EXCEPT !.worker[j] = IF @ = "new" THEN "dead" ELSE @])

(***************************************************************************)
(* Commands.                                                               *)
(***************************************************************************)
\* Mutants: the pause changes beside the startup entry; the menu forgets that
\* the pause may be under way.
PauseBesideStartup(a) ==
  IF ~CanChange(a) \/ Busy(a, "settings") THEN Notify(a)
  ELSE IF Busy(a, "pause") THEN a
  ELSE Request(a, "pause", "toggle")
BusyButPause(a) == ~CanChange(a) \/ Busy(a, "settings") \/ Busy(a, "startup")

RequireReady(a) == CanChange(a) /\ \A j \in Changes : ~Busy(a, j)

TogglePause(a) ==
  IF ~CanChange(a) \/ Busy(a, "settings") \/ Busy(a, "startup") THEN Notify(a)
  ELSE IF Busy(a, "pause") THEN a
  ELSE Request(a, "pause", "toggle")

OpenReport(a) ==
  IF Busy(a, "report") \/ ~a.report.last THEN a
  ELSE [Request(a, "report", "open") EXCEPT !.report.opening = Starts(a, "report") \/ @]

Close(a) == [a EXCEPT !.live = FALSE]
FinishExit(a) == [Close(a) EXCEPT !.quit = TRUE]

\* The answer of a job that is cancelled is not waited for; the startup entry
\* only learns that it is not wanted.
Cancel(a, j) == [a EXCEPT !.jobs[j] = Idle]
RequestExit(a) ==
  LET stopped == Cancel(Cancel(Cancel([a EXCEPT !.exit = TRUE], "pause"), "settings"), "report")
  IN IF a.restart = None THEN FinishExit(stopped) ELSE stopped

QuickSettings == {"setting", "highest"} \* any, and the highest startup level
Commands == {"exit", "startup", "pause", "elevate", "apply", "report", "open"} \cup QuickSettings

Permits(a, c) ==
  CASE c = "exit" -> TRUE
    [] c = "startup" -> RequireReady(a) /\ a.startup \in {"ready", "saved"}
    [] c = "pause" -> CanChange(a) /\ \A j \in Changes : ~Busy(a, j)
    [] c = "elevate" -> RequireReady(a) /\ ~a.elevated
    [] c \in {"apply"} \cup QuickSettings -> RequireReady(a)
    [] c = "report" -> ~Busy(a, "report") /\ CanChange(a)
    [] c = "open" -> ~Busy(a, "report") /\ a.report.last

Command(a, c) ==
  CASE c = "exit" -> RequestExit(a)
    [] c = "pause" -> TogglePause(a)
    [] c = "open" -> OpenReport(a)
    [] c = "report" -> IF Permits(a, c) THEN Request(a, "report", "export") ELSE a
    [] c = "startup" -> IF Permits(a, c) THEN Request(a, "startup", "save") ELSE Notify(a)
    [] OTHER -> IF Permits(a, c) THEN Request(a, "settings", c) ELSE Notify(a)

\* What the menu grays and what it offers.
MenuBusy(a) == ~CanChange(a) \/ \E j \in Changes : Busy(a, j)
GroupOffers(a) ==
  (IF MenuBusy(a) THEN {} ELSE {"setting"})
  \cup (IF MenuBusy(a) \/ ~a.elevated THEN {} ELSE {"highest"})
  \cup (IF MenuBusy(a) \/ a.startup \notin {"ready", "saved"} THEN {} ELSE {"startup"})
Offered(a) ==
  {"exit"} \cup GroupOffers(a)
  \cup (IF MenuBusy(a) THEN {} ELSE {"pause", "apply"})
  \cup (IF MenuBusy(a) \/ a.elevated THEN {} ELSE {"elevate"})
  \cup (IF Busy(a, "report") \/ ~CanChange(a) THEN {} ELSE {"report"})
  \cup (IF Busy(a, "report") \/ ~a.report.last THEN {} ELSE {"open"})

(***************************************************************************)
(* Between two messages: drain_input and what it looks after.              *)
(***************************************************************************)
\* Mutants: an answer is what counts, the end of a thread is not looked at;
\* a new taskbar finds the attempts used up.
OnlyAnswers(a, j) == a.jobs[j].state \in {"done", "refused"}
StillCounting(a) == a

HasEnded(a, j) == a.jobs[j].state \in Ended
Taken(a, j) == [a EXCEPT !.jobs[j] = Idle]

Registers(a) == a.explorer /\ a.rejections = 0
SetTray(a) ==
  IF Registers(a)
  THEN [a EXCEPT !.tray = [icon |-> TRUE, retry |-> "none", count |-> 0]]
  ELSE LET again == a.tray.count < Retries
       IN [a EXCEPT !.tray.retry = IF again THEN "waits" ELSE "none",
                    !.tray.count = IF again THEN @ + 1 ELSE @,
                    !.rejections = IF a.explorer THEN @ - 1 ELSE @]

NewTaskbar(a) == [a EXCEPT !.tray.count = 0]

Restart(a) == IF a.spawns THEN [a EXCEPT !.restart = "under way"] ELSE Notify(a)

StartServices(a) ==
  IF a.services THEN a
  ELSE LET started == [a EXCEPT !.services = TRUE]
       IN SetTray(IF a.spawns THEN Request(started, "startup", "inspect")
                  ELSE Notify([started EXCEPT !.startup = "failed"]))

PollStartup(a) ==
  IF ~HasEnded(a, "startup") THEN a
  ELSE LET job == a.jobs["startup"]
           good == job.state = "done"
           known == [Taken(a, "startup") EXCEPT !.startup =
                       CASE job.task = "inspect" -> IF good THEN "ready" ELSE "failed"
                         [] job.task = "save" -> IF good THEN "saved" ELSE @]
       IN IF good /\ job.task = "inspect" THEN known ELSE Notify(known)

PollSettings(a) ==
  IF ~HasEnded(a, "settings") THEN a
  ELSE LET job == a.jobs["settings"]
           b == Taken(a, "settings")
       IN IF job.state # "done" \/ job.task \in QuickSettings THEN Notify(b)
          ELSE IF CanChange(b) /\ ~Busy(b, "startup") /\ ~Busy(b, "pause") THEN Restart(b)
          ELSE Notify(b)

PollConfig(a) ==
  IF a.candidate = None \/ a.restart # None \/ \E j \in Changes : Busy(a, j) THEN a
  ELSE LET b == [a EXCEPT !.candidate = None]
       IN IF a.candidate = "valid" THEN Restart(b) ELSE Notify(b)

\* The handoff has ended: see Handoff for how.
Concluded(a) ==
  LET over == [a EXCEPT !.outcome = None, !.restart = None]
  IN CASE a.outcome = None -> a
       [] a.outcome = "complete" -> FinishExit(over)
       [] a.outcome = "unsafe" -> Notify([a EXCEPT !.outcome = None])
       [] a.outcome = "failed" ->
            IF a.exit THEN FinishExit(over) ELSE Notify([over EXCEPT !.phase = "restoring"])

Restored(a) == IF a.phase = "restoring" /\ a.hooked THEN [a EXCEPT !.phase = "running"] ELSE a

PollServices(a) ==
  IF a.live /\ a.phase = "running" /\ ~a.exit
  THEN Then(Then(Then(StartServices(a), PollStartup), PollSettings), PollConfig) ELSE a

PollLifecycle(a) ==
  Then(Then(Concluded(a), Restored), PollServices)

PollFeedback(a) == IF a.tray.retry = "due" THEN SetTray(a) ELSE a

PollReport(a) ==
  IF ~HasEnded(a, "report") THEN a
  ELSE LET job == a.jobs["report"]
           b == [Taken(a, "report") EXCEPT !.report.opening = FALSE]
       IN IF job.state # "done" THEN Notify(b)
          ELSE IF job.task = "export" THEN OpenReport([b EXCEPT !.report.last = TRUE])
          ELSE b

AskPause(a) == IF a.asked THEN TogglePause([a EXCEPT !.asked = FALSE]) ELSE a
PausePolled(a) ==
  IF ~HasEnded(a, "pause") THEN a
  ELSE IF a.jobs["pause"].state = "done" THEN [Taken(a, "pause") EXCEPT !.paused = ~@]
  ELSE Notify(Taken(a, "pause"))

Served(a) ==
  IF a.live THEN Then(Then(Then(PollFeedback(a), PollReport), AskPause), PausePolled) ELSE a
DrainInput(a) == Then(PollLifecycle(a), Served)

(***************************************************************************)
(* Messages.  Those of Coalesced are hints of which one is enough.         *)
(***************************************************************************)
Coalesced == {"ready", "timer"}
Ticketed == {"restart", "config", "taskbar", "click", "button"}

Apply(a, kind) ==
  CASE kind \in {"ready", "timer", "restart"} -> DrainInput(a)
    [] kind = "config" -> PollLifecycle(a)
    [] kind = "taskbar" -> SetTray(NewTaskbar(a))
    [] OTHER -> a

\* Mutants: any message is enough if one of its kind waits; the overflow
\* closes the target and leaves the loop running.
AnyKind(kind) == \E i \in DOMAIN pending : pending[i].kind = kind
CloseOnly(a) == Close(a)

Kinds == Coalesced \cup Ticketed
Messages == [kind : Kinds, at : {"runs", "menu"}, offered : SUBSET Commands, ticket : Nat]

Waiting(kind) == kind \in Coalesced /\ \E i \in DOMAIN pending : pending[i].kind = kind
Overflow(a) == [Close(a) EXCEPT !.quit = TRUE]

Numbered(kind) ==
  [kind |-> kind, at |-> "runs", offered |-> {},
   ticket |-> IF kind \in Ticketed THEN tickets.given + 1 ELSE 0]

\* dispatch, while the target is live: a free application takes the message.
Arrive(kind) ==
  /\ stage = "loop" /\ ui.live
  /\ tickets' = [tickets EXCEPT !.given = IF kind \in Ticketed THEN @ + 1 ELSE @]
  /\ IF handler = None
     THEN handler' = Numbered(kind) /\ UNCHANGED <<pending, ui>>
     ELSE /\ UNCHANGED handler
          /\ IF Waiting(kind) THEN UNCHANGED <<pending, ui>>
             ELSE IF Len(pending) = MaxDeferred
             THEN ui' = Overflow(ui) /\ UNCHANGED pending
             ELSE pending' = Append(pending, Numbered(kind)) /\ UNCHANGED ui
  /\ UNCHANGED <<made, stage>>

Message == \E kind \in {"ready", "restart", "config", "button"} :
  Arrive(kind) /\ Spend("messages")
Click == ui.tray.icon /\ Arrive("click") /\ Spend("clicks")
Timer == Arrive("timer") /\ UNCHANGED budget

\* The shell tells every window that there is a new taskbar.
TaskbarCreated ==
  /\ ui.announced
  /\ stage = "loop" /\ ui.live
  /\ IF handler = None
     THEN handler' = Numbered("taskbar") /\ UNCHANGED pending /\ ui' = [ui EXCEPT !.announced = FALSE]
     ELSE /\ UNCHANGED handler
          /\ IF Len(pending) = MaxDeferred
             THEN ui' = Overflow(ui) /\ UNCHANGED pending
             ELSE /\ pending' = Append(pending, Numbered("taskbar"))
                  /\ ui' = [ui EXCEPT !.announced = FALSE]
  /\ tickets' = [tickets EXCEPT !.given = @ + 1]
  /\ UNCHANGED <<made, stage, budget>>

\* The handler is done, and the next deferred message is handled.
Done(a) ==
  /\ ui' = a
  /\ tickets' = [tickets EXCEPT !.handled = IF handler.ticket > 0 THEN @ + 1 ELSE @]
  /\ IF a.live /\ pending # <<>>
     THEN handler' = Head(pending) /\ pending' = Tail(pending)
     ELSE handler' = None /\ UNCHANGED pending
  /\ UNCHANGED <<made, stage>>

Handle ==
  /\ handler # None /\ handler.kind # "click"
  /\ \E a \in {Apply(ui, handler.kind)} : Done(a)
  /\ UNCHANGED budget

\* The menu shows what can be done as the click is handled.
OpenMenu ==
  /\ handler # None /\ handler.kind = "click" /\ handler.at = "runs"
  /\ handler' = [handler EXCEPT !.at = "menu", !.offered = Offered(ui)]
  /\ UNCHANGED <<made, stage, pending, tickets, ui, budget>>

NoMenu == \* it cannot be shown
  /\ handler # None /\ handler.kind = "click" /\ handler.at = "runs"
  /\ Done(Notify(ui)) /\ Spend("faults")

InMenu == handler # None /\ handler.at = "menu"
Choose(c) == InMenu /\ ~ui.quit /\ c \in handler.offered /\ Done(Command(ui, c)) /\ UNCHANGED budget
Dismiss == InMenu /\ Done(ui) /\ UNCHANGED budget

(***************************************************************************)
(* run().                                                                  *)
(***************************************************************************)
MakeWindow ==
  /\ stage = "making" /\ made = <<>>
  /\ made' = <<"window">>
  /\ UNCHANGED <<stage, handler, pending, tickets, ui, budget>>

Make ==
  /\ stage = "making" /\ made # <<>>
  /\ IF Len(made) < Len(Resources)
     THEN made' = Append(made, Resources[Len(made) + 1]) /\ UNCHANGED stage
     ELSE stage' = "loop" /\ UNCHANGED made
  /\ UNCHANGED <<handler, pending, tickets, ui, budget>>

CannotMake ==
  /\ stage = "making" /\ Len(made) < Len(Resources)
  /\ Spend("faults") /\ stage' = "ending"
  /\ UNCHANGED <<made, handler, pending, tickets, ui>>

\* The window is destroyed from outside, or the message loop ends.
Destroy ==
  /\ stage = "loop" /\ ui.live /\ Spend("faults")
  /\ ui' = FinishExit(ui)
  /\ UNCHANGED <<made, stage, handler, pending, tickets>>
LoopEnds ==
  /\ stage = "loop" /\ ui.quit /\ handler = None
  /\ stage' = "ending" /\ ui' = Close(ui)
  /\ UNCHANGED <<made, handler, pending, tickets, budget>>

Removed(a) == [a EXCEPT !.tray.icon = FALSE]
\* What goes with the window, the registration, and the owner of App.
Retired(a, what) ==
  IF what \in {"window", "registration"} THEN Close(a)
  ELSE IF what = "owner" THEN Removed(a)
  ELSE a

\* Last made, first given back; the application takes its deferred messages
\* along, and what is left of its threads finds the target closed.
GiveBack ==
  /\ stage = "ending" /\ made # <<>>
  /\ made' = Front(made)
  /\ ui' = Retired(ui, Last(made))
  /\ pending' = IF Last(made) = "owner" THEN <<>> ELSE pending
  /\ UNCHANGED <<stage, handler, tickets, budget>>

(***************************************************************************)
(* Threads and the system.                                                 *)
(***************************************************************************)
Outside(a) == ui' = a /\ UNCHANGED <<made, stage, handler, pending, tickets>>

Work(j) ==
  /\ ui.jobs[j].state = "running" /\ ui.live
  /\ Outside([ui EXCEPT !.jobs[j].state = "done"]) /\ UNCHANGED budget
Refuse(j) ==
  /\ ui.jobs[j].state = "running" /\ ui.live
  /\ Outside([ui EXCEPT !.jobs[j].state = "refused"]) /\ Spend("faults")
Die(j) ==
  /\ ui.jobs[j].state = "running" /\ ui.live
  /\ Outside([ui EXCEPT !.jobs[j].state = "died", !.worker[j] = "dead"]) /\ Spend("faults")

\* The thread of the notices: under the lock it takes the newest, or leaves.
\* A mutant: it does not say that it leaves.
LeavesSilently == [active |-> TRUE, pending |-> FALSE, thread |-> "none"]
Leaves == [active |-> FALSE, pending |-> FALSE, thread |-> "none"]
Look ==
  /\ ui.popup.thread = "looks"
  /\ Outside([ui EXCEPT !.popup = IF @.pending THEN [@ EXCEPT !.pending = FALSE, !.thread = "shows"]
                                  ELSE Leaves])
  /\ UNCHANGED budget
Read ==
  /\ ui.popup.thread = "shows"
  /\ Outside([ui EXCEPT !.popup.thread = "looks"]) /\ UNCHANGED budget

Elapse ==
  /\ ui.tray.retry = "waits" /\ ui.live
  /\ Outside([ui EXCEPT !.tray.retry = "due"]) /\ UNCHANGED budget
Crash ==
  /\ ui.explorer /\ ui.live /\ Spend("crashes")
  /\ Outside([ui EXCEPT !.explorer = FALSE, !.tray.icon = FALSE, !.announced = FALSE])
Return ==
  /\ ~ui.explorer /\ ui.live
  /\ Outside([ui EXCEPT !.explorer = TRUE, !.announced = TRUE]) /\ UNCHANGED budget

Ask == ~ui.asked /\ ui.live /\ Spend("asks") /\ Outside([ui EXCEPT !.asked = TRUE])
Offer(what) ==
  /\ ui.services /\ ui.candidate = None /\ ~ui.exit /\ ui.live
  /\ Spend("candidates") /\ Outside([ui EXCEPT !.candidate = what])
Outcomes == {"complete", "failed", "unsafe"}
Outcome(o) ==
  /\ ui.restart # None /\ ui.outcome = None /\ ui.live /\ Spend("outcomes")
  /\ \E hooked \in BOOLEAN : Outside([ui EXCEPT !.outcome = o, !.hooked = hooked])
Acknowledge ==
  /\ ui.phase = "restoring" /\ ~ui.hooked /\ ui.live
  /\ Outside([ui EXCEPT !.hooked = TRUE]) /\ UNCHANGED budget
Exhaust == \* threads cannot be made, or can again
  \/ ui.spawns /\ ui.live /\ Spend("shortages") /\ Outside([ui EXCEPT !.spawns = FALSE])
  \/ ~ui.spawns /\ ui.live /\ Outside([ui EXCEPT !.spawns = TRUE]) /\ UNCHANGED budget

Init ==
  /\ made = <<>> /\ stage = "making" /\ handler = None /\ pending = <<>>
  /\ tickets = [given |-> 0, handled |-> 0]
  /\ \E s \in Setups :
       /\ budget = s.budget
       /\ ui = [live |-> TRUE, quit |-> FALSE, exit |-> FALSE, phase |-> "running",
                services |-> FALSE, restart |-> None, outcome |-> None, hooked |-> TRUE,
                jobs |-> [j \in Jobs |-> Idle], worker |-> [j \in Jobs |-> "new"],
                startup |-> "pending", paused |-> FALSE, elevated |-> s.elevated,
                report |-> [last |-> FALSE, opening |-> FALSE],
                tray |-> [icon |-> FALSE, retry |-> "none", count |-> 0],
                popup |-> [active |-> FALSE, pending |-> FALSE, thread |-> "none"],
                explorer |-> s.explorer, announced |-> FALSE, rejections |-> s.rejections,
                candidate |-> None, asked |-> FALSE, spawns |-> TRUE]

Next ==
  \/ Message \/ Click \/ Timer \/ TaskbarCreated \/ Handle \/ OpenMenu \/ NoMenu \/ Dismiss
  \/ \E c \in Commands : Choose(c)
  \/ MakeWindow \/ Make \/ CannotMake \/ Destroy \/ LoopEnds \/ GiveBack
  \/ \E j \in Jobs : Work(j) \/ Refuse(j) \/ Die(j)
  \/ Look \/ Read \/ Elapse \/ Crash \/ Return \/ Ask \/ Acknowledge \/ Exhaust
  \/ \E what \in {"valid", "invalid"} : Offer(what)
  \/ \E o \in Outcomes : Outcome(o)

\* The loop runs and handlers return, the user closes menus and boxes, the
\* timer ticks, threads get on and the shell comes back.
Fairness ==
  /\ WF_vars(MakeWindow \/ Make \/ Handle \/ OpenMenu \/ Dismiss \/ LoopEnds \/ GiveBack)
  /\ WF_vars(handler = None /\ Timer) /\ WF_vars(TaskbarCreated)
  /\ \A j \in Jobs : WF_vars(Work(j))
  /\ WF_vars(Look \/ Read) /\ WF_vars(Elapse \/ Acknowledge) /\ WF_vars(Return)

Spec == Init /\ [][Next]_vars /\ Fairness

-----------------------------------------------------------------------------
JobTasks == {None, "inspect", "save", "toggle", "export"} \cup Commands
Applications ==
  [live : BOOLEAN, quit : BOOLEAN, exit : BOOLEAN, phase : {"running", "restoring"},
   services : BOOLEAN, restart : {None, "under way"}, outcome : {None} \cup Outcomes,
   hooked : BOOLEAN, jobs : [Jobs -> [task : JobTasks, state : {"idle", "running"} \cup Ended]],
   worker : [Jobs -> {"new", "alive", "dead"}],
   startup : {"pending", "ready", "saved", "failed"}, paused : BOOLEAN, elevated : BOOLEAN,
   report : [last : BOOLEAN, opening : BOOLEAN],
   tray : [icon : BOOLEAN, retry : {"none", "waits", "due"}, count : 0..Retries],
   popup : [active : BOOLEAN, pending : BOOLEAN, thread : {"none", "looks", "shows"}],
   explorer : BOOLEAN, announced : BOOLEAN, rejections : Nat,
   candidate : {None, "valid", "invalid"}, asked : BOOLEAN, spawns : BOOLEAN]

ASSUME NoneAssumption == None \notin Messages \cup Outcomes \cup {"under way"}

\* Every variable has its type: the deferred messages have room, the tray icon
\* is not tried more often than it may be, and what run() has made is a prefix.
TypeOK ==
  /\ ui \in Applications
  /\ handler \in Messages \cup {None}
  /\ pending \in Seq(Messages) /\ Len(pending) <= MaxDeferred
  /\ tickets \in [given : Nat, handled : Nat] /\ tickets.handled <= tickets.given
  /\ stage \in {"making", "loop", "ending"}
  /\ \E n \in 0..Len(Resources) : made = SubSeq(Resources, 1, n)
  /\ budget \in [Budgets -> Nat]

\* While the application lives, what came in while it was borrowed and is no
\* mere hint is handled once, in the order in which it came in: clicks,
\* commands of the shell and steps of a handoff are neither lost nor
\* reordered by the deferral (app/runtime.rs:244-281).
Held == (IF handler = None THEN <<>> ELSE <<handler>>) \o pending
Owed(held) == {i \in DOMAIN held : held[i].ticket > 0}
Numbers(held, first, last) ==
  /\ {held[i].ticket : i \in Owed(held)} = first..last
  /\ \A i, j \in Owed(held) : i < j => held[i].ticket < held[j].ticket
InOrder == ui.live => Numbers(Held, tickets.handled + 1, tickets.given)

\* At most one of the pause, the settings, the startup entry and a handoff
\* changes the configuration, and none does during a handoff: five places start
\* one, each with guards of its own (app/settings.rs:86, app/pause.rs:6,
\* app/lifecycle.rs:92, 283, 355).  The inspection of the startup entry saves
\* nothing and may begin beside a pause or a setting, when the menu was opened
\* from an icon that a new taskbar was given before the services were started.
Changing(a, j) == Busy(a, j) /\ a.jobs[j].task # "inspect"
OneChangeAtATime ==
  /\ \A j, k \in Changes : Changing(ui, j) /\ Changing(ui, k) => j = k
  /\ ui.restart # None \/ ui.phase # "running" => \A j \in Changes : ~Busy(ui, j)

\* One thing at a time: messages in the order they came, changes alone.
OneThingAtATime == InOrder /\ OneChangeAtATime

\* What an open menu offers is still permitted, though threads end and
\* messages come in while it is open: the application is borrowed
\* (app.rs:120-147, trayicon/quick_settings.rs:171).
MenuKeepsItsWord ==
  InMenu /\ ui.live /\ ~ui.exit => \A c \in handler.offered : Permits(ui, c)

Over == ~ui.live \/ ui.exit \/ stage = "ending"

\* The end of a job is noticed, answer or not; the newest notice is read once
\* a thread shows notices; the icon comes back to a new taskbar, whatever
\* attempts the old one has used up (worker/job.rs:90, app/feedback.rs:24, 72).
Answered ==
  /\ \A j \in Jobs : ui.jobs[j].state \in Ended ~> (ui.jobs[j].state \notin Ended \/ Over)
  /\ (ui.popup.active /\ ui.popup.pending) ~> (~ui.popup.pending)
  /\ (ui.explorer /\ ~ui.tray.icon) ~> (ui.tray.icon \/ ~ui.explorer \/ Over)

\* A closed target ends the program, in the menu or a handler too: whatever
\* run() has made is given back (app/runtime.rs:165-175, 269-274).
Ends == (~ui.live) ~> (stage = "ending" /\ made = <<>>)
=============================================================================
