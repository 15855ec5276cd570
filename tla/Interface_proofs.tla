------------------------- MODULE Interface_proofs -------------------------
(***************************************************************************)
(* What the thread of the user interface never does, whatever comes in     *)
(* while it is busy: Interface's type invariant and safety properties.     *)
(***************************************************************************)
EXTENDS Interface, SequenceFacts

\* The application between two steps of a handler: what changes the
\* configuration does so alone, and before its services are started nothing is
\* known of the startup entry and no handoff is under way.
Sound(a) ==
  /\ a \in Applications
  /\ \A j, k \in Changes : Changing(a, j) /\ Changing(a, k) => j = k
  /\ a.restart # None \/ a.phase # "running" => a.services /\ \A j \in Changes : ~Busy(a, j)
  /\ ~a.services => a.startup = "pending" /\ ~Busy(a, "startup")
  /\ a.outcome # None => a.restart # None
  /\ Busy(a, "startup") => a.jobs["startup"].task \in {"inspect", "save"}

\* A handler that makes b of a: a closed target stays closed, services run on.
Leads(a, b) == Sound(b) /\ (b.live => a.live) /\ (a.services => b.services)

\* What the other services do not depend on.
Alike(a, b) ==
  /\ b.jobs = a.jobs /\ b.restart = a.restart /\ b.phase = a.phase /\ b.services = a.services
  /\ b.startup = a.startup /\ b.outcome = a.outcome /\ (b.live => a.live)

LEMMA AlikeLeads ==
  ASSUME NEW a, NEW b, Sound(a), b \in Applications, Alike(a, b)
  PROVE  Leads(a, b)
BY DEF Sound, Leads, Alike, Changing, Busy

LEMMA LeadsOn ==
  ASSUME NEW a, NEW b, NEW c, Leads(a, b), Leads(b, c)
  PROVE  Leads(a, c)
BY DEF Leads

LEMMA NotifyAlike ==
  ASSUME NEW a \in Applications
  PROVE  Notify(a) \in Applications /\ Alike(a, Notify(a))
<1>1. CASE Informs(a)
  BY <1>1 DEF Notify, Alike
<1>2. CASE ~Informs(a)
  BY <1>2 DEF Notify, Alike, Applications
<1> QED BY <1>1, <1>2

Trays == [icon : BOOLEAN, retry : {"none", "waits", "due"}, count : 0..Retries]

LEMMA Fields ==
  ASSUME NEW a \in Applications
  PROVE  /\ a.rejections \in Nat /\ a.tray \in Trays /\ a.tray.count \in 0..Retries
         /\ a.explorer \in BOOLEAN
BY DEF Applications, Trays

LEMMA Retray ==
  ASSUME NEW a \in Applications, NEW t \in Trays, NEW n \in Nat
  PROVE  /\ [a EXCEPT !.tray = t] \in Applications
         /\ Alike(a, [a EXCEPT !.tray = t])
         /\ [[a EXCEPT !.tray = t] EXCEPT !.rejections = n] \in Applications
         /\ Alike(a, [[a EXCEPT !.tray = t] EXCEPT !.rejections = n])
BY DEF Applications, Trays, Alike

LEMMA SetTrayAlike ==
  ASSUME NEW a \in Applications
  PROVE  SetTray(a) \in Applications /\ Alike(a, SetTray(a))
<1>0. Retries \in Nat
  BY InterfaceAssumption
<1>1. CASE Registers(a)
  <2>1. [icon |-> TRUE, retry |-> "none", count |-> 0] \in Trays
    BY <1>0 DEF Trays
  <2> QED BY <1>1, <2>1, Retray DEF SetTray
<1>2. CASE ~Registers(a)
  <2> DEFINE again == a.tray.count < Retries
             t == [a.tray EXCEPT !.retry = IF again THEN "waits" ELSE "none",
                                 !.count = IF again THEN @ + 1 ELSE @]
             n == IF a.explorer THEN a.rejections - 1 ELSE a.rejections
  <2>1. n \in Nat
    BY <1>2, Fields DEF Registers
  <2>2. (IF again THEN a.tray.count + 1 ELSE a.tray.count) \in 0..Retries
    BY <1>0, Fields
  <2>3. t \in Trays
    BY <2>2, Fields DEF Trays
  <2>4. SetTray(a) = [[a EXCEPT !.tray = t] EXCEPT !.rejections = n]
    BY <1>2 DEF SetTray, Applications
  <2> HIDE DEF t, n
  <2> QED BY ZenonT(30), <2>1, <2>3, <2>4, Retray
<1> QED BY <1>1, <1>2

LEMMA FlagsAlike ==
  ASSUME NEW a \in Applications
  PROVE  /\ NewTaskbar(a) \in Applications /\ Alike(a, NewTaskbar(a))
         /\ Close(a) \in Applications /\ Alike(a, Close(a))
         /\ FinishExit(a) \in Applications /\ Alike(a, FinishExit(a))
         /\ Overflow(a) \in Applications /\ Alike(a, Overflow(a))
         /\ Removed(a) \in Applications /\ Alike(a, Removed(a))
<1>1. NewTaskbar(a) \in Applications /\ Alike(a, NewTaskbar(a))
  <2>1. [a.tray EXCEPT !.count = 0] \in Trays
    BY InterfaceAssumption, Fields DEF Trays
  <2>2. NewTaskbar(a) = [a EXCEPT !.tray = [a.tray EXCEPT !.count = 0]]
    BY DEF NewTaskbar, Applications
  <2> QED BY <2>1, <2>2, Retray
<1>2. Removed(a) \in Applications /\ Alike(a, Removed(a))
  <2>1. [a.tray EXCEPT !.icon = FALSE] \in Trays
    BY Fields DEF Trays
  <2>2. Removed(a) = [a EXCEPT !.tray = [a.tray EXCEPT !.icon = FALSE]]
    BY DEF Removed, Applications
  <2> QED BY <2>1, <2>2, Retray
<1>3. /\ Close(a) \in Applications /\ Alike(a, Close(a))
      /\ FinishExit(a) \in Applications /\ Alike(a, FinishExit(a))
      /\ Overflow(a) \in Applications /\ Alike(a, Overflow(a))
  BY ZenonT(30) DEF Close, FinishExit, Overflow, Alike, Applications
<1> QED BY <1>1, <1>2, <1>3

\* A job that is taken back leaves the others as they are.
LEMMA IdleLeads ==
  ASSUME NEW a, NEW j \in Jobs, Sound(a)
  PROVE  /\ Leads(a, [a EXCEPT !.jobs[j] = Idle])
         /\ \A k \in Jobs : Busy([a EXCEPT !.jobs[j] = Idle], k) <=> k # j /\ Busy(a, k)
<1> DEFINE b == [a EXCEPT !.jobs[j] = Idle]
<1>1. b \in Applications
  BY DEF Sound, Applications, Idle, JobTasks
<1>2. /\ b.restart = a.restart /\ b.phase = a.phase /\ b.services = a.services
      /\ b.startup = a.startup /\ b.outcome = a.outcome /\ b.live = a.live
      /\ b.jobs = [a.jobs EXCEPT ![j] = Idle]
  BY DEF Sound, Applications
<1>3. \A k \in Jobs : b.jobs[k] = IF k = j THEN Idle ELSE a.jobs[k]
  BY <1>2 DEF Sound, Applications
<1>4. \A k \in Jobs : Busy(b, k) <=> k # j /\ Busy(a, k)
  BY <1>3 DEF Busy, Idle
<1>5. \A k \in Jobs : Changing(b, k) => Changing(a, k)
  BY <1>3, <1>4 DEF Changing
<1>6. Changes \subseteq Jobs /\ "startup" \in Jobs
  BY DEF Changes, Jobs
<1>7. Sound(b)
  BY <1>1, <1>2, <1>3, <1>4, <1>5, <1>6 DEF Sound
<1> HIDE DEF b
<1>8. Leads(a, b)
  BY <1>2, <1>7 DEF Leads
<1> QED BY <1>4, <1>8 DEF b

LEMMA JobFields ==
  ASSUME NEW a \in Applications
  PROVE  /\ a.jobs \in [Jobs -> [task : JobTasks, state : {"idle", "running"} \cup Ended]]
         /\ a.worker \in [Jobs -> {"new", "alive", "dead"}]
BY DEF Applications

\* A job begins where nothing else changes the configuration, or it changes nothing.
LEMMA RequestLeads ==
  ASSUME NEW a, NEW j \in Jobs, NEW task \in JobTasks, Sound(a),
         j \in Changes => a.restart = None /\ a.phase = "running",
         j \in Changes /\ task # "inspect" => \A k \in Changes : ~Changing(a, k),
         j = "startup" => a.services /\ task \in {"inspect", "save"}
  PROVE  Leads(a, Request(a, j, task))
<1> DEFINE b == Request(a, j, task)
<1>0. a \in Applications /\ Changes \subseteq Jobs
  BY DEF Sound, Changes, Jobs
<1>1. CASE Starts(a, j)
  <2> DEFINE c == [[a EXCEPT !.jobs = [a.jobs EXCEPT ![j] = [task |-> task, state |-> "running"]]]
                     EXCEPT !.worker = [a.worker EXCEPT ![j] = "alive"]]
  <2>1. b = c
    BY <1>0, <1>1 DEF Request, Applications
  <2>2. /\ [a.jobs EXCEPT ![j] = [task |-> task, state |-> "running"]]
             \in [Jobs -> [task : JobTasks, state : {"idle", "running"} \cup Ended]]
        /\ [a.worker EXCEPT ![j] = "alive"] \in [Jobs -> {"new", "alive", "dead"}]
    BY <1>0, JobFields
  <2>3. c \in Applications
    BY <1>0, <2>2 DEF Applications
  <2>4. /\ c.restart = a.restart /\ c.phase = a.phase /\ c.services = a.services
        /\ c.startup = a.startup /\ c.outcome = a.outcome /\ c.live = a.live
        /\ c.jobs = [a.jobs EXCEPT ![j] = [task |-> task, state |-> "running"]]
    BY <1>0 DEF Applications
  <2>5. \A k \in Jobs : c.jobs[k] = IF k = j THEN [task |-> task, state |-> "running"] ELSE a.jobs[k]
    BY <1>0, <2>4, JobFields
  <2>6. \A k \in Jobs : /\ k # j => (Busy(c, k) <=> Busy(a, k)) /\ (Changing(c, k) <=> Changing(a, k))
                        /\ Changing(c, j) => task # "inspect"
    BY <2>5 DEF Busy, Changing
  <2> HIDE DEF c
  <2>7. \A k, l \in Changes : Changing(c, k) /\ Changing(c, l) => k = l
    BY <1>0, <2>6 DEF Sound
  <2>8. c.restart # None \/ c.phase # "running" => c.services /\ \A k \in Changes : ~Busy(c, k)
    BY <1>0, <2>4, <2>6 DEF Sound
  <2>9. ~c.services => c.startup = "pending" /\ ~Busy(c, "startup")
    BY <1>0, <2>4, <2>6 DEF Sound, Jobs, Changes
  <2>10. Busy(c, "startup") => c.jobs["startup"].task \in {"inspect", "save"}
    <3>1. "startup" \in Jobs
      BY DEF Jobs
    <3>2. CASE j = "startup"
      BY <2>5, <3>1, <3>2
    <3>3. CASE j # "startup"
      BY <2>5, <2>6, <3>1, <3>3 DEF Sound
    <3> QED BY <3>2, <3>3
  <2> QED BY <2>1, <2>3, <2>4, <2>7, <2>8, <2>9, <2>10 DEF Sound, Leads
<1>2. CASE ~Starts(a, j)
  <2> DEFINE c == [a EXCEPT !.worker = [a.worker EXCEPT ![j] = IF a.worker[j] = "new" THEN "dead" ELSE a.worker[j]]]
  <2>1. b = Notify(c)
    BY <1>0, <1>2 DEF Request, Applications
  <2>2. [a.worker EXCEPT ![j] = IF a.worker[j] = "new" THEN "dead" ELSE a.worker[j]] \in [Jobs -> {"new", "alive", "dead"}]
    BY <1>0, JobFields
  <2>3. c \in Applications /\ Alike(a, c)
    BY <1>0, <2>2 DEF Applications, Alike
  <2> HIDE DEF c
  <2>4. Leads(a, c)
    BY <2>3, AlikeLeads
  <2>5. Leads(c, Notify(c))
    BY <2>3, <2>4, NotifyAlike, AlikeLeads DEF Leads
  <2> QED BY <2>1, <2>4, <2>5, LeadsOn
<1> QED BY <1>1, <1>2

LEMMA QuietLeads ==
  ASSUME NEW a, Sound(a)
  PROVE  /\ Leads(a, a) /\ Leads(a, Notify(a)) /\ Leads(a, SetTray(a)) /\ Leads(a, NewTaskbar(a))
         /\ Leads(a, Close(a)) /\ Leads(a, FinishExit(a)) /\ Leads(a, Overflow(a)) /\ Leads(a, Removed(a))
<1>1. a \in Applications
  BY DEF Sound
<1>2. Leads(a, a)
  BY DEF Leads
<1> QED BY <1>1, <1>2, NotifyAlike, SetTrayAlike, FlagsAlike, AlikeLeads

\* Nothing that changes the configuration begins unless all of it is at rest.
LEMMA ReadyToChange ==
  ASSUME NEW a, Sound(a), CanChange(a)
  PROVE  /\ a.restart = None /\ a.phase = "running"
         /\ (\A j \in Changes : ~Busy(a, j)) => \A j \in Changes : ~Changing(a, j)
BY DEF CanChange, Changing

LEMMA TogglePauseLeads ==
  ASSUME NEW a, Sound(a)
  PROVE  Leads(a, TogglePause(a))
<1>1. CASE ~CanChange(a) \/ Busy(a, "settings") \/ Busy(a, "startup")
  BY <1>1, QuietLeads DEF TogglePause
<1>2. CASE CanChange(a) /\ ~Busy(a, "settings") /\ ~Busy(a, "startup") /\ Busy(a, "pause")
  BY <1>2, QuietLeads DEF TogglePause
<1>3. CASE CanChange(a) /\ ~Busy(a, "settings") /\ ~Busy(a, "startup") /\ ~Busy(a, "pause")
  <2>1. \A j \in Changes : ~Changing(a, j)
    BY <1>3 DEF Changes, Jobs, Changing
  <2>2. "pause" \in Jobs /\ "toggle" \in JobTasks /\ TogglePause(a) = Request(a, "pause", "toggle")
    BY <1>3 DEF Jobs, JobTasks, TogglePause
  <2> QED BY <1>3, <2>1, <2>2, RequestLeads, ReadyToChange
<1> QED BY <1>1, <1>2, <1>3

LEMMA OpenReportLeads ==
  ASSUME NEW a, Sound(a)
  PROVE  Leads(a, OpenReport(a))
<1>1. CASE Busy(a, "report") \/ ~a.report.last
  BY <1>1, QuietLeads DEF OpenReport
<1>2. CASE ~(Busy(a, "report") \/ ~a.report.last)
  <2> DEFINE b == Request(a, "report", "open")
             c == [b EXCEPT !.report = [b.report EXCEPT !.opening = Starts(a, "report") \/ b.report.opening]]
  <2>1. "report" \in Jobs /\ "report" \notin Changes /\ "open" \in JobTasks
    BY DEF Jobs, Changes, JobTasks, Commands
  <2>2. Leads(a, b)
    BY <2>1, RequestLeads
  <2>3. b \in Applications /\ Sound(b)
    BY <2>2 DEF Leads, Sound
  <2> HIDE DEF b
  <2>4. b.report \in [last : BOOLEAN, opening : BOOLEAN]
    BY <2>3 DEF Applications
  <2>5. (Starts(a, "report") \/ b.report.opening) \in BOOLEAN
    OBVIOUS
  <2>6. [b.report EXCEPT !.opening = Starts(a, "report") \/ b.report.opening] \in [last : BOOLEAN, opening : BOOLEAN]
    BY <2>4, <2>5
  <2>7. c \in Applications /\ Alike(b, c)
    BY <2>3, <2>6 DEF Applications, Alike
  <2>8. OpenReport(a) = c
    BY <1>2, <2>3 DEF OpenReport, b, Applications
  <2> QED BY <2>2, <2>3, <2>7, <2>8, AlikeLeads, LeadsOn
<1> QED BY <1>1, <1>2

LEMMA RequestExitLeads ==
  ASSUME NEW a, Sound(a)
  PROVE  Leads(a, RequestExit(a))
<1> DEFINE b == [a EXCEPT !.exit = TRUE]
           c == Cancel(b, "pause")
           d == Cancel(c, "settings")
           e == Cancel(d, "report")
<1>1. b \in Applications /\ Alike(a, b)
  BY DEF Sound, Applications, Alike
<1>2. Leads(a, b)
  BY <1>1, AlikeLeads
<1>3. \A x : Sound(x) => \A j \in Jobs : Leads(x, Cancel(x, j))
  BY IdleLeads DEF Cancel
<1>4. "pause" \in Jobs /\ "settings" \in Jobs /\ "report" \in Jobs
  BY DEF Jobs
<1>5. RequestExit(a) = IF a.restart = None THEN FinishExit(e) ELSE e
  BY DEF RequestExit
<1> HIDE DEF b, c, d, e
<1>6. Leads(a, c)
  BY <1>2, <1>3, <1>4, LeadsOn DEF c, Leads
<1>7. Leads(a, d)
  BY <1>6, <1>3, <1>4, LeadsOn DEF d, Leads
<1>8. Leads(a, e)
  BY <1>7, <1>3, <1>4, LeadsOn DEF e, Leads
<1>9. Leads(e, FinishExit(e))
  BY <1>8, QuietLeads DEF Leads
<1> QED BY <1>5, <1>8, <1>9, LeadsOn

LEMMA CommandLeads ==
  ASSUME NEW a, NEW c \in Commands, Sound(a)
  PROVE  Leads(a, Command(a, c))
<1>1. CASE c = "exit"
  BY <1>1, RequestExitLeads DEF Command
<1>2. CASE c = "pause"
  BY <1>2, TogglePauseLeads DEF Command
<1>3. CASE c = "open"
  BY <1>3, OpenReportLeads DEF Command
<1>4. CASE c = "report"
  <2>1. "report" \in Jobs /\ "report" \notin Changes /\ "export" \in JobTasks
    BY DEF Jobs, Changes, JobTasks
  <2>2. Command(a, c) = IF Permits(a, c) THEN Request(a, "report", "export") ELSE a
    BY <1>4 DEF Command
  <2> QED BY <2>1, <2>2, RequestLeads, QuietLeads
<1>5. CASE c = "startup"
  <2>1. "startup" \in Jobs /\ "save" \in JobTasks
    BY DEF Jobs, JobTasks
  <2>2. Command(a, c) = IF Permits(a, c) THEN Request(a, "startup", "save") ELSE Notify(a)
    BY <1>5 DEF Command
  <2>3. ASSUME Permits(a, c) PROVE Leads(a, Request(a, "startup", "save"))
    <3>1. RequireReady(a) /\ a.startup \in {"ready", "saved"}
      BY <1>5, <2>3 DEF Permits, QuickSettings
    <3>2. CanChange(a) /\ a.services /\ \A j \in Changes : ~Changing(a, j)
      BY <3>1 DEF RequireReady, Sound, Changing
    <3> QED BY <2>1, <3>2, ReadyToChange, RequestLeads
  <2> QED BY <2>2, <2>3, QuietLeads
<1>6. CASE c \in {"elevate", "apply"} \cup QuickSettings
  <2>1. "settings" \in Jobs /\ c \in JobTasks
    BY DEF Jobs, JobTasks
  <2>2. Command(a, c) = IF Permits(a, c) THEN Request(a, "settings", c) ELSE Notify(a)
    BY <1>6 DEF Command, QuickSettings
  <2>3. ASSUME Permits(a, c) PROVE Leads(a, Request(a, "settings", c))
    <3>1. RequireReady(a)
      BY <1>6, <2>3 DEF Permits, QuickSettings
    <3>2. CanChange(a) /\ \A j \in Changes : ~Changing(a, j)
      BY <3>1 DEF RequireReady, Changing
    <3> QED BY <2>1, <3>2, ReadyToChange, RequestLeads
  <2> QED BY <2>2, <2>3, QuietLeads
<1> QED BY <1>1, <1>2, <1>3, <1>4, <1>5, <1>6 DEF Commands

-----------------------------------------------------------------------------
(* What is looked after between two messages.                              *)

LEMMA RestartLeads ==
  ASSUME NEW a, Sound(a), a.services, \A j \in Changes : ~Busy(a, j)
  PROVE  Leads(a, Restart(a))
<1>1. CASE a.spawns
  <2> DEFINE b == [a EXCEPT !.restart = "under way"]
  <2>1. b \in Applications
    BY DEF Sound, Applications
  <2>2. b.jobs = a.jobs /\ b.services = a.services /\ b.startup = a.startup /\ b.live = a.live
        /\ b.restart = "under way" /\ "under way" # None
    BY NoneAssumption DEF Sound, Applications
  <2>3. Restart(a) = b
    BY <1>1 DEF Restart
  <2> HIDE DEF b
  <2> QED BY <2>1, <2>2, <2>3 DEF Sound, Leads, Busy, Changing
<1>2. CASE ~a.spawns
  BY <1>2, QuietLeads DEF Restart
<1> QED BY <1>1, <1>2

LEMMA StartServicesLeads ==
  ASSUME NEW a, Sound(a), a.phase = "running"
  PROVE  Leads(a, StartServices(a)) /\ StartServices(a).services
<1>1. CASE a.services
  BY <1>1, QuietLeads DEF StartServices
<1>2. CASE ~a.services
  <2> DEFINE b == [a EXCEPT !.services = TRUE]
             c == [b EXCEPT !.startup = "failed"]
             d == IF a.spawns THEN Request(b, "startup", "inspect") ELSE Notify(c)
  <2>1. b \in Applications /\ c \in Applications
    BY DEF Sound, Applications
  <2>2. /\ b.jobs = a.jobs /\ b.restart = None /\ b.phase = "running" /\ b.services
        /\ b.outcome = a.outcome /\ b.live = a.live
        /\ c.jobs = a.jobs /\ c.restart = None /\ c.phase = "running" /\ c.services
        /\ c.outcome = a.outcome /\ c.live = a.live
    BY <1>2 DEF Sound, Applications
  <2>3. StartServices(a) = SetTray(d)
    BY <1>2 DEF StartServices
  <2> HIDE DEF b, c, d
  <2>4. Leads(a, b) /\ Leads(a, c)
    BY <1>2, <2>1, <2>2 DEF Sound, Leads, Busy, Changing
  <2>5. Leads(a, d) /\ d.services
    <3>1. CASE a.spawns
      <4>1. "startup" \in Jobs /\ "inspect" \in JobTasks
        BY DEF Jobs, JobTasks
      <4>2. Leads(b, Request(b, "startup", "inspect"))
        BY <2>2, <2>4, <4>1, RequestLeads DEF Leads
      <4> QED BY <2>2, <2>4, <3>1, <4>2, LeadsOn DEF d, Leads
    <3>2. CASE ~a.spawns
      <4>1. Leads(c, Notify(c))
        BY <2>4, QuietLeads DEF Leads
      <4> QED BY <2>2, <2>4, <3>2, <4>1, LeadsOn DEF d, Leads
    <3> QED BY <3>1, <3>2
  <2>6. Leads(d, SetTray(d))
    BY <2>5, QuietLeads DEF Leads
  <2> QED BY <2>3, <2>5, <2>6, LeadsOn DEF Leads
<1> QED BY <1>1, <1>2

LEMMA PollStartupLeads ==
  ASSUME NEW a, Sound(a)
  PROVE  Leads(a, PollStartup(a))
<1>1. CASE ~HasEnded(a, "startup")
  BY <1>1, QuietLeads DEF PollStartup
<1>2. CASE HasEnded(a, "startup")
  <2> DEFINE job == a.jobs["startup"]
             good == job.state = "done"
             b == Taken(a, "startup")
             next == CASE job.task = "inspect" -> IF good THEN "ready" ELSE "failed"
                       [] job.task = "save" -> IF good THEN "saved" ELSE b.startup
             c == [b EXCEPT !.startup = next]
  <2>1. "startup" \in Jobs /\ Busy(a, "startup")
    BY <1>2 DEF Jobs, HasEnded, Busy, Ended
  <2>2. Leads(a, b) /\ ~Busy(b, "startup") /\ b \in Applications
    BY <2>1, IdleLeads DEF Taken, Leads, Sound
  <2>3. b.services
    BY <2>1, <2>2 DEF Sound, Leads
  <2>4. next \in {"pending", "ready", "saved", "failed"}
    <3>1. b.startup \in {"pending", "ready", "saved", "failed"}
      BY <2>2 DEF Applications
    <3>2. job.task = "inspect" \/ job.task = "save"
      BY <2>1 DEF Sound
    <3>3. CASE job.task = "inspect"
      BY <3>3
    <3>4. CASE job.task = "save"
      BY <3>1, <3>4
    <3> QED BY <3>2, <3>3, <3>4
  <2>5. PollStartup(a) = IF good /\ job.task = "inspect" THEN c ELSE Notify(c)
    BY <1>2, <2>2 DEF PollStartup, Applications
  <2> HIDE DEF b, next
  <2>6. c \in Applications
    BY <2>2, <2>4 DEF Applications
  <2>7. /\ c.jobs = b.jobs /\ c.restart = b.restart /\ c.phase = b.phase /\ c.services = b.services
        /\ c.outcome = b.outcome /\ c.live = b.live
    BY <2>2 DEF Applications
  <2> HIDE DEF c
  <2>8. Leads(b, c)
    BY <2>2, <2>3, <2>6, <2>7 DEF Sound, Leads, Busy, Changing
  <2>9. Leads(a, c) /\ Leads(c, Notify(c))
    BY <2>2, <2>8, LeadsOn, QuietLeads DEF Leads
  <2> QED BY <2>5, <2>9, LeadsOn
<1> QED BY <1>1, <1>2

LEMMA PollSettingsLeads ==
  ASSUME NEW a, Sound(a), a.services
  PROVE  Leads(a, PollSettings(a))
<1>1. CASE ~HasEnded(a, "settings")
  BY <1>1, QuietLeads DEF PollSettings
<1>2. CASE HasEnded(a, "settings")
  <2> DEFINE b == Taken(a, "settings")
  <2>1. "settings" \in Jobs
    BY DEF Jobs
  <2>2. Leads(a, b) /\ ~Busy(b, "settings")
    BY <2>1, IdleLeads DEF Taken
  <2>3. PollSettings(a) \in {Notify(b), Restart(b)}
        /\ (PollSettings(a) # Notify(b) => ~Busy(b, "startup") /\ ~Busy(b, "pause"))
    BY <1>2 DEF PollSettings
  <2> HIDE DEF b
  <2>4. Leads(b, Notify(b))
    BY <2>2, QuietLeads DEF Leads
  <2>5. ASSUME ~Busy(b, "startup"), ~Busy(b, "pause") PROVE Leads(b, Restart(b))
    <3>1. \A j \in Changes : ~Busy(b, j)
      BY <2>2, <2>5 DEF Changes, Jobs
    <3> QED BY <2>2, <3>1, RestartLeads DEF Leads
  <2> QED BY <2>2, <2>3, <2>4, <2>5, LeadsOn
<1> QED BY <1>1, <1>2

LEMMA PollConfigLeads ==
  ASSUME NEW a, Sound(a), a.services
  PROVE  Leads(a, PollConfig(a))
<1>1. CASE a.candidate = None \/ a.restart # None \/ \E j \in Changes : Busy(a, j)
  BY <1>1, QuietLeads DEF PollConfig
<1>2. CASE ~(a.candidate = None \/ a.restart # None \/ \E j \in Changes : Busy(a, j))
  <2> DEFINE b == [a EXCEPT !.candidate = None]
  <2>1. b \in Applications /\ Alike(a, b)
    BY DEF Sound, Applications, Alike
  <2>2. PollConfig(a) \in {Notify(b), Restart(b)}
    BY <1>2 DEF PollConfig
  <2> HIDE DEF b
  <2>3. Leads(a, b) /\ Leads(b, Notify(b))
    BY <2>1, AlikeLeads, QuietLeads DEF Leads
  <2>4. Leads(b, Restart(b))
    BY <1>2, <2>1, <2>3, RestartLeads DEF Leads, Alike, Busy
  <2> QED BY <2>2, <2>3, <2>4, LeadsOn
<1> QED BY <1>1, <1>2

LEMMA PollServicesLeads ==
  ASSUME NEW a, Sound(a)
  PROVE  Leads(a, PollServices(a))
<1>1. CASE ~(a.live /\ a.phase = "running" /\ ~a.exit)
  BY <1>1, QuietLeads DEF PollServices
<1>2. CASE a.live /\ a.phase = "running" /\ ~a.exit
  <2> DEFINE b == StartServices(a)
             c == PollStartup(b)
             d == PollSettings(c)
  <2>1. PollServices(a) = Then(Then(Then(b, PollStartup), PollSettings), PollConfig)
    BY <1>2 DEF PollServices
  <2>2. Then(b, PollStartup) = c
    BY DEF Then
  <2>3. Then(c, PollSettings) = d
    BY DEF Then
  <2>4. Then(d, PollConfig) = PollConfig(d)
    BY DEF Then
  <2> HIDE DEF b, c, d
  <2>5. PollServices(a) = PollConfig(d)
    BY <2>1, <2>2, <2>3, <2>4
  <2>6. Leads(a, b) /\ b.services
    BY <1>2, StartServicesLeads DEF b
  <2>7. Leads(b, c)
    BY <2>6, PollStartupLeads DEF c, Leads
  <2>8. Leads(c, d)
    BY <2>6, <2>7, PollSettingsLeads DEF d, Leads
  <2>9. Leads(d, PollConfig(d))
    BY <2>6, <2>7, <2>8, PollConfigLeads DEF Leads
  <2> QED BY <2>5, <2>6, <2>7, <2>8, <2>9, LeadsOn
<1> QED BY <1>1, <1>2

LEMMA ConcludedLeads ==
  ASSUME NEW a, Sound(a)
  PROVE  Leads(a, Concluded(a))
<1> DEFINE over == [a EXCEPT !.outcome = None, !.restart = None]
           off == [a EXCEPT !.outcome = None]
           back == [over EXCEPT !.phase = "restoring"]
<1>1. over \in Applications /\ off \in Applications /\ back \in Applications
  BY ZenonT(30) DEF Sound, Applications
<1>2. /\ over.jobs = a.jobs /\ over.services = a.services /\ over.startup = a.startup /\ over.live = a.live
      /\ over.restart = None /\ over.outcome = None /\ over.phase = a.phase
      /\ back.jobs = a.jobs /\ back.services = a.services /\ back.startup = a.startup /\ back.live = a.live
      /\ back.restart = None /\ back.outcome = None
      /\ off.jobs = a.jobs /\ off.services = a.services /\ off.startup = a.startup /\ off.live = a.live
      /\ off.restart = a.restart /\ off.outcome = None /\ off.phase = a.phase
  BY DEF Sound, Applications
<1>3. a.outcome \in {None, "complete", "failed", "unsafe"}
  BY DEF Sound, Applications, Outcomes
<1>4. CASE a.outcome = None
  <2>1. Concluded(a) = a
    BY <1>4, NoneAssumption DEF Concluded, Outcomes
  <2> QED BY <2>1, QuietLeads
<1>5. CASE a.outcome # None
  <2>1. Concluded(a) \in {FinishExit(over), Notify(off), Notify(back)}
    <3>1. CASE a.outcome = "complete"
      BY <1>5, <3>1 DEF Concluded
    <3>2. CASE a.outcome = "unsafe"
      BY <1>5, <3>2 DEF Concluded
    <3>3. CASE a.outcome = "failed"
      BY <1>5, <3>3 DEF Concluded
    <3> QED BY <1>3, <1>5, <3>1, <3>2, <3>3
  <2>2. a.services /\ \A j \in Changes : ~Busy(a, j)
    BY <1>5 DEF Sound
  <2> HIDE DEF over, off, back
  <2>3. Leads(a, over) /\ Leads(a, off) /\ Leads(a, back)
    BY <1>1, <1>2, <2>2 DEF Sound, Leads, Busy, Changing
  <2>4. Leads(over, FinishExit(over)) /\ Leads(off, Notify(off)) /\ Leads(back, Notify(back))
    BY <2>3, QuietLeads DEF Leads
  <2> QED BY <2>1, <2>3, <2>4, LeadsOn
<1> QED BY <1>4, <1>5

LEMMA RestoredLeads ==
  ASSUME NEW a, Sound(a)
  PROVE  Leads(a, Restored(a))
<1> DEFINE b == [a EXCEPT !.phase = "running"]
<1>1. b \in Applications
  BY DEF Sound, Applications
<1>2. /\ b.jobs = a.jobs /\ b.services = a.services /\ b.startup = a.startup /\ b.live = a.live
      /\ b.restart = a.restart /\ b.outcome = a.outcome /\ b.phase = "running"
  BY DEF Sound, Applications
<1>3. Restored(a) \in {a, b}
  BY DEF Restored
<1> HIDE DEF b
<1>4. Leads(a, b)
  BY <1>1, <1>2 DEF Sound, Leads, Busy, Changing
<1> QED BY <1>3, <1>4, QuietLeads

LEMMA PollLifecycleLeads ==
  ASSUME NEW a, Sound(a)
  PROVE  Leads(a, PollLifecycle(a))
<1> DEFINE b == Concluded(a)
           c == Restored(b)
<1>1. PollLifecycle(a) = Then(Then(b, Restored), PollServices)
  BY DEF PollLifecycle
<1>2. Then(b, Restored) = c
  BY DEF Then
<1>3. Then(c, PollServices) = PollServices(c)
  BY DEF Then
<1> HIDE DEF b, c
<1>4. PollLifecycle(a) = PollServices(c)
  BY <1>1, <1>2, <1>3
<1>5. Leads(a, b)
  BY ConcludedLeads DEF b
<1>6. Leads(b, c)
  BY <1>5, RestoredLeads DEF c, Leads
<1>7. Leads(c, PollServices(c))
  BY <1>6, PollServicesLeads DEF Leads
<1> QED BY <1>4, <1>5, <1>6, <1>7, LeadsOn

LEMMA PollReportLeads ==
  ASSUME NEW a, Sound(a)
  PROVE  Leads(a, PollReport(a))
<1>1. CASE ~HasEnded(a, "report")
  BY <1>1, QuietLeads DEF PollReport
<1>2. CASE HasEnded(a, "report")
  <2> DEFINE t == Taken(a, "report")
             b == [t EXCEPT !.report = [t.report EXCEPT !.opening = FALSE]]
             c == [b EXCEPT !.report = [b.report EXCEPT !.last = TRUE]]
  <2>1. Leads(a, t) /\ t \in Applications
    BY IdleLeads DEF Taken, Jobs, Leads, Sound
  <2>2. PollReport(a) \in {Notify(b), OpenReport(c), b}
    <3>1. [t EXCEPT !.report.opening = FALSE] = b /\ [b EXCEPT !.report.last = TRUE] = c
      BY <2>1 DEF Applications
    <3> QED BY <1>2, <3>1 DEF PollReport
  <2> HIDE DEF t
  <2>3. t.report \in [last : BOOLEAN, opening : BOOLEAN]
    BY <2>1 DEF Applications
  <2>4. b \in Applications /\ Alike(t, b)
    BY ZenonT(30), <2>1, <2>3 DEF Applications, Alike
  <2> HIDE DEF b
  <2>5. b.report \in [last : BOOLEAN, opening : BOOLEAN]
    BY <2>4 DEF Applications
  <2>6. c \in Applications /\ Alike(b, c)
    BY <2>4, <2>5 DEF Applications, Alike
  <2> HIDE DEF c
  <2>7. Leads(t, b)
    BY <2>1, <2>4, AlikeLeads DEF Leads
  <2>8. Leads(b, c)
    BY <2>6, <2>7, AlikeLeads DEF Leads
  <2>9. Leads(a, b) /\ Leads(a, c)
    BY <2>1, <2>7, <2>8, LeadsOn
  <2>10. Leads(b, Notify(b)) /\ Leads(c, OpenReport(c))
    BY <2>9, QuietLeads, OpenReportLeads DEF Leads
  <2> QED BY <2>2, <2>9, <2>10, LeadsOn
<1> QED BY <1>1, <1>2

LEMMA PauseLeads ==
  ASSUME NEW a, Sound(a)
  PROVE  Leads(a, AskPause(a)) /\ Leads(a, PausePolled(a))
<1>1. Leads(a, AskPause(a))
  <2> DEFINE b == [a EXCEPT !.asked = FALSE]
  <2>1. b \in Applications /\ Alike(a, b)
    BY ZenonT(30) DEF Sound, Applications, Alike
  <2>2. AskPause(a) \in {TogglePause(b), a}
    BY DEF AskPause
  <2> HIDE DEF b
  <2>3. Leads(a, b)
    BY <2>1, AlikeLeads
  <2>4. Leads(b, TogglePause(b))
    BY <2>3, TogglePauseLeads DEF Leads
  <2> QED BY <2>2, <2>3, <2>4, LeadsOn, QuietLeads
<1>2. Leads(a, PausePolled(a))
  <2> DEFINE t == Taken(a, "pause")
             other == ~t.paused
             b == [t EXCEPT !.paused = other]
  <2>1. Leads(a, t) /\ t \in Applications
    BY IdleLeads DEF Taken, Jobs, Leads, Sound
  <2>2. PausePolled(a) \in {a, b, Notify(t)} /\ other \in BOOLEAN
    BY DEF PausePolled
  <2> HIDE DEF t, other
  <2>3. b \in Applications /\ Alike(t, b)
    BY <2>1, <2>2 DEF Applications, Alike
  <2> HIDE DEF b
  <2>4. Leads(t, b) /\ Leads(t, Notify(t))
    BY <2>1, <2>3, AlikeLeads, QuietLeads DEF Leads
  <2> QED BY <2>1, <2>2, <2>4, LeadsOn, QuietLeads
<1> QED BY <1>1, <1>2

LEMMA ServedLeads ==
  ASSUME NEW a, Sound(a)
  PROVE  Leads(a, Served(a))
<1> DEFINE b == PollFeedback(a)
           c == PollReport(b)
           d == AskPause(c)
<1>1. Served(a) \in {Then(Then(Then(b, PollReport), AskPause), PausePolled), a}
  BY DEF Served
<1>2. Then(b, PollReport) = c
  BY DEF Then
<1>3. Then(c, AskPause) = d
  BY DEF Then
<1>4. Then(d, PausePolled) = PausePolled(d)
  BY DEF Then
<1> HIDE DEF b, c, d
<1>5. Served(a) \in {PausePolled(d), a}
  BY <1>1, <1>2, <1>3, <1>4
<1>6. Leads(a, b)
  BY QuietLeads DEF b, PollFeedback
<1>7. Leads(b, c)
  BY <1>6, PollReportLeads DEF c, Leads
<1>8. Leads(c, d)
  BY <1>7, PauseLeads DEF d, Leads
<1>9. Leads(d, PausePolled(d))
  BY <1>8, PauseLeads DEF Leads
<1> QED BY <1>5, <1>6, <1>7, <1>8, <1>9, LeadsOn, QuietLeads

LEMMA ApplyLeads ==
  ASSUME NEW a, NEW kind \in Kinds, Sound(a)
  PROVE  Leads(a, Apply(a, kind))
<1>1. Leads(a, DrainInput(a))
  <2> DEFINE b == PollLifecycle(a)
  <2>1. DrainInput(a) = Then(b, Served)
    BY DEF DrainInput
  <2>2. Then(b, Served) = Served(b)
    BY DEF Then
  <2>3. Leads(a, b)
    BY PollLifecycleLeads
  <2> HIDE DEF b
  <2>4. Leads(b, Served(b))
    BY <2>3, ServedLeads DEF Leads
  <2> QED BY <2>1, <2>2, <2>3, <2>4, LeadsOn
<1>2. Leads(a, SetTray(NewTaskbar(a)))
  <2>1. Leads(a, NewTaskbar(a)) /\ Sound(NewTaskbar(a))
    BY QuietLeads DEF Leads
  <2> QED BY <2>1, QuietLeads, LeadsOn
<1>3. Apply(a, kind) \in {DrainInput(a), PollLifecycle(a), SetTray(NewTaskbar(a)), a}
  BY DEF Apply, Kinds, Coalesced, Ticketed
<1> QED BY <1>1, <1>2, <1>3, PollLifecycleLeads, QuietLeads

-----------------------------------------------------------------------------
(* Steps of the threads and of the system, and what an open menu offers.   *)

\* What the commands of the menu depend on is the same in b as in a.
Aside(a, b) ==
  /\ \A j \in Jobs : (Busy(b, j) <=> Busy(a, j)) /\ b.jobs[j].task = a.jobs[j].task
  /\ b.exit = a.exit /\ b.phase = a.phase /\ b.restart = a.restart /\ b.startup = a.startup
  /\ b.elevated = a.elevated /\ b.report = a.report /\ b.services = a.services
  /\ b.live = a.live

LEMMA Flagged ==
  ASSUME NEW a \in Applications, NEW e \in BOOLEAN, NEW n \in BOOLEAN, NEW k \in BOOLEAN,
         NEW h \in BOOLEAN, NEW p \in BOOLEAN
  PROVE  [a EXCEPT !.explorer = e, !.announced = n, !.asked = k, !.hooked = h, !.spawns = p] \in Applications
<1> DEFINE b == [a EXCEPT !.explorer = e, !.announced = n]
           c == [b EXCEPT !.asked = k, !.hooked = h]
           d == [c EXCEPT !.spawns = p]
<1>1. b \in Applications
  BY DEF Applications
<1> HIDE DEF b
<1>2. c \in Applications
  BY <1>1 DEF Applications
<1> HIDE DEF c
<1>3. d \in Applications
  BY <1>2 DEF Applications
<1>4. d = [a EXCEPT !.explorer = e, !.announced = n, !.asked = k, !.hooked = h, !.spawns = p]
  BY DEF b, c, Applications
<1> HIDE DEF d
<1> QED BY <1>3, <1>4

LEMMA AsideLeads ==
  ASSUME NEW a, NEW b \in Applications, Sound(a), Aside(a, b), b.outcome # None => b.restart # None
  PROVE  Leads(a, b)
<1>1. Changes \subseteq Jobs /\ "startup" \in Jobs
  BY DEF Changes, Jobs
<1>2. \A j \in Jobs : Changing(b, j) <=> Changing(a, j)
  BY DEF Aside, Changing
<1>3. \A j, k \in Changes : Changing(b, j) /\ Changing(b, k) => j = k
  BY <1>1, <1>2 DEF Sound
<1>4. b.restart # None \/ b.phase # "running" => b.services /\ \A j \in Changes : ~Busy(b, j)
  BY <1>1 DEF Sound, Aside
<1>5. ~b.services => b.startup = "pending" /\ ~Busy(b, "startup")
  BY <1>1 DEF Sound, Aside
<1>6. Busy(b, "startup") => b.jobs["startup"].task \in {"inspect", "save"}
  BY <1>1 DEF Sound, Aside
<1> QED BY <1>3, <1>4, <1>5, <1>6 DEF Sound, Leads, Aside

LEMMA AsidePermits ==
  ASSUME NEW a, NEW b, NEW c \in Commands, Aside(a, b), Permits(a, c)
  PROVE  Permits(b, c)
<1>1. CanChange(b) <=> CanChange(a)
  BY DEF Aside, CanChange
<1>2. RequireReady(b) <=> RequireReady(a)
  BY <1>1 DEF Aside, RequireReady, Changes, Jobs
<1>3. (\A j \in Changes : ~Busy(b, j)) <=> (\A j \in Changes : ~Busy(a, j))
  BY DEF Aside, Changes, Jobs
<1>4. Busy(b, "report") <=> Busy(a, "report")
  BY DEF Aside, Jobs
<1>5. CASE c \in {"exit", "startup", "pause"}
  BY <1>1, <1>2, <1>3, <1>5 DEF Permits, Aside, QuickSettings
<1>6. CASE c \in {"elevate", "apply"} \cup QuickSettings
  BY <1>2, <1>6 DEF Permits, Aside, QuickSettings
<1>7. CASE c \in {"report", "open"}
  BY <1>1, <1>4, <1>7 DEF Permits, Aside, QuickSettings
<1> QED BY <1>5, <1>6, <1>7 DEF Commands

Beside(a, b) ==
  /\ b.jobs = a.jobs /\ b.exit = a.exit /\ b.phase = a.phase /\ b.restart = a.restart
  /\ b.startup = a.startup /\ b.elevated = a.elevated /\ b.report = a.report
  /\ b.services = a.services /\ b.live = a.live

Worked == \E j \in Jobs : Work(j) \/ Refuse(j) \/ Die(j)
Elsewhere ==
  \/ Worked \/ Look \/ Read \/ Elapse \/ Crash \/ Return \/ Ask \/ Acknowledge \/ Exhaust
  \/ \E what \in {"valid", "invalid"} : Offer(what)
  \/ \E o \in Outcomes : Outcome(o)

\* What threads and the system do leaves the commands as they were permitted.
LEMMA ElsewhereAside ==
  ASSUME Sound(ui), Elsewhere
  PROVE  /\ Aside(ui, ui') /\ Leads(ui, ui')
         /\ UNCHANGED <<made, stage, handler, pending, tickets>>
<1>0. ui \in Applications
  BY DEF Sound
<1> SUFFICES /\ ui' \in Applications /\ Aside(ui, ui') /\ (ui'.outcome # None => ui'.restart # None)
             /\ UNCHANGED <<made, stage, handler, pending, tickets>>
  BY AsideLeads
<1>1. CASE Worked
  <2>1. PICK j \in Jobs : Work(j) \/ Refuse(j) \/ Die(j)
    BY <1>1 DEF Worked
  <2>2. PICK s \in Ended, w \in {"new", "alive", "dead"} :
          ui' = [[ui EXCEPT !.jobs = [ui.jobs EXCEPT ![j] = [ui.jobs[j] EXCEPT !.state = s]]]
                   EXCEPT !.worker = [ui.worker EXCEPT ![j] = w]]
    <3>1. ui.worker[j] \in {"new", "alive", "dead"} /\ [ui.worker EXCEPT ![j] = ui.worker[j]] = ui.worker
      BY <1>0, JobFields
    <3>2. CASE Work(j)
      <4>1. ui' = [[ui EXCEPT !.jobs = [ui.jobs EXCEPT ![j] = [ui.jobs[j] EXCEPT !.state = "done"]]]
                     EXCEPT !.worker = [ui.worker EXCEPT ![j] = ui.worker[j]]]
        BY ZenonT(30), <1>0, <3>1, <3>2 DEF Work, Outside, Applications
      <4> QED BY <3>1, <4>1 DEF Ended
    <3>3. CASE Refuse(j)
      <4>1. ui' = [[ui EXCEPT !.jobs = [ui.jobs EXCEPT ![j] = [ui.jobs[j] EXCEPT !.state = "refused"]]]
                     EXCEPT !.worker = [ui.worker EXCEPT ![j] = ui.worker[j]]]
        BY ZenonT(30), <1>0, <3>1, <3>3 DEF Refuse, Outside, Applications
      <4> QED BY <3>1, <4>1 DEF Ended
    <3>4. CASE Die(j)
      <4>1. ui' = [[ui EXCEPT !.jobs = [ui.jobs EXCEPT ![j] = [ui.jobs[j] EXCEPT !.state = "died"]]]
                     EXCEPT !.worker = [ui.worker EXCEPT ![j] = "dead"]]
        BY <1>0, <3>4 DEF Die, Outside, Applications
      <4> QED BY <4>1 DEF Ended
    <3> QED BY <2>1, <3>2, <3>3, <3>4
  <2>3. UNCHANGED <<made, stage, handler, pending, tickets>> /\ ui.jobs[j].state = "running"
    BY <2>1 DEF Work, Refuse, Die, Outside
  <2> DEFINE jobs == [ui.jobs EXCEPT ![j] = [ui.jobs[j] EXCEPT !.state = s]]
             worker == [ui.worker EXCEPT ![j] = w]
  <2>4. /\ jobs \in [Jobs -> [task : JobTasks, state : {"idle", "running"} \cup Ended]]
        /\ worker \in [Jobs -> {"new", "alive", "dead"}]
        /\ \A k \in Jobs : jobs[k].task = ui.jobs[k].task /\ jobs[k].state = IF k = j THEN s ELSE ui.jobs[k].state
    BY <1>0, JobFields
  <2>5. s # "idle"
    BY DEF Ended
  <2> HIDE DEF jobs, worker
  <2>6. ui' \in Applications
    BY ZenonT(30), <1>0, <2>2, <2>4 DEF Applications, jobs, worker
  <2>7. /\ ui'.jobs = jobs /\ ui'.exit = ui.exit /\ ui'.phase = ui.phase /\ ui'.restart = ui.restart
        /\ ui'.startup = ui.startup /\ ui'.elevated = ui.elevated /\ ui'.report = ui.report
        /\ ui'.services = ui.services /\ ui'.live = ui.live /\ ui'.outcome = ui.outcome
    BY <1>0, <2>2 DEF Applications, jobs, worker
  <2>8. \A k \in Jobs : (jobs[k].state # "idle") <=> (ui.jobs[k].state # "idle")
    BY <2>3, <2>4, <2>5
  <2>9. Aside(ui, ui')
    BY <2>4, <2>7, <2>8 DEF Aside, Busy
  <2> QED BY <2>3, <2>6, <2>7, <2>9 DEF Sound
<1>2. Beside(ui, ui') => Aside(ui, ui')
  BY DEF Beside, Aside, Busy
<1>3. CASE Look \/ Read
  <2>1. PICK p \in [active : BOOLEAN, pending : BOOLEAN, thread : {"none", "looks", "shows"}] :
          ui' = [ui EXCEPT !.popup = p]
    <3>1. ui.popup \in [active : BOOLEAN, pending : BOOLEAN, thread : {"none", "looks", "shows"}]
      BY <1>0 DEF Applications
    <3>2. /\ [ui.popup EXCEPT !.pending = FALSE, !.thread = "shows"]
               \in [active : BOOLEAN, pending : BOOLEAN, thread : {"none", "looks", "shows"}]
          /\ [ui.popup EXCEPT !.thread = "looks"]
               \in [active : BOOLEAN, pending : BOOLEAN, thread : {"none", "looks", "shows"}]
          /\ Leaves \in [active : BOOLEAN, pending : BOOLEAN, thread : {"none", "looks", "shows"}]
      BY <3>1 DEF Leaves
    <3>3. \/ ui' = [ui EXCEPT !.popup = [ui.popup EXCEPT !.pending = FALSE, !.thread = "shows"]]
          \/ ui' = [ui EXCEPT !.popup = [ui.popup EXCEPT !.thread = "looks"]]
          \/ ui' = [ui EXCEPT !.popup = Leaves]
      BY <1>0, <1>3 DEF Look, Read, Outside, Applications
    <3> QED BY <3>2, <3>3
  <2>2. UNCHANGED <<made, stage, handler, pending, tickets>>
    BY <1>3 DEF Look, Read, Outside
  <2>3. ui' \in Applications
    BY ZenonT(30), <1>0, <2>1 DEF Applications
  <2>4. Beside(ui, ui') /\ ui'.outcome = ui.outcome
    BY <1>0, <2>1 DEF Applications, Beside
  <2> QED BY <1>2, <2>2, <2>3, <2>4 DEF Sound, Beside
<1>4. CASE Elapse \/ Crash
  <2>1. PICK t \in Trays, e \in BOOLEAN, n \in BOOLEAN :
          ui' = [[[ui EXCEPT !.tray = t] EXCEPT !.explorer = e] EXCEPT !.announced = n]
    <3>1. ui.explorer \in BOOLEAN /\ ui.announced \in BOOLEAN /\ ui.tray \in Trays
      BY <1>0, Fields DEF Applications
    <3>2. [ui.tray EXCEPT !.retry = "due"] \in Trays /\ [ui.tray EXCEPT !.icon = FALSE] \in Trays
      BY <3>1 DEF Trays
    <3>3. CASE Elapse
      <4>1. ui' = [[[ui EXCEPT !.tray = [ui.tray EXCEPT !.retry = "due"]] EXCEPT !.explorer = ui.explorer]
                     EXCEPT !.announced = ui.announced]
        BY <1>0, <3>3 DEF Elapse, Outside, Applications
      <4> QED BY <3>1, <3>2, <4>1
    <3>4. CASE Crash
      <4>1. ui' = [[[ui EXCEPT !.tray = [ui.tray EXCEPT !.icon = FALSE]] EXCEPT !.explorer = FALSE]
                     EXCEPT !.announced = FALSE]
        BY <1>0, <3>4 DEF Crash, Outside, Applications
      <4> QED BY <3>2, <4>1
    <3> QED BY <1>4, <3>3, <3>4
  <2>2. UNCHANGED <<made, stage, handler, pending, tickets>>
    BY <1>4 DEF Elapse, Crash, Outside
  <2>3. ui' \in Applications
    BY ZenonT(30), <1>0, <2>1 DEF Applications, Trays
  <2>4. Beside(ui, ui') /\ ui'.outcome = ui.outcome
    BY <1>0, <2>1 DEF Applications, Beside
  <2> QED BY <1>2, <2>2, <2>3, <2>4 DEF Sound, Beside
<1>5. CASE Return \/ Ask \/ Acknowledge \/ Exhaust
  <2>1. UNCHANGED <<made, stage, handler, pending, tickets>>
    BY <1>5 DEF Return, Ask, Acknowledge, Exhaust, Outside
  <2>2. PICK e \in BOOLEAN, n \in BOOLEAN, k \in BOOLEAN, h \in BOOLEAN, p \in BOOLEAN :
          ui' = [ui EXCEPT !.explorer = e, !.announced = n, !.asked = k, !.hooked = h, !.spawns = p]
    <3>1. /\ ui.explorer \in BOOLEAN /\ ui.announced \in BOOLEAN /\ ui.asked \in BOOLEAN
          /\ ui.hooked \in BOOLEAN /\ ui.spawns \in BOOLEAN
      BY <1>0 DEF Applications
    <3>2. CASE Return
      <4>1. ui' = [ui EXCEPT !.explorer = TRUE, !.announced = TRUE, !.asked = ui.asked, !.hooked = ui.hooked,
                             !.spawns = ui.spawns]
        BY <1>0, <3>2 DEF Return, Outside, Applications
      <4> QED BY <3>1, <4>1
    <3>3. CASE Ask
      <4>1. ui' = [ui EXCEPT !.explorer = ui.explorer, !.announced = ui.announced, !.asked = TRUE,
                             !.hooked = ui.hooked, !.spawns = ui.spawns]
        BY <1>0, <3>3 DEF Ask, Outside, Applications
      <4> QED BY <3>1, <4>1
    <3>4. CASE Acknowledge
      <4>1. ui' = [ui EXCEPT !.explorer = ui.explorer, !.announced = ui.announced, !.asked = ui.asked,
                             !.hooked = TRUE, !.spawns = ui.spawns]
        BY <1>0, <3>4 DEF Acknowledge, Outside, Applications
      <4> QED BY <3>1, <4>1
    <3>5. CASE Exhaust
      <4>1. PICK p \in BOOLEAN : ui' = [ui EXCEPT !.spawns = p]
        BY <3>5 DEF Exhaust, Outside
      <4>2. ui' = [ui EXCEPT !.explorer = ui.explorer, !.announced = ui.announced, !.asked = ui.asked,
                             !.hooked = ui.hooked, !.spawns = p]
        BY <1>0, <4>1 DEF Applications
      <4> QED BY <3>1, <4>2
    <3> QED BY <1>5, <3>2, <3>3, <3>4, <3>5
  <2>3. ui' \in Applications
    BY ZenonT(30), <1>0, <2>2, Flagged
  <2>4. Beside(ui, ui') /\ ui'.outcome = ui.outcome
    BY <1>0, <2>2 DEF Applications, Beside
  <2> QED BY <1>2, <2>1, <2>3, <2>4 DEF Sound, Beside
<1>6. CASE \E what \in {"valid", "invalid"} : Offer(what)
  <2>1. PICK what \in {"valid", "invalid"} : Offer(what)
    BY <1>6
  <2>2. UNCHANGED <<made, stage, handler, pending, tickets>> /\ ui' = [ui EXCEPT !.candidate = what]
    BY <2>1 DEF Offer, Outside
  <2>3. ui' \in Applications
    BY ZenonT(30), <1>0, <2>2 DEF Applications
  <2>4. Beside(ui, ui') /\ ui'.outcome = ui.outcome
    BY <1>0, <2>2 DEF Applications, Beside
  <2> QED BY <1>2, <2>2, <2>3, <2>4 DEF Sound, Beside
<1>7. CASE \E o \in Outcomes : Outcome(o)
  <2>1. PICK o \in Outcomes, hooked \in BOOLEAN :
          /\ ui.restart # None /\ ui' = [ui EXCEPT !.outcome = o, !.hooked = hooked]
          /\ UNCHANGED <<made, stage, handler, pending, tickets>>
    BY <1>7 DEF Outcome, Outside
  <2>2. ui' \in Applications
    BY ZenonT(30), <1>0, <2>1 DEF Applications
  <2>3. Beside(ui, ui')
    BY <1>0, <2>1 DEF Applications, Beside
  <2> QED BY <1>2, <2>1, <2>2, <2>3 DEF Beside
<1> QED BY <1>1, <1>3, <1>4, <1>5, <1>6, <1>7 DEF Elsewhere

-----------------------------------------------------------------------------
(***************************************************************************)
(* The messages that must not be lost.                                     *)
(***************************************************************************)
\* A handled message and those deferred behind it are one sequence.
LEMMA Behind ==
  ASSUME NEW h \in Messages, NEW p \in Seq(Messages)
  PROVE  /\ <<h>> \o p \in Seq(Messages) /\ Len(<<h>> \o p) = Len(p) + 1
         /\ DOMAIN (<<h>> \o p) = 1 .. (Len(p) + 1)
         /\ (<<h>> \o p)[1] = h /\ \A i \in 1 .. Len(p) : (<<h>> \o p)[i + 1] = p[i]
<1>1. <<h>> \in Seq(Messages) /\ Len(<<h>>) = 1 /\ <<h>>[1] = h
  OBVIOUS
<1>2. /\ <<h>> \o p \in Seq(Messages) /\ Len(<<h>> \o p) = 1 + Len(p)
      /\ \A i \in 1 .. 1 + Len(p) : (<<h>> \o p)[i] = IF i <= 1 THEN <<h>>[i] ELSE p[i - 1]
  BY <1>1, ConcatProperties
<1>3. Len(p) \in Nat
  OBVIOUS
<1> QED BY <1>1, <1>2, <1>3

LEMMA NextBehind ==
  ASSUME NEW p \in Seq(Messages), p # <<>>
  PROVE  Head(p) \in Messages /\ Tail(p) \in Seq(Messages) /\ <<Head(p)>> \o Tail(p) = p
<1>1. /\ Len(p) \in Nat \ {0} /\ Tail(p) \in Seq(Messages) /\ Len(Tail(p)) = Len(p) - 1
      /\ \A i \in 1 .. (Len(p) - 1) : Tail(p)[i] = p[i + 1]
      /\ Head(p) = p[1] /\ Head(p) \in Messages
  BY DroppingFirst
<1> DEFINE q == <<Head(p)>> \o Tail(p)
<1>2. /\ q \in Seq(Messages) /\ Len(q) = Len(Tail(p)) + 1 /\ q[1] = Head(p)
      /\ \A i \in 1 .. Len(Tail(p)) : q[i + 1] = Tail(p)[i]
  BY <1>1, Behind
<1> HIDE DEF q
<1>3. \A i \in 1 .. Len(p) : q[i] = p[i]
  <2> TAKE i \in 1 .. Len(p)
  <2>1. CASE i = 1
    BY <1>1, <1>2, <2>1
  <2>2. CASE i # 1
    <3>1. i - 1 \in 1 .. (Len(p) - 1) /\ (i - 1) + 1 = i
      BY <1>1, <2>2
    <3>2. q[(i - 1) + 1] = Tail(p)[i - 1] /\ Tail(p)[i - 1] = p[(i - 1) + 1]
      BY <1>1, <1>2, <3>1
    <3> QED BY <3>1, <3>2
  <2> QED BY <2>1, <2>2
<1>4. Len(q) = Len(p)
  BY <1>1, <1>2
<1>5. q = p
  BY <1>2, <1>3, <1>4, SeqEqual
<1> QED BY <1>1, <1>5 DEF q

LEMMA AppendBehind ==
  ASSUME NEW h \in Messages, NEW p \in Seq(Messages), NEW m \in Messages
  PROVE  <<h>> \o Append(p, m) = Append(<<h>> \o p, m)
<1>1. <<h>> \in Seq(Messages) /\ <<m>> \in Seq(Messages) /\ <<h>> \o p \in Seq(Messages)
  BY Behind
<1>2. Append(p, m) = p \o <<m>> /\ Append(<<h>> \o p, m) = (<<h>> \o p) \o <<m>>
  BY <1>1, AppendIsConcat
<1> QED BY <1>1, <1>2, ConcatAssociative

\* What comes in takes the next number, or none.
LEMMA NumbersAppend ==
  ASSUME NEW held \in Seq(Messages), NEW m \in Messages, NEW f \in Nat, NEW l \in Nat,
         Numbers(held, f, l), f <= l + 1
  PROVE  /\ m.ticket = 0 => Numbers(Append(held, m), f, l)
         /\ m.ticket = l + 1 => Numbers(Append(held, m), f, l + 1)
<1> DEFINE n == Len(held)
           after == Append(held, m)
<1>1. /\ n \in Nat /\ DOMAIN held = 1 .. n /\ DOMAIN after = 1 .. (n + 1)
      /\ \A i \in 1 .. n : after[i] = held[i]
      /\ after[n + 1] = m
  BY Appending
<1>2. \A i \in 1 .. n : held[i].ticket \in Nat
  <2>1. \A i \in 1 .. n : held[i] \in Messages
    BY <1>1
  <2> QED BY <2>1 DEF Messages
<1>3. \A i \in Owed(held) : i \in 1 .. n /\ held[i].ticket \in f .. l
  BY <1>1 DEF Numbers, Owed
<1> HIDE DEF n, after
<1>4. CASE m.ticket = 0
  <2>1. Owed(after) = Owed(held)
    BY <1>1, <1>4 DEF Owed
  <2>2. {after[i].ticket : i \in Owed(after)} = {held[i].ticket : i \in Owed(held)}
    BY <1>1, <1>3, <2>1
  <2> QED BY <1>1, <1>3, <1>4, <2>1, <2>2 DEF Numbers, after
<1>5. CASE m.ticket = l + 1
  <2>1. Owed(after) = Owed(held) \cup {n + 1}
    BY <1>1, <1>5 DEF Owed
  <2>2. \A i \in Owed(held) : after[i] = held[i]
    BY <1>1, <1>3
  <2>3. {after[i].ticket : i \in Owed(after)} = {held[i].ticket : i \in Owed(held)} \cup {l + 1}
    BY <1>1, <1>5, <2>1, <2>2
  <2>4. {held[i].ticket : i \in Owed(held)} \cup {l + 1} = f .. (l + 1)
    <3>1. {held[i].ticket : i \in Owed(held)} = f .. l
      BY DEF Numbers
    <3>2. (f .. l) \cup {l + 1} = f .. (l + 1)
      OBVIOUS
    <3> QED BY <3>1, <3>2
  <2>5. \A i, j \in Owed(after) : i < j => after[i].ticket < after[j].ticket
    <3> TAKE i, j \in Owed(after)
    <3> HAVE i < j
    <3>1. i \in Owed(held)
      BY <1>1, <1>3, <2>1
    <3>2. CASE j = n + 1
      <4>1. after[i].ticket = held[i].ticket /\ held[i].ticket \in f .. l
        BY <1>3, <2>2, <3>1
      <4>2. after[j].ticket = l + 1
        BY <1>1, <1>5, <3>2
      <4> QED BY <4>1, <4>2
    <3>3. CASE j # n + 1
      BY <2>1, <2>2, <3>1, <3>3 DEF Numbers
    <3> QED BY <3>2, <3>3
  <2> QED BY <1>4, <1>5, <2>3, <2>4, <2>5 DEF Numbers, after
<1> QED BY <1>4, <1>5 DEF after

\* What is done leaves with the first number, or without one.
LEMMA NumbersTail ==
  ASSUME NEW h \in Messages, NEW p \in Seq(Messages), NEW f \in Nat \ {0}, NEW l \in Nat,
         Numbers(<<h>> \o p, f, l)
  PROVE  /\ h.ticket > 0 => h.ticket = f /\ f <= l
         /\ Numbers(p, IF h.ticket > 0 THEN f + 1 ELSE f, l)
<1> DEFINE held == <<h>> \o p
           n == Len(p)
           tickets_(s) == {s[i].ticket : i \in Owed(s)}
<1>1. /\ n \in Nat /\ DOMAIN p = 1 .. n /\ DOMAIN held = 1 .. (n + 1)
      /\ held[1] = h /\ \A i \in 1 .. n : held[i + 1] = p[i]
  BY Behind
<1>2. h.ticket \in Nat /\ \A i \in 1 .. n : p[i].ticket \in Nat
  <2>1. h \in Messages /\ \A i \in 1 .. n : p[i] \in Messages
    BY <1>1
  <2> QED BY <2>1 DEF Messages
<1>3. Numbers(held, f, l)
  OBVIOUS
<1> HIDE DEF held, n
<1>4. \A i \in Owed(p) : i \in 1 .. n /\ i + 1 \in Owed(held) /\ held[i + 1] = p[i]
  BY <1>1 DEF Owed
<1>5. \A i \in Owed(held) : (i = 1 /\ h.ticket > 0) \/ ((i - 1) \in Owed(p) /\ held[i] = p[i - 1])
  <2> TAKE i \in Owed(held)
  <2>1. i \in 1 .. (n + 1) /\ held[i].ticket > 0
    BY <1>1 DEF Owed
  <2>2. CASE i = 1
    <3>1. held[i] = h
      BY <1>1, <2>2
    <3> QED BY <2>1, <2>2, <3>1
  <2>3. CASE i # 1
    <3>1. i - 1 \in 1 .. n /\ (i - 1) + 1 = i
      BY <1>1, <2>1, <2>3
    <3>2. held[i] = p[i - 1]
      BY <1>1, <3>1
    <3> QED BY <1>1, <2>1, <3>1, <3>2 DEF Owed
  <2> QED BY <2>2, <2>3
<1>6. \A i, j \in Owed(p) : i < j => p[i].ticket < p[j].ticket
  <2> TAKE i, j \in Owed(p)
  <2> HAVE i < j
  <2>1. i + 1 < j + 1
    BY <1>1, <1>4
  <2> QED BY <1>3, <1>4, <2>1 DEF Numbers
<1>7. CASE h.ticket > 0
  <2>1. 1 \in Owed(held)
    BY <1>1, <1>7 DEF Owed
  <2>2. \A i \in Owed(p) : h.ticket < p[i].ticket
    <3> TAKE i \in Owed(p)
    <3>1. 1 < i + 1
      BY <1>1, <1>4
    <3> QED BY <1>1, <1>3, <1>4, <2>1, <3>1 DEF Numbers
  <2>3. h.ticket \in f .. l
    BY <1>1, <1>3, <2>1 DEF Numbers
  <2>4. f \in tickets_(held)
    <3>1. f \in f .. l
      BY <2>3
    <3> QED BY <1>3, <3>1 DEF Numbers
  <2>5. h.ticket = f
    <3>1. PICK i \in Owed(held) : held[i].ticket = f
      BY <2>4
    <3>2. CASE i = 1
      BY <1>1, <3>1, <3>2
    <3>3. CASE i # 1
      BY <1>1, <1>2, <1>4, <1>5, <2>2, <2>3, <3>1, <3>3
    <3> QED BY <3>2, <3>3
  <2>6. \A t \in (f + 1) .. l : t \in tickets_(p)
    <3> TAKE t \in (f + 1) .. l
    <3>1. t \in f .. l
      OBVIOUS
    <3>2. PICK i \in Owed(held) : held[i].ticket = t
      BY <1>3, <3>1 DEF Numbers
    <3>3. i # 1
      BY <1>1, <2>5, <3>2
    <3> QED BY <1>5, <3>2, <3>3
  <2>7. \A i \in Owed(p) : p[i].ticket \in (f + 1) .. l
    <3> TAKE i \in Owed(p)
    <3>1. p[i].ticket \in f .. l
      BY <1>3, <1>4 DEF Numbers
    <3> QED BY <2>2, <2>5, <3>1
  <2>8. tickets_(p) = (f + 1) .. l
    BY <2>6, <2>7
  <2>9. Numbers(p, f + 1, l)
    BY <1>6, <2>8 DEF Numbers
  <2> QED BY <1>7, <2>3, <2>5, <2>9
<1>8. CASE ~(h.ticket > 0)
  <2>1. \A i \in Owed(held) : (i - 1) \in Owed(p) /\ held[i] = p[i - 1]
    BY <1>5, <1>8
  <2>2. tickets_(p) = tickets_(held)
    BY <1>4, <2>1
  <2>3. Numbers(p, f, l)
    BY <1>3, <1>6, <2>2 DEF Numbers
  <2> QED BY <1>8, <2>3
<1> QED BY <1>7, <1>8

-----------------------------------------------------------------------------
(***************************************************************************)
(* The host of the application: what it handles and what it defers.        *)
(***************************************************************************)
Housed ==
  /\ handler \in Messages \cup {None}
  /\ pending \in Seq(Messages) /\ Len(pending) <= MaxDeferred
  /\ tickets \in [given : Nat, handled : Nat] /\ tickets.handled <= tickets.given

\* Deferred messages wait behind a handled one, have opened no menu and are
\* given away before run() gives back what they need.
Deferral ==
  /\ InOrder
  /\ handler # None => (handler.ticket > 0 => tickets.handled < tickets.given)
  /\ ui.live /\ handler = None => pending = <<>>
  /\ \A i \in DOMAIN pending : pending[i].at = "runs"
  /\ stage # "loop" /\ ui.live => handler = None

Receives(m) ==
  /\ stage = "loop" /\ ui.live /\ stage' = stage
  /\ tickets' = [tickets EXCEPT !.given = IF m.ticket > 0 THEN @ + 1 ELSE @]
  /\ \/ handler = None /\ handler' = m /\ pending' = pending
     \/ handler # None /\ handler' = handler /\ pending' = pending /\ (ui'.live => m.ticket = 0)
     \/ /\ handler # None /\ handler' = handler
        /\ Len(pending) # MaxDeferred /\ pending' = Append(pending, m)

\* A message that comes in is handled, or waits behind those that came before.
LEMMA Receiving ==
  ASSUME Housed, Deferral, NEW m \in Messages, m.at = "runs", m.ticket \in {0, tickets.given + 1},
         Receives(m), ui'.live => ui.live
  PROVE  Housed' /\ Deferral'
<1> DEFINE g == tickets.given
           d == tickets.handled
<1>1. /\ g \in Nat /\ d \in Nat /\ d <= g /\ tickets'.handled = d
      /\ tickets'.given = (IF m.ticket > 0 THEN g + 1 ELSE g)
      /\ tickets' \in [given : Nat, handled : Nat] /\ m.ticket \in Nat
  BY DEF Housed, Receives, Messages
<1>2. tickets'.handled <= tickets'.given
  BY <1>1
<1>3. /\ pending \in Seq(Messages) /\ Len(pending) \in Nat /\ Len(pending) <= MaxDeferred
      /\ MaxDeferred \in Nat
  BY InterfaceAssumption DEF Housed
<1>4. Numbers(Held, d + 1, g) /\ stage' = "loop"
  BY DEF Deferral, InOrder, Receives
<1>5. None \notin Messages
  BY NoneAssumption
<1>6. CASE handler = None /\ handler' = m /\ pending' = pending
  <2>1. pending = <<>>
    BY <1>6 DEF Deferral, Receives
  <2>2. Held = <<>> /\ Held' = <<m>>
    BY <1>5, <1>6, <2>1, Concatenations, EmptyDomain, ConcatEmptySeq DEF Held
  <2>3. <<>> \in Seq(Messages) /\ Append(<<>>, m) = <<m>>
    OBVIOUS
  <2>4. Numbers(Held', d + 1, tickets'.given)
    <3>1. Numbers(<<>>, d + 1, g) /\ d + 1 \in Nat /\ d + 1 <= g + 1
      BY <1>1, <1>4, <2>2
    <3>2. /\ m.ticket = 0 => Numbers(<<m>>, d + 1, g)
          /\ m.ticket = g + 1 => Numbers(<<m>>, d + 1, g + 1)
      BY ZenonT(30), <1>1, <2>3, <3>1, NumbersAppend
    <3> QED BY <1>1, <2>2, <3>2
  <2>5. InOrder'
    BY <1>1, <2>4 DEF InOrder
  <2>6. DOMAIN pending' = {}
    BY <1>6, <2>1, EmptyDomain
  <2> QED BY <1>1, <1>2, <1>3, <1>4, <1>5, <1>6, <2>5, <2>6 DEF Housed, Deferral
<1>7. CASE handler # None /\ handler' = handler /\ pending' = pending /\ (ui'.live => m.ticket = 0)
  <2>1. InOrder'
    BY <1>1, <1>4, <1>7 DEF InOrder, Held
  <2> QED BY <1>1, <1>2, <1>3, <1>4, <1>7, <2>1 DEF Housed, Deferral
<1>8. CASE /\ handler # None /\ handler' = handler
           /\ Len(pending) # MaxDeferred /\ pending' = Append(pending, m)
  <2>1. handler \in Messages /\ Held = <<handler>> \o pending /\ Held' = <<handler>> \o Append(pending, m)
    BY <1>8 DEF Housed, Held
  <2>2. Held' = Append(Held, m) /\ Held \in Seq(Messages)
    BY <1>3, <2>1, AppendBehind, Behind
  <2>3. Numbers(Held', d + 1, tickets'.given)
    <3>1. d + 1 \in Nat /\ d + 1 <= g + 1
      BY <1>1
    <3>2. /\ m.ticket = 0 => Numbers(Append(Held, m), d + 1, g)
          /\ m.ticket = g + 1 => Numbers(Append(Held, m), d + 1, g + 1)
      BY <1>1, <1>4, <2>2, <3>1, NumbersAppend
    <3> QED BY <1>1, <2>2, <3>2
  <2>4. InOrder'
    BY <1>1, <2>3 DEF InOrder
  <2>5. /\ pending' \in Seq(Messages) /\ Len(pending') = Len(pending) + 1
        /\ DOMAIN pending' = 1 .. (Len(pending) + 1) /\ DOMAIN pending = 1 .. Len(pending)
        /\ \A i \in 1 .. Len(pending) : pending'[i] = pending[i]
        /\ pending'[Len(pending) + 1] = m
    BY <1>3, <1>8, Appending
  <2>6. Len(pending') <= MaxDeferred
    <3>1. Len(pending) # MaxDeferred /\ Len(pending') = Len(pending) + 1
      BY <1>8, <2>5
    <3> QED BY <1>3, <3>1
  <2>7. \A i \in DOMAIN pending' : pending'[i].at = "runs"
    BY <1>3, <2>5 DEF Deferral
  <2>8. (handler # None => (handler.ticket > 0 => tickets.handled < tickets.given))'
    BY <1>1, <1>8 DEF Deferral
  <2> QED BY <1>1, <1>2, <1>4, <1>8, <2>1, <2>4, <2>5, <2>6, <2>7, <2>8 DEF Housed, Deferral
<1> QED BY <1>6, <1>7, <1>8 DEF Receives

\* The next message is handled after the one that is done.
LEMMA Finishing ==
  ASSUME Housed, Deferral, handler # None, Done(ui'), ui'.live => ui.live
  PROVE  Housed' /\ Deferral' /\ (handler' # None => handler'.at = "runs")
<1> DEFINE g == tickets.given
           d == tickets.handled
<1>1. /\ handler \in Messages /\ handler.ticket \in Nat /\ (handler.ticket > 0 => d < g)
      /\ g \in Nat /\ d \in Nat /\ d <= g /\ tickets'.given = g
      /\ tickets'.handled = (IF handler.ticket > 0 THEN d + 1 ELSE d)
      /\ tickets' \in [given : Nat, handled : Nat]
  <2>1. handler \in Messages /\ handler.ticket \in Nat
    BY DEF Housed, Messages
  <2>2. handler.ticket > 0 => d < g
    BY DEF Deferral
  <2>3. tickets' = [tickets EXCEPT !.handled = IF handler.ticket > 0 THEN @ + 1 ELSE @]
    BY DEF Done
  <2>4. g \in Nat /\ d \in Nat /\ d <= g /\ tickets \in [given : Nat, handled : Nat]
    BY DEF Housed
  <2> QED BY <2>1, <2>2, <2>3, <2>4
<1>2. tickets'.handled <= tickets'.given
  BY <1>1
<1>3. /\ pending \in Seq(Messages) /\ Len(pending) \in Nat /\ Len(pending) <= MaxDeferred
      /\ MaxDeferred \in Nat /\ stage' = stage
  BY InterfaceAssumption DEF Housed, Done
<1>4. ui.live => Numbers(pending, tickets'.handled + 1, g)
  <2> HAVE ui.live
  <2>1. Numbers(<<handler>> \o pending, d + 1, g)
    BY <1>1 DEF Deferral, InOrder, Held
  <2>2. d + 1 \in Nat \ {0}
    BY <1>1
  <2> DEFINE f == d + 1
  <2>3. f \in Nat \ {0} /\ Numbers(<<handler>> \o pending, f, g)
    BY <2>1, <2>2
  <2> HIDE DEF f
  <2>4. Numbers(pending, IF handler.ticket > 0 THEN f + 1 ELSE f, g)
    BY <1>1, <1>3, <2>3, NumbersTail
  <2> QED BY <1>1, <2>4 DEF f
<1>5. ui'.live => ui.live /\ stage = "loop"
  BY DEF Deferral
<1>6. CASE ui'.live /\ pending # <<>>
  <2>1. handler' = Head(pending) /\ pending' = Tail(pending)
    BY <1>6 DEF Done
  <2>2. /\ Head(pending) \in Messages /\ Tail(pending) \in Seq(Messages)
        /\ <<Head(pending)>> \o Tail(pending) = pending
    BY <1>3, <1>6, NextBehind
  <2>3. /\ Len(Tail(pending)) = Len(pending) - 1 /\ DOMAIN Tail(pending) = 1 .. (Len(pending) - 1)
        /\ \A i \in 1 .. (Len(pending) - 1) : Tail(pending)[i] = pending[i + 1]
        /\ Head(pending) = pending[1] /\ DOMAIN pending = 1 .. Len(pending) /\ Len(pending) \in Nat \ {0}
    BY <1>3, <1>6, DroppingFirst
  <2>4. handler' \in Messages /\ handler' # None /\ Held' = pending
    BY <2>1, <2>2, NoneAssumption DEF Held
  <2>5. InOrder'
    BY <1>1, <1>4, <1>5, <1>6, <2>4 DEF InOrder
  <2>6. handler'.at = "runs" /\ \A i \in DOMAIN pending' : pending'[i].at = "runs"
    BY <2>1, <2>3 DEF Deferral
  <2>7. handler'.ticket > 0 => tickets'.handled < tickets'.given
    <3> DEFINE f == tickets'.handled + 1
    <3>1. f \in Nat \ {0} /\ g \in Nat /\ Tail(pending) \in Seq(Messages) /\ Head(pending) \in Messages
      BY <1>1, <2>2
    <3>2. Numbers(<<Head(pending)>> \o Tail(pending), f, g)
      BY <1>4, <1>5, <1>6, <2>2
    <3> HIDE DEF f
    <3>3. Head(pending).ticket > 0 => f <= g
      BY <3>1, <3>2, NumbersTail
    <3> QED BY <1>1, <2>1, <3>3 DEF f
  <2>8. Len(pending') <= MaxDeferred
    BY <1>3, <2>1, <2>3
  <2> QED BY <1>1, <1>2, <1>3, <1>5, <1>6, <2>1, <2>2, <2>4, <2>5, <2>6, <2>7, <2>8 DEF Housed, Deferral
<1>7. CASE ~(ui'.live /\ pending # <<>>)
  <2>1. handler' = None /\ pending' = pending
    BY <1>7 DEF Done
  <2>2. ui'.live => pending = <<>> /\ Held' = pending
    <3> HAVE ui'.live
    <3>1. pending = <<>>
      BY <1>7
    <3> QED BY <2>1, <3>1, <1>3, ConcatEmptySeq DEF Held
  <2>3. InOrder'
    BY <1>1, <1>4, <1>5, <2>2 DEF InOrder
  <2> QED BY <1>1, <1>2, <1>3, <2>1, <2>2, <2>3 DEF Housed, Deferral
<1> QED BY <1>6, <1>7

\* The click whose menu opens keeps its number.
LEMMA Opening ==
  ASSUME Housed, Deferral, OpenMenu, ui \in Applications
  PROVE  Housed' /\ Deferral'
<1>1. /\ handler \in Messages /\ Offered(ui) \subseteq Commands
      /\ UNCHANGED <<made, stage, pending, tickets, ui>>
      /\ handler' = [handler EXCEPT !.at = "menu", !.offered = Offered(ui)]
  BY DEF Housed, OpenMenu, Offered, GroupOffers, Commands, QuickSettings
<1>2. handler' \in Messages /\ handler'.ticket = handler.ticket /\ handler' # None
  BY <1>1, NoneAssumption DEF Messages
<1>3. InOrder'
  <2> SUFFICES ASSUME ui.live PROVE Numbers(Held', tickets.handled + 1, tickets.given)
    BY <1>1 DEF InOrder
  <2> DEFINE p == <<handler>> \o pending
             q == <<handler'>> \o pending
  <2>1. Held = p /\ Held' = q
    BY <1>1, <1>2, NoneAssumption DEF Held
  <2>2. /\ DOMAIN p = 1 .. (Len(pending) + 1) /\ DOMAIN q = 1 .. (Len(pending) + 1)
        /\ p[1] = handler /\ q[1] = handler' /\ Len(pending) \in Nat
        /\ \A i \in 1 .. Len(pending) : p[i + 1] = pending[i] /\ q[i + 1] = pending[i]
    BY <1>1, <1>2, Behind DEF Housed
  <2>3. Numbers(p, tickets.handled + 1, tickets.given)
    BY <2>1 DEF Deferral, InOrder
  <2> HIDE DEF p, q
  <2>4. \A i \in DOMAIN p : q[i].ticket = p[i].ticket
    <3> TAKE i \in DOMAIN p
    <3>1. CASE i = 1
      BY <1>2, <2>2, <3>1
    <3>2. CASE i # 1
      <4>1. i - 1 \in 1 .. Len(pending) /\ (i - 1) + 1 = i
        BY <2>2, <3>2
      <4>2. p[(i - 1) + 1] = q[(i - 1) + 1]
        BY <2>2, <4>1
      <4> QED BY <4>1, <4>2
    <3> QED BY <3>1, <3>2
  <2>5. Owed(q) = Owed(p)
    BY <2>2, <2>4 DEF Owed
  <2>6. Owed(p) \subseteq DOMAIN p
    BY DEF Owed
  <2>7. {q[i].ticket : i \in Owed(q)} = {p[i].ticket : i \in Owed(p)}
    BY <2>4, <2>5, <2>6
  <2>8. \A i, j \in Owed(q) : i < j => q[i].ticket < q[j].ticket
    BY <2>3, <2>4, <2>5, <2>6 DEF Numbers
  <2>9. Numbers(q, tickets.handled + 1, tickets.given)
    BY <2>3, <2>7, <2>8 DEF Numbers
  <2> QED BY <2>1, <2>9
<1>4. Housed'
  BY <1>1, <1>2 DEF Housed
<1>5. handler # None
  BY DEF OpenMenu
<1>6. /\ handler'.ticket > 0 => tickets.handled < tickets.given
      /\ stage # "loop" => ~ui.live
  BY <1>2, <1>5 DEF Deferral
<1> QED BY <1>1, <1>2, <1>3, <1>4, <1>6 DEF Deferral

\* Nothing else gives a message a number or takes one away from a live application.
LEMMA Resting ==
  ASSUME Housed, Deferral, UNCHANGED <<handler, tickets>>, ui'.live => ui.live,
         pending' = pending \/ (stage # "loop" /\ pending' = <<>>),
         stage' # "loop" /\ ui'.live => stage # "loop"
  PROVE  Housed' /\ Deferral'
<1>1. CASE pending' = pending
  BY <1>1 DEF Housed, Deferral, InOrder, Held
<1>2. CASE stage # "loop" /\ pending' = <<>>
  <2>1. <<>> \in Seq(Messages) /\ Len(<<>>) = 0 /\ 0 <= MaxDeferred
    BY InterfaceAssumption
  <2>2. Housed'
    BY <1>2, <2>1 DEF Housed
  <2>3. ui'.live => handler = None /\ pending = <<>>
    BY <1>2 DEF Deferral
  <2>4. InOrder'
    BY <1>2, <2>3 DEF Deferral, InOrder, Held
  <2> QED BY <1>2, <2>2, <2>3, <2>4, EmptyDomain DEF Deferral
<1> QED BY <1>1, <1>2

-----------------------------------------------------------------------------
(***************************************************************************)
(* What run() holds, and what may still happen.                            *)
(***************************************************************************)
Running ==
  /\ stage \in {"making", "loop", "ending"}
  /\ \E n \in 0..Len(Resources) : made = SubSeq(Resources, 1, n)
  /\ budget \in [Budgets -> Nat]

Names == {"window", "owner", "registration", "timer", "hook"}

LEMMA MadePrefixes ==
  ASSUME NEW n \in 0..Len(Resources)
  PROVE  /\ Len(SubSeq(Resources, 1, n)) = n /\ Len(Resources) = 5
         /\ n < 5 => Append(SubSeq(Resources, 1, n), Resources[n + 1]) = SubSeq(Resources, 1, n + 1)
         /\ n > 0 => Front(SubSeq(Resources, 1, n)) = SubSeq(Resources, 1, n - 1)
         /\ SubSeq(Resources, 1, 0) = <<>> /\ SubSeq(Resources, 1, 1) = <<"window">>
<1>1. Resources \in Seq(Names) /\ Len(Resources) = 5 /\ Resources[1] = "window"
  <2>1. Resources = <<"window", "owner", "registration", "timer", "hook">>
    BY DEF Resources
  <2>2. <<"window", "owner", "registration", "timer", "hook">> \in Seq(Names)
    BY DEF Names
  <2>3. Len(<<"window", "owner", "registration", "timer", "hook">>) = 5
    OBVIOUS
  <2>4. <<"window", "owner", "registration", "timer", "hook">>[1] = "window"
    OBVIOUS
  <2> QED BY <2>1, <2>2, <2>3, <2>4, Zenon
<1>2. \A k \in 0 .. 5 : /\ SubSeq(Resources, 1, k) \in Seq(Names) /\ Len(SubSeq(Resources, 1, k)) = k
                        /\ \A i \in 1 .. k : SubSeq(Resources, 1, k)[i] = Resources[i]
  <2> TAKE k \in 0 .. 5
  <2>1. \A i \in 1 .. k : Resources[i] \in Names
    <3> TAKE i \in 1 .. k
    <3>1. i \in 1 .. Len(Resources)
      BY <1>1
    <3>2. Resources \in Seq(Names)
      BY <1>1
    <3> QED BY ONLY <3>1, <3>2, ElementOfSeq
  <2>2. /\ SubSeq(Resources, 1, k) \in Seq(Names)
        /\ Len(SubSeq(Resources, 1, k)) = IF 1 <= k THEN k - 1 + 1 ELSE 0
        /\ \A i \in 1 .. k - 1 + 1 : SubSeq(Resources, 1, k)[i] = Resources[1 + i - 1]
    BY <2>1, SubSeqProperties
  <2>3. k - 1 + 1 = k /\ \A i \in 1 .. k : 1 + i - 1 = i
    OBVIOUS
  <2> QED BY <2>2, <2>3
<1>3. \A k \in 0 .. 4 : Append(SubSeq(Resources, 1, k), Resources[k + 1]) = SubSeq(Resources, 1, k + 1)
  <2> TAKE k \in 0 .. 4
  <2> DEFINE s == SubSeq(Resources, 1, k)
             t == SubSeq(Resources, 1, k + 1)
             x == Resources[k + 1]
  <2>1. /\ s \in Seq(Names) /\ Len(s) = k /\ \A i \in 1 .. k : s[i] = Resources[i]
        /\ t \in Seq(Names) /\ Len(t) = k + 1 /\ \A i \in 1 .. k + 1 : t[i] = Resources[i]
        /\ x \in Names
    BY <1>1, <1>2
  <2> HIDE DEF s, t
  <2>2. /\ Append(s, x) \in Seq(Names) /\ Len(Append(s, x)) = k + 1
        /\ \A i \in 1 .. k : Append(s, x)[i] = s[i]
        /\ Append(s, x)[k + 1] = x
    BY <2>1, Appending
  <2>3. \A i \in 1 .. k + 1 : Append(s, x)[i] = t[i]
    BY <2>1, <2>2
  <2>4. Append(s, x) = t
    BY <2>1, <2>2, <2>3, SeqEqual
  <2> QED BY <2>4 DEF s, t
<1>4. n > 0 => Front(SubSeq(Resources, 1, n)) = SubSeq(Resources, 1, n - 1)
  <2> HAVE n > 0
  <2> DEFINE s == SubSeq(Resources, 1, n)
             t == SubSeq(Resources, 1, n - 1)
  <2>1. /\ s \in Seq(Names) /\ Len(s) = n /\ \A i \in 1 .. n : s[i] = Resources[i]
        /\ t \in Seq(Names) /\ Len(t) = n - 1 /\ \A i \in 1 .. n - 1 : t[i] = Resources[i]
    BY <1>1, <1>2
  <2> HIDE DEF s, t
  <2>2. s # <<>>
    BY <2>1
  <2>3. /\ Front(s) \in Seq(Names) /\ Len(Front(s)) = n - 1
        /\ \A i \in 1 .. n - 1 : Front(s)[i] = s[i]
    BY <2>1, <2>2, DroppingLast
  <2>4. \A i \in 1 .. Len(t) : Front(s)[i] = t[i]
    BY <2>1, <2>3
  <2>5. Front(s) = t
    BY <2>1, <2>3, <2>4, SeqEqual
  <2> QED BY <2>5 DEF s, t
<1>5. SubSeq(Resources, 1, 0) = <<>>
  BY <1>2, NoneLeft
<1>6. SubSeq(Resources, 1, 1) = <<"window">>
  <2>1. Append(SubSeq(Resources, 1, 0), Resources[0 + 1]) = SubSeq(Resources, 1, 0 + 1)
    BY <1>3
  <2>2. Append(<<>>, "window") = <<"window">>
    OBVIOUS
  <2>3. 0 + 1 = 1
    OBVIOUS
  <2>4. Append(SubSeq(Resources, 1, 0), Resources[1]) = SubSeq(Resources, 1, 1)
    BY ONLY <2>1, <2>3, Zenon
  <2> QED BY ONLY <1>1, <1>5, <2>2, <2>4, Zenon
<1> QED BY <1>1, <1>2, <1>3, <1>4, <1>5, <1>6

LEMMA Spending ==
  ASSUME budget \in [Budgets -> Nat], NEW w \in Budgets, Spend(w)
  PROVE  budget' \in [Budgets -> Nat]
BY DEF Spend

\* One thing at most is spent in a step.
LEMMA BudgetStep ==
  ASSUME [Next]_vars
  PROVE  budget' = budget \/ \E w \in Budgets : Spend(w)
<1>1. CASE Message \/ Click \/ Timer \/ TaskbarCreated
  BY <1>1 DEF Message, Click, Timer, TaskbarCreated, Budgets
<1>2. CASE Handle \/ OpenMenu \/ NoMenu \/ Dismiss \/ \E c \in Commands : Choose(c)
  BY <1>2 DEF Handle, OpenMenu, NoMenu, Dismiss, Choose, Budgets
<1>3. CASE MakeWindow \/ Make \/ CannotMake \/ Destroy \/ LoopEnds \/ GiveBack
  BY <1>3 DEF MakeWindow, Make, CannotMake, Destroy, LoopEnds, GiveBack, Budgets
<1>4. CASE \E j \in Jobs : Work(j) \/ Refuse(j) \/ Die(j)
  BY <1>4 DEF Work, Refuse, Die, Budgets
<1>5. CASE Look \/ Read \/ Elapse \/ Crash \/ Return \/ Ask \/ Acknowledge \/ Exhaust
  BY <1>5 DEF Look, Read, Elapse, Crash, Return, Ask, Acknowledge, Exhaust, Budgets
<1>6. CASE \E what \in {"valid", "invalid"} : Offer(what)
  BY <1>6 DEF Offer, Budgets
<1>7. CASE \E o \in Outcomes : Outcome(o)
  BY <1>7 DEF Outcome, Budgets
<1>8. CASE UNCHANGED vars
  BY <1>8 DEF vars
<1> QED BY <1>1, <1>2, <1>3, <1>4, <1>5, <1>6, <1>7, <1>8 DEF Next

\* run() makes its resources in their order and gives them back last made first.
LEMMA MadeStep ==
  ASSUME Running, MakeWindow \/ Make \/ CannotMake \/ Destroy \/ LoopEnds \/ GiveBack
  PROVE  /\ stage' \in {"making", "loop", "ending"}
         /\ \E n \in 0..Len(Resources) : made' = SubSeq(Resources, 1, n)
<1>1. PICK n \in 0..Len(Resources) : made = SubSeq(Resources, 1, n)
  BY DEF Running
<1>2. /\ Len(made) = n /\ Len(Resources) = 5
      /\ n < 5 => Append(made, Resources[n + 1]) = SubSeq(Resources, 1, n + 1)
      /\ n > 0 => Front(made) = SubSeq(Resources, 1, n - 1)
      /\ SubSeq(Resources, 1, 0) = <<>> /\ SubSeq(Resources, 1, 1) = <<"window">>
  <2>1. /\ Len(SubSeq(Resources, 1, n)) = n /\ Len(Resources) = 5
        /\ n < 5 => Append(SubSeq(Resources, 1, n), Resources[n + 1]) = SubSeq(Resources, 1, n + 1)
        /\ n > 0 => Front(SubSeq(Resources, 1, n)) = SubSeq(Resources, 1, n - 1)
        /\ SubSeq(Resources, 1, 0) = <<>> /\ SubSeq(Resources, 1, 1) = <<"window">>
    BY MadePrefixes
  <2> QED BY ONLY <1>1, <2>1, Zenon
<1>3. CASE MakeWindow
  <2>1. stage' = "making" /\ made' = SubSeq(Resources, 1, 1)
    BY <1>2, <1>3 DEF MakeWindow
  <2>2. 1 \in 0..Len(Resources)
    BY <1>2
  <2> QED BY <2>1, <2>2
<1>4. CASE Make
  <2>1. CASE Len(made) < Len(Resources)
    <3>1. made' = SubSeq(Resources, 1, n + 1) /\ n + 1 \in 0..Len(Resources)
      BY <1>2, <1>4, <2>1 DEF Make
    <3> QED BY <1>4, <3>1 DEF Make, Running
  <2>2. CASE ~(Len(made) < Len(Resources))
    BY <1>1, <1>4, <2>2 DEF Make
  <2> QED BY <2>1, <2>2
<1>5. CASE CannotMake \/ Destroy \/ LoopEnds
  BY <1>1, <1>5 DEF CannotMake, Destroy, LoopEnds, Running
<1>6. CASE GiveBack
  <2>1. n > 0
    BY <1>1, <1>2, <1>6 DEF GiveBack
  <2>2. made' = SubSeq(Resources, 1, n - 1) /\ n - 1 \in 0..Len(Resources)
    BY <1>2, <1>6, <2>1 DEF GiveBack
  <2> QED BY <1>6, <2>2 DEF GiveBack, Running
<1> QED BY <1>3, <1>4, <1>5, <1>6

-----------------------------------------------------------------------------
(***************************************************************************)
(* The steps.                                                              *)
(***************************************************************************)
LEMMA NumberedFacts ==
  ASSUME Housed, NEW kind \in Kinds
  PROVE  LET m == Numbered(kind)
         IN /\ m \in Messages /\ m.at = "runs" /\ m.ticket \in {0, tickets.given + 1}
            /\ m.ticket > 0 <=> kind \in Ticketed
            /\ m.ticket = 0 <=> kind \notin Ticketed
<1>1. tickets.given \in Nat
  BY DEF Housed
<1>2. tickets.given + 1 > 0 /\ tickets.given + 1 \in Nat
  BY <1>1
<1> DEFINE t == IF kind \in Ticketed THEN tickets.given + 1 ELSE 0
           m == Numbered(kind)
<1>3. t \in Nat /\ t \in {0, tickets.given + 1} /\ (t > 0 <=> kind \in Ticketed)
  BY <1>2
<1>4. m = [kind |-> kind, at |-> "runs", offered |-> {}, ticket |-> t]
  BY DEF Numbered
<1> HIDE DEF t, m
<1>5. m \in Messages /\ m.at = "runs" /\ m.ticket = t
  BY <1>3, <1>4 DEF Messages
<1> QED BY <1>3, <1>5 DEF m

\* What comes in from outside, or from the shell, is numbered and received.
LEMMA ComingIn ==
  ASSUME Sound(ui), Housed, Message \/ Click \/ Timer \/ TaskbarCreated
  PROVE  /\ Leads(ui, ui') /\ (Aside(ui, ui') \/ ~ui'.live) /\ made' = made /\ stage' = stage
         /\ \E kind \in Kinds : Receives(Numbered(kind))
<1>0. /\ ui \in Applications
      /\ Overflow(ui).live = FALSE /\ Leads(ui, Overflow(ui))
      /\ Leads(ui, ui) /\ Aside(ui, ui)
  <2>1. ui \in Applications
    BY DEF Sound
  <2>2. Overflow(ui).live = FALSE
    BY <2>1 DEF Overflow, Close, Applications
  <2>3. Leads(ui, Overflow(ui))
    BY <2>1, FlagsAlike, AlikeLeads
  <2> QED BY <2>1, <2>2, <2>3 DEF Leads, Aside
<1>1. ASSUME NEW kind \in Kinds, Arrive(kind)
      PROVE  /\ Leads(ui, ui') /\ (Aside(ui, ui') \/ ~ui'.live) /\ made' = made /\ stage' = stage
             /\ Receives(Numbered(kind))
  <2> DEFINE m == Numbered(kind)
  <2>1. (m.ticket > 0 <=> kind \in Ticketed) /\ (m.ticket = 0 <=> kind \notin Ticketed)
    BY NumberedFacts
  <2>2. Waiting(kind) => kind \notin Ticketed
    BY DEF Waiting, Coalesced, Ticketed
  <2> HIDE DEF m
  <2>3. /\ stage = "loop" /\ ui.live /\ UNCHANGED <<made, stage>>
        /\ tickets' = [tickets EXCEPT !.given = IF m.ticket > 0 THEN @ + 1 ELSE @]
    BY <1>1, <2>1 DEF Arrive
  <2>4. CASE handler = None
    BY <1>0, <1>1, <2>3, <2>4 DEF Arrive, Receives, m
  <2>5. CASE handler # None /\ Waiting(kind)
    BY <1>0, <1>1, <2>1, <2>2, <2>3, <2>5 DEF Arrive, Receives, m
  <2>6. CASE handler # None /\ ~Waiting(kind) /\ Len(pending) = MaxDeferred
    <3>1. ui' = Overflow(ui) /\ pending' = pending /\ handler' = handler
      BY <1>1, <2>6 DEF Arrive
    <3> QED BY <1>0, <2>3, <2>6, <3>1 DEF Receives, m
  <2>7. CASE handler # None /\ ~Waiting(kind) /\ Len(pending) # MaxDeferred
    <3>1. ui' = ui /\ pending' = Append(pending, m) /\ handler' = handler
      BY <1>1, <2>7 DEF Arrive, m
    <3> QED BY <1>0, <2>3, <2>7, <3>1 DEF Receives, m
  <2> QED BY <2>4, <2>5, <2>6, <2>7
<1>2. CASE Message
  <2>1. PICK kind \in {"ready", "restart", "config", "button"} : Arrive(kind)
    BY <1>2 DEF Message
  <2>2. kind \in Kinds
    BY DEF Kinds, Coalesced, Ticketed
  <2> QED BY <1>1, <2>1, <2>2
<1>3. CASE Click \/ Timer
  <2>1. PICK kind \in {"click", "timer"} : Arrive(kind)
    BY <1>3 DEF Click, Timer
  <2>2. kind \in Kinds
    BY DEF Kinds, Coalesced, Ticketed
  <2> QED BY <1>1, <2>1, <2>2
<1>4. CASE TaskbarCreated
  <2> DEFINE m == Numbered("taskbar")
             b == [ui EXCEPT !.announced = FALSE]
  <2>0. "taskbar" \in Kinds /\ "taskbar" \in Ticketed
    BY DEF Kinds, Ticketed
  <2>1. m.ticket > 0
    BY <2>0, NumberedFacts
  <2>2. b \in Applications /\ Aside(ui, b) /\ Leads(ui, b)
    <3>1. b \in Applications /\ b.outcome = ui.outcome /\ Beside(ui, b)
      BY ZenonT(30), <1>0 DEF Applications, Beside
    <3>2. Aside(ui, b)
      BY <3>1 DEF Beside, Aside, Busy
    <3>3. b.outcome # None => b.restart # None
      BY <3>1 DEF Beside, Sound
    <3> QED BY <3>1, <3>2, <3>3, AsideLeads
  <2> HIDE DEF m, b
  <2>3. /\ stage = "loop" /\ ui.live /\ UNCHANGED <<made, stage>>
        /\ tickets' = [tickets EXCEPT !.given = IF m.ticket > 0 THEN @ + 1 ELSE @]
    BY <1>4, <2>1 DEF TaskbarCreated
  <2>4. CASE handler = None
    <3>1. handler' = m /\ pending' = pending /\ ui' = b
      BY <1>4, <2>4 DEF TaskbarCreated, m, b
    <3> QED BY <2>0, <2>2, <2>3, <2>4, <3>1 DEF Receives, m
  <2>5. CASE handler # None /\ Len(pending) = MaxDeferred
    <3>1. ui' = Overflow(ui) /\ pending' = pending /\ handler' = handler
      BY <1>4, <2>5 DEF TaskbarCreated
    <3> QED BY <1>0, <2>0, <2>3, <2>5, <3>1 DEF Receives, m
  <2>6. CASE handler # None /\ Len(pending) # MaxDeferred
    <3>1. ui' = b /\ pending' = Append(pending, m) /\ handler' = handler
      BY <1>4, <2>6 DEF TaskbarCreated, m, b
    <3> QED BY <2>0, <2>2, <2>3, <2>6, <3>1 DEF Receives, m
  <2> QED BY <2>4, <2>5, <2>6
<1> QED BY <1>2, <1>3, <1>4

\* What a handler does, and a command from the menu.
LEMMA HandlingLeads ==
  ASSUME Sound(ui), Housed, Handle \/ NoMenu \/ Dismiss \/ \E c \in Commands : Choose(c)
  PROVE  Leads(ui, ui') /\ handler # None /\ Done(ui')
<1>1. handler # None
  BY DEF Handle, NoMenu, Dismiss, Choose, InMenu
<1>2. handler.kind \in Kinds
  BY <1>1 DEF Housed, Messages
<1>3. CASE Handle
  <2>1. PICK a \in {Apply(ui, handler.kind)} : Done(a)
    BY <1>3 DEF Handle
  <2>2. ui' = Apply(ui, handler.kind)
    BY <2>1 DEF Done
  <2>3. Done(ui')
    BY <2>1, <2>2
  <2> QED BY <1>1, <1>2, <2>2, <2>3, ApplyLeads
<1>4. CASE NoMenu
  <2>1. Done(Notify(ui)) /\ ui' = Notify(ui)
    BY <1>4 DEF NoMenu, Done
  <2>2. Leads(ui, Notify(ui))
    BY NotifyAlike, AlikeLeads DEF Sound
  <2>3. Done(ui')
    BY <2>1
  <2> QED BY <1>1, <2>1, <2>2, <2>3
<1>5. CASE Dismiss
  <2>1. Done(ui) /\ ui' = ui
    BY <1>5 DEF Dismiss, Done
  <2>2. Done(ui')
    BY <2>1
  <2> QED BY <1>1, <2>1, <2>2 DEF Leads
<1>6. CASE \E c \in Commands : Choose(c)
  <2>1. PICK c \in Commands : Choose(c)
    BY <1>6
  <2>2. Done(Command(ui, c)) /\ ui' = Command(ui, c)
    BY <2>1 DEF Choose, Done
  <2>3. Done(ui')
    BY <2>2
  <2> QED BY <1>1, <2>2, <2>3, CommandLeads
<1> QED BY <1>3, <1>4, <1>5, <1>6

\* run() closes the target; it does nothing else to a live application that handles a message.
LEMMA RunLeads ==
  ASSUME Sound(ui), MakeWindow \/ Make \/ CannotMake \/ Destroy \/ LoopEnds \/ GiveBack
  PROVE  /\ Leads(ui, ui') /\ UNCHANGED <<handler, tickets>>
         /\ pending' = pending \/ (stage # "loop" /\ pending' = <<>>)
         /\ stage' # "loop" /\ ui'.live => stage # "loop"
         /\ ui' = ui \/ ~ui'.live \/ stage = "ending"
<1>0. /\ ui \in Applications
      /\ Leads(ui, ui) /\ Leads(ui, Close(ui)) /\ Leads(ui, FinishExit(ui)) /\ Leads(ui, Removed(ui))
      /\ Close(ui).live = FALSE /\ FinishExit(ui).live = FALSE
  <2>1. ui \in Applications
    BY DEF Sound
  <2>2. Close(ui).live = FALSE /\ FinishExit(ui).live = FALSE
    BY <2>1 DEF FinishExit, Close, Applications
  <2>3. Leads(ui, Close(ui)) /\ Leads(ui, FinishExit(ui)) /\ Leads(ui, Removed(ui))
    BY <2>1, FlagsAlike, AlikeLeads
  <2> QED BY <2>1, <2>2, <2>3 DEF Leads
<1>1. CASE MakeWindow \/ Make \/ CannotMake
  BY <1>0, <1>1 DEF MakeWindow, Make, CannotMake
<1>2. CASE Destroy
  BY <1>0, <1>2 DEF Destroy
<1>3. CASE LoopEnds
  BY <1>0, <1>3 DEF LoopEnds
<1>4. CASE GiveBack
  <2>1. Leads(ui, Retired(ui, Last(made)))
    BY <1>0 DEF Retired
  <2> QED BY <1>4, <2>1 DEF GiveBack
<1> QED BY <1>1, <1>2, <1>3, <1>4

\* The menu offers what the commands accept.
LEMMA OfferedPermitted ==
  ASSUME NEW a, NEW c \in Offered(a)
  PROVE  Permits(a, c)
<1>1. CASE MenuBusy(a)
  BY <1>1 DEF Offered, GroupOffers, Permits, QuickSettings
<1>2. CASE ~MenuBusy(a)
  <2>1. CanChange(a) /\ RequireReady(a) /\ \A j \in Changes : ~Busy(a, j)
    BY <1>2 DEF MenuBusy, RequireReady
  <2> QED BY <2>1 DEF Offered, GroupOffers, Permits, QuickSettings
<1> QED BY <1>1, <1>2

\* What a menu offers stays permitted while what the commands look at stays.
LEMMA MenuAside ==
  ASSUME Housed, MenuKeepsItsWord, handler' = handler, Aside(ui, ui') \/ ~ui'.live
  PROVE  MenuKeepsItsWord'
<1> SUFFICES ASSUME InMenu', ui'.live, ~ui'.exit, NEW c \in handler'.offered
             PROVE  Permits(ui', c)
  BY DEF MenuKeepsItsWord
<1>1. Aside(ui, ui') /\ ui.live /\ ~ui.exit
  BY DEF Aside
<1>2. InMenu /\ c \in handler.offered
  BY DEF InMenu
<1>3. Permits(ui, c)
  BY <1>1, <1>2 DEF MenuKeepsItsWord
<1>4. c \in Commands
  BY <1>2 DEF InMenu, Housed, Messages
<1> QED BY <1>1, <1>3, <1>4, AsidePermits

Inv == Sound(ui) /\ Housed /\ Deferral /\ Running /\ MenuKeepsItsWord

LEMMA InvInit == Init => Inv
<1> SUFFICES ASSUME Init PROVE Inv
  OBVIOUS
<1>1. PICK s \in Setups :
        /\ budget = s.budget
        /\ ui = [live |-> TRUE, quit |-> FALSE, exit |-> FALSE, phase |-> "running",
                 services |-> FALSE, restart |-> None, outcome |-> None, hooked |-> TRUE,
                 jobs |-> [j \in Jobs |-> Idle], worker |-> [j \in Jobs |-> "new"],
                 startup |-> "pending", paused |-> FALSE, elevated |-> s.elevated,
                 report |-> [last |-> FALSE, opening |-> FALSE],
                 tray |-> [icon |-> FALSE, retry |-> "none", count |-> 0],
                 popup |-> [active |-> FALSE, pending |-> FALSE, thread |-> "none"],
                 explorer |-> s.explorer, announced |-> FALSE, rejections |-> s.rejections,
                 candidate |-> None, asked |-> FALSE, spawns |-> TRUE]
  BY DEF Init
<1>2. /\ Retries \in Nat /\ MaxDeferred \in Nat \ {0} /\ s.budget \in [Budgets -> Nat]
      /\ s.rejections \in Nat /\ s.elevated \in BOOLEAN /\ s.explorer \in BOOLEAN
  BY InterfaceAssumption
<1>3. ui \in Applications
  <2>1. [j \in Jobs |-> Idle] \in [Jobs -> [task : JobTasks, state : {"idle", "running"} \cup Ended]]
    BY DEF Idle, JobTasks
  <2>2. [j \in Jobs |-> "new"] \in [Jobs -> {"new", "alive", "dead"}]
    OBVIOUS
  <2>3. 0 \in 0..Retries
    BY <1>2
  <2> QED BY <1>1, <1>2, <2>1, <2>2, <2>3 DEF Applications
<1>4. \A j \in Jobs : ~Busy(ui, j)
  BY <1>1 DEF Busy, Idle
<1>5. Sound(ui)
  <2>1. Changes \subseteq Jobs /\ "startup" \in Jobs
    BY DEF Changes, Jobs
  <2>2. ui.restart = None /\ ui.phase = "running" /\ ui.startup = "pending" /\ ui.outcome = None
    BY <1>1
  <2> QED BY <1>3, <1>4, <2>1, <2>2 DEF Sound, Changing
<1>6. /\ made = <<>> /\ stage = "making" /\ handler = None /\ pending = <<>>
      /\ tickets = [given |-> 0, handled |-> 0]
  BY DEF Init
<1>7. <<>> \in Seq(Messages) /\ Len(<<>>) = 0 /\ <<>> \o <<>> = <<>>
  OBVIOUS
<1>8. Housed
  BY <1>2, <1>6, <1>7 DEF Housed
<1>9. Deferral
  <2>1. Held = <<>>
    BY <1>6, <1>7 DEF Held
  <2>2. Owed(<<>>) = {}
    BY EmptyDomain DEF Owed
  <2>3. 0 + 1 .. 0 = {} /\ {<<>>[i].ticket : i \in {}} = {}
    OBVIOUS
  <2>4. Numbers(<<>>, 0 + 1, 0)
    BY <2>2, <2>3 DEF Numbers
  <2>5. InOrder
    BY <1>6, <2>1, <2>4 DEF InOrder
  <2> QED BY <1>6, <2>5, EmptyDomain DEF Deferral
<1>10. Running
  <2>1. SubSeq(Resources, 1, 0) = <<>> /\ 0 \in 0..Len(Resources)
    BY MadePrefixes DEF Resources
  <2> QED BY <1>1, <1>2, <1>6, <2>1 DEF Running
<1>11. MenuKeepsItsWord
  BY <1>6 DEF MenuKeepsItsWord, InMenu
<1> QED BY <1>5, <1>8, <1>9, <1>10, <1>11 DEF Inv

LEMMA InvStep == Inv /\ [Next]_vars => Inv'
<1> SUFFICES ASSUME Inv, [Next]_vars PROVE Inv'
  OBVIOUS
<1> USE DEF Inv
<1>0. budget' \in [Budgets -> Nat]
  BY BudgetStep, Spending DEF Running
<1>1. CASE Message \/ Click \/ Timer \/ TaskbarCreated
  <2>1. /\ Leads(ui, ui') /\ (Aside(ui, ui') \/ ~ui'.live) /\ made' = made /\ stage' = stage
    BY <1>1, ComingIn
  <2>2. PICK kind \in Kinds : Receives(Numbered(kind))
    BY <1>1, ComingIn
  <2> DEFINE m == Numbered(kind)
  <2>3. m \in Messages /\ m.at = "runs" /\ m.ticket \in {0, tickets.given + 1}
    BY NumberedFacts
  <2> HIDE DEF m
  <2>4. Receives(m)
    BY <2>2 DEF m
  <2>5. Housed' /\ Deferral'
    BY <2>1, <2>3, <2>4, Receiving DEF Leads
  <2>6. MenuKeepsItsWord'
    <3>1. CASE handler' = m
      BY <2>3, <3>1 DEF MenuKeepsItsWord, InMenu
    <3>2. CASE handler' = handler
      BY <2>1, <3>2, MenuAside
    <3> QED BY <2>4, <3>1, <3>2 DEF Receives
  <2> QED BY <1>0, <2>1, <2>5, <2>6 DEF Running, Leads
<1>2. CASE Handle \/ NoMenu \/ Dismiss \/ \E c \in Commands : Choose(c)
  <2>1. Leads(ui, ui') /\ handler # None /\ Done(ui')
    BY <1>2, HandlingLeads
  <2>2. Housed' /\ Deferral' /\ (handler' # None => handler'.at = "runs")
    BY <2>1, Finishing DEF Leads
  <2>3. MenuKeepsItsWord'
    BY <2>2 DEF MenuKeepsItsWord, InMenu
  <2>4. UNCHANGED <<made, stage>>
    BY <2>1 DEF Done
  <2> QED BY <1>0, <2>1, <2>2, <2>3, <2>4 DEF Running, Leads
<1>3. CASE OpenMenu
  <2>1. ui' = ui /\ UNCHANGED <<made, stage>>
    BY <1>3 DEF OpenMenu
  <2>2. Housed' /\ Deferral'
    BY <1>3, Opening DEF Sound
  <2>3. handler'.offered = Offered(ui)
    BY <1>3 DEF OpenMenu, Housed, Messages
  <2>4. MenuKeepsItsWord'
    BY <2>1, <2>3, OfferedPermitted DEF MenuKeepsItsWord
  <2> QED BY <1>0, <2>1, <2>2, <2>4 DEF Running
<1>4. CASE MakeWindow \/ Make \/ CannotMake \/ Destroy \/ LoopEnds \/ GiveBack
  <2>1. /\ Leads(ui, ui') /\ handler' = handler /\ tickets' = tickets
        /\ pending' = pending \/ (stage # "loop" /\ pending' = <<>>)
        /\ stage' # "loop" /\ ui'.live => stage # "loop"
        /\ ui' = ui \/ ~ui'.live \/ stage = "ending"
    BY <1>4, RunLeads
  <2>2. Housed' /\ Deferral'
    BY <2>1, Resting DEF Leads
  <2>3. MenuKeepsItsWord'
    <3>1. CASE stage = "ending"
      <4>1. ui'.live => handler' = None
        BY <2>1, <3>1 DEF Leads, Deferral
      <4> QED BY <4>1 DEF MenuKeepsItsWord, InMenu
    <3>2. CASE ui' = ui \/ ~ui'.live
      <4>1. Aside(ui, ui') \/ ~ui'.live
        BY <3>2 DEF Aside
      <4> QED BY <2>1, <4>1, MenuAside
    <3> QED BY <2>1, <3>1, <3>2
  <2>4. Running'
    BY <1>0, <1>4, MadeStep DEF Running
  <2> QED BY <2>1, <2>2, <2>3, <2>4 DEF Leads
<1>5. CASE Elsewhere
  <2>1. /\ Aside(ui, ui') /\ Leads(ui, ui')
        /\ UNCHANGED <<made, stage, handler, pending, tickets>>
    BY <1>5, ElsewhereAside
  <2>2. Housed' /\ Deferral'
    BY <2>1, Resting DEF Leads
  <2>3. MenuKeepsItsWord'
    BY <2>1, MenuAside
  <2> QED BY <1>0, <2>1, <2>2, <2>3 DEF Running, Leads
<1>6. CASE UNCHANGED vars
  <2>1. Housed' /\ Deferral' /\ Running' /\ Sound(ui')
    BY <1>6 DEF vars, Housed, Deferral, Running, InOrder, Held
  <2>2. MenuKeepsItsWord'
    BY <1>6 DEF vars, MenuKeepsItsWord, InMenu
  <2> QED BY <2>1, <2>2
<1> QED BY <1>1, <1>2, <1>3, <1>4, <1>5, <1>6 DEF Next, Elsewhere, Worked

LEMMA InvAlways == Spec => []Inv
BY InvInit, InvStep, PTL DEF Spec

\* Every variable keeps its type, for any number of retries and any room for
\* deferred messages: no counter of the tray runs below zero or past its limit,
\* and what run() has made is always a prefix of what it makes.
THEOREM TypeCorrect == Spec => []TypeOK
<1>1. Inv => TypeOK
  BY DEF Inv, Sound, Housed, Running, TypeOK
<1> QED BY <1>1, InvAlways, PTL

\* The messages that must not be lost are handled once and in their order while
\* the application lives, and the configuration is changed by one thing at a time:
\* by induction over every handler and every step outside it (Sound, Deferral).
THEOREM NothingGetsAhead == Spec => []OneThingAtATime
<1>1. Inv => OneThingAtATime
  BY DEF Inv, Sound, Deferral, OneThingAtATime, OneChangeAtATime
<1> QED BY <1>1, InvAlways, PTL

\* What an open menu offers is still permitted when it is chosen, whatever ends
\* or comes in meanwhile: nothing the commands look at changes while the
\* application is borrowed (Aside).
THEOREM MenuIsHonest == Spec => []MenuKeepsItsWord
<1>1. Inv => MenuKeepsItsWord
  BY DEF Inv
<1> QED BY <1>1, InvAlways, PTL

===========================================================================
