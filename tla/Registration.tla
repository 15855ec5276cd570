---------------------------- MODULE Registration ----------------------------
(***************************************************************************)
(* Starting with Windows (startup.rs, startup/transaction.rs,              *)
(* startup/backend.rs, utils/scheduled_task/, utils/regedit.rs).  Two      *)
(* entries of the system may start the program: a value under Run and a    *)
(* scheduled task.  Each launch has a worker bring them to what the        *)
(* configuration wants; the value is changed in place, the task by a       *)
(* helper process that a timeout or an exit kills.  Other programs and the *)
(* user change the entries too, and the process may end at any time.       *)
(***************************************************************************)
EXTENDS Naturals, Sequences, SequencesExt

CONSTANTS Setups, None

Enabling == {"auto", "yes", "no"}
Levels == {"inherit", "standard", "highest"}
Batteries == {"inherit", "allow", "stop"}

Preference(enabled, level, battery) == [enabled |-> enabled, level |-> level, battery |-> battery]
Preferences == [enabled : Enabling, level : Levels, battery : Batteries]

\* A Run value: of the program, as it writes it or in another spelling, or not.
OwnRuns == {"quoted", "bare"}
Runs == OwnRuns \cup {"other"}
\* A task: its owner, its policy, and its text as planned or as the system has it.
Policy(highest, battery, enabled) == [highest |-> highest, battery |-> battery, enabled |-> enabled]
Task(own, policy, text) == [own |-> own, policy |-> policy, text |-> text]
Policies == [highest : BOOLEAN, battery : {"allow", "stop", "legacy"}, enabled : BOOLEAN]
Tasks == [own : BOOLEAN, policy : Policies, text : {"normal", "planned"}]
Snapshots == [run : Runs \cup {None}, task : Tasks \cup {None}]

Entries == {"run", "task"}
Other(e) == IF e = "run" THEN "task" ELSE "run"

\* What an entry holds; the changes, the worker and the UI thread's view of it.
Contents(e) == {None} \cup (IF e = "run" THEN Runs ELSE Tasks)
Changes == UNION {[entry : {e}, before : Contents(e), after : Contents(e)] : e \in Entries}
Results ==
  [kind : {"inspected"}, ok : BOOLEAN, value : BOOLEAN]
    \cup {r \in [kind : {"saved"}, ok : BOOLEAN, value : Preferences \cup {None}] :
            r.ok => r.value \in Preferences}
Steps == {"run", "task", "change", "compare", "write", "verify", "undo", "answered", "save"}
Workers ==
  [pc : Steps, config : Preferences, before : Snapshots \cup {None},
   read : Runs \cup {None}, final : BOOLEAN, plan : Seq(Changes), journal : Seq(Changes),
   back : BOOLEAN, exchange : Changes \cup {None}, result : Results \cup {"yes", "no", None}]
Startups ==
  [state : {"pending", "ready", "failed", "saved"}, actual : BOOLEAN,
   config : Preferences, canceled : BOOLEAN]

\* A setup: the entries at the start, the configurations, whether the process
\* is elevated; and bounds on failures, changes by others, launches, exits, and
\* changes of the configuration.
ASSUME RegistrationAssumption ==
  /\ None \notin Runs \cup Tasks \cup Snapshots \cup Workers \cup Startups
  /\ \A s \in Setups :
       /\ s.preferences \subseteq Preferences /\ s.admin \subseteq BOOLEAN
       /\ s.runs \subseteq Runs \cup {None} /\ s.tasks \subseteq Tasks \cup {None}
       /\ {s.faults, s.others, s.launches, s.exits, s.edits} \subseteq Nat

VARIABLES
  setup,       \* the setup
  admin,       \* whether the processes are elevated
  os,          \* the two entries
  preference,  \* what the INI says of them
  worker,      \* the background worker, or None
  startup,     \* what the UI thread knows, or None: no process runs
  budget,      \* what may still happen
  theirs,      \* the changes of others since the launch
  kept         \* autostart is on and was wanted on all the time

vars == <<setup, admin, os, preference, worker, startup, budget, theirs, kept>>

(***************************************************************************)
(* What a snapshot of the entries means, and what is to be done about it.  *)
(***************************************************************************)
Foreign(s) == s.run = "other" \/ (s.task # None /\ ~s.task.own)
Enabled(s) == s.run # None \/ (s.task # None /\ s.task.policy.enabled)
On(s) ==
  s.run \in OwnRuns \/ (s.task # None /\ s.task.own /\ s.task.policy.enabled)

Inherits(c) == c = Preference("auto", "inherit", "inherit")
Wants(c, s) == IF c.enabled = "auto" THEN Enabled(s) ELSE c.enabled = "yes"

Highest(c, s) ==
  IF c.level # "inherit" THEN c.level = "highest"
  ELSE IF s.task # None THEN s.task.policy.highest ELSE s.run = None /\ admin
UsesTask(c, s) == Highest(c, s) \/ s.task # None \/ c.battery # "inherit"
Battery(c, s) ==
  IF c.battery # "inherit" THEN c.battery ELSE IF s.task # None THEN s.task.policy.battery ELSE "allow"
Wanted(c, s) == Policy(Highest(c, s), Battery(c, s), TRUE)
HasPolicy(task, policy) == task # None /\ task.policy = policy

\* Only an elevated process registers a task of the highest level.
Allowed(c, s) ==
  UsesTask(c, s) /\ Highest(c, s) => admin \/ HasPolicy(s.task, Wanted(c, s))

Change(entry, before, after) == [entry |-> entry, before |-> before, after |-> after]
Target(c, s) ==
  IF ~UsesTask(c, s) THEN Change("run", s.run, "quoted")
  ELSE Change("task", s.task,
              IF HasPolicy(s.task, Wanted(c, s)) THEN s.task ELSE Task(TRUE, Wanted(c, s), "planned"))
Removal(s, e) == IF s[e] = None THEN <<>> ELSE <<Change(e, s[e], None)>>

\* A mutant: the old entry goes before the new one is there.
RemovesFirst(c, s) ==
  IF Wants(c, s) THEN Append(Removal(s, Other(Target(c, s).entry)), Target(c, s))
  ELSE Removal(s, "run") \o Removal(s, "task")
\* The new entry is there before the old one goes.
Plan(c, s) ==
  IF Wants(c, s) THEN <<Target(c, s)>> \o Removal(s, Other(Target(c, s).entry))
  ELSE Removal(s, "run") \o Removal(s, "task")

\* equivalent: the texts of a task may differ.
Equivalent(e, a, b) ==
  IF e = "run" \/ a = None \/ b = None THEN a = b ELSE a.own = b.own /\ a.policy = b.policy

(***************************************************************************)
(* The worker.                                                             *)
(***************************************************************************)
Idle == [pc |-> "run", config |-> None, before |-> None, read |-> None,
         final |-> FALSE, plan |-> <<>>, journal |-> <<>>, back |-> FALSE, exchange |-> None, result |-> None]
Inspection(c) == [Idle EXCEPT !.config = c]
Saving(c, enabled) == [Idle EXCEPT !.pc = "save", !.config = c, !.result = enabled]

Active(pc) == worker # None /\ worker.pc = pc
Goto(pc) == worker' = [worker EXCEPT !.pc = pc]
Answer(result) == worker' = [worker EXCEPT !.pc = "answered", !.result = result]
\* What was found, a failure that left the entries as they were or not, what
\* was saved.
Inspected(enabled) == [kind |-> "inspected", ok |-> TRUE, value |-> enabled]
Failure(unchanged) == [kind |-> "inspected", ok |-> FALSE, value |-> unchanged]
Saved(config) == [kind |-> "saved", ok |-> config # None, value |-> config]

\* An operation fails, or its helper is killed; no helper runs after an exit.
Fault == budget.faults > 0 /\ budget' = [budget EXCEPT !.faults = @ - 1]
Works == UNCHANGED budget
Canceled(e) == e = "task" /\ startup.canceled
Breaks(e) == Fault \/ (Canceled(e) /\ Works)

\* current: nobody has exited, and the configuration is the one at the launch.
Current == ~startup.canceled /\ preference = worker.config

\* Whatever fails, what was changed is undone; what fails then stays.
Fails ==
  IF worker.back THEN Answer(Failure(FALSE)) ELSE Goto("undo")
Refuse == Answer(Failure(TRUE))

ReadRun ==
  /\ Active("run")
  /\ \/ worker' = [worker EXCEPT !.pc = "task", !.read = os.run] /\ Works
     \/ (IF worker.final THEN Goto("undo") ELSE Refuse) /\ Fault
  /\ UNCHANGED <<setup, admin, os, preference, startup, theirs, kept>>

Decide(s) ==
  LET c == worker.config
  IN CASE Foreign(s) -> Refuse
       [] ~Foreign(s) /\ Inherits(c) -> Answer(Inspected(Enabled(s)))
       [] OTHER ->
            IF ~Current \/ (Wants(c, s) /\ ~Allowed(c, s)) THEN Refuse
            ELSE worker' = [worker EXCEPT !.pc = "change", !.before = s, !.plan = Plan(c, s)]

Confirm(s) ==
  IF ~Foreign(s) /\ Enabled(s) = Wants(worker.config, worker.before)
  THEN Answer(Inspected(Enabled(s))) ELSE Goto("undo")

ReadTask ==
  /\ Active("task")
  /\ LET s == [run |-> worker.read, task |-> os.task]
     IN \/ ~Canceled("task") /\ Works /\ (IF worker.final THEN Confirm(s) ELSE Decide(s))
        \/ Breaks("task") /\ (IF worker.final THEN Goto("undo") ELSE Refuse)
  /\ UNCHANGED <<setup, admin, os, preference, startup, theirs, kept>>

\* The next change of the plan, journalled before it is tried; the checks of
\* the configuration that follow one another are one.
LateJournal(change) == worker.journal \* a mutant: the attempt is not recorded
Journalled(change) == Append(worker.journal, change)

\* The INI is read again before a change, which may fail as well.
NextChange ==
  /\ Active("change")
  /\ IF worker.plan # <<>> /\ Head(worker.plan).before = Head(worker.plan).after
     THEN worker' = [worker EXCEPT !.plan = Tail(@)] /\ Works
     ELSE \/ Fault /\ Goto("undo")
          \/ ~Current /\ Works /\ Goto("undo")
          \/ /\ Current /\ Works
             /\ worker' = IF worker.plan = <<>> THEN [worker EXCEPT !.pc = "run", !.final = TRUE]
                          ELSE [worker EXCEPT !.pc = "compare", !.plan = Tail(@),
                                              !.journal = Journalled(Head(worker.plan)),
                                              !.exchange = Head(worker.plan)]
  /\ UNCHANGED <<setup, admin, os, preference, startup, theirs, kept>>

(***************************************************************************)
(* An exchange: an entry is compared with what is expected, written, and   *)
(* read back.                                                              *)
(***************************************************************************)
Entry == worker.exchange.entry
Value == worker.exchange.after

AnyValue(e) == TRUE \* a mutant: nothing is compared
Matches(e) == os[e] = worker.exchange.before

Elevation == Entry = "task" /\ Value # None => (Value.policy.highest => admin)

Compare ==
  /\ Active("compare")
  /\ \/ Matches(Entry) /\ Elevation /\ ~Canceled(Entry) /\ Works /\ Goto("write")
     \/ (~Matches(Entry) \/ ~Elevation) /\ Works /\ Fails
     \/ Breaks(Entry) /\ Fails
  /\ UNCHANGED <<setup, admin, os, preference, startup, theirs, kept>>

\* A task that was absent must be created, one that goes must be there.
Fits == Entry = "task" => (Value = None => os.task # None)
                          /\ (worker.exchange.before = None => os.task = None)
Stored(value) ==
  IF Entry = "task" /\ value # None
  THEN {[value EXCEPT !.text = text] : text \in {value.text, "normal"}} ELSE {value}
Store == \E value \in Stored(Value) : os' = [os EXCEPT ![Entry] = value]

\* A helper that is killed may have done its work.
Write ==
  /\ Active("write")
  /\ \/ Fits /\ Works /\ Store /\ Goto("verify")
     \/ Fits /\ Breaks(Entry) /\ Store /\ Fails
     \/ Breaks(Entry) /\ UNCHANGED os /\ Fails
     \/ ~Fits /\ Works /\ UNCHANGED os /\ Fails
  /\ UNCHANGED <<setup, admin, preference, startup, theirs, kept>>

Verify ==
  /\ Active("verify")
  /\ IF ~Equivalent(Entry, Value, os[Entry]) THEN Fails
     ELSE IF worker.back
     THEN worker' = [worker EXCEPT !.pc = "undo", !.journal = Front(@), !.back = FALSE]
     ELSE worker' = [worker EXCEPT !.pc = "change", !.journal[Len(worker.journal)].after = os[Entry]]
  /\ UNCHANGED <<setup, admin, os, preference, startup, budget, theirs, kept>>

\* rollback: the last change first; what others have changed is left.
Undo ==
  /\ Active("undo")
  /\ IF worker.journal = <<>> THEN Refuse /\ Works
     ELSE LET change == Last(worker.journal)
              actual == os[change.entry]
          IN \/ Breaks(change.entry) /\ Answer(Failure(FALSE))
             \/ /\ ~Canceled(change.entry) /\ Works
                /\ IF actual = change.before THEN worker' = [worker EXCEPT !.journal = Front(@)]
                   ELSE IF actual # change.after THEN Answer(Failure(FALSE))
                   ELSE worker' = [worker EXCEPT
                          !.pc = "compare", !.back = TRUE,
                          !.exchange = Change(change.entry, actual, change.before)]
  /\ UNCHANGED <<setup, admin, os, preference, startup, theirs, kept>>

Reconcile ==
  ReadRun \/ ReadTask \/ NextChange \/ Compare \/ Write \/ Verify \/ Undo

(***************************************************************************)
(* The UI thread: a worker inspects the entries at the launch, another     *)
(* saves the preference the user chose in the tray.                        *)
(***************************************************************************)
Launch ==
  /\ startup = None /\ budget.launches > 0
  /\ startup' = [state |-> "pending", actual |-> FALSE, config |-> preference, canceled |-> FALSE]
  /\ worker' = Inspection(preference)
  /\ theirs' = <<>>
  /\ budget' = [budget EXCEPT !.launches = @ - 1]
  /\ UNCHANGED <<setup, admin, os, preference, kept>>

Toggled == IF startup.config.enabled = "auto" THEN ~startup.actual ELSE startup.config.enabled = "no"

Toggle ==
  /\ startup # None /\ ~startup.canceled /\ worker = None /\ budget.edits > 0
  /\ startup.state \in {"ready", "saved"}
  /\ worker' = Saving(startup.config, IF Toggled THEN "yes" ELSE "no")
  /\ budget' = [budget EXCEPT !.edits = @ - 1]
  /\ UNCHANGED <<setup, admin, os, preference, startup, theirs, kept>>

Keeps(p) == kept' = (kept /\ p.enabled # "no")

\* save_startup_enabled, unless the preference changed under the user's hands.
Save ==
  /\ Active("save")
  /\ LET p == [preference EXCEPT !.enabled = worker.result]
     IN IF ~startup.canceled /\ preference = worker.config
        THEN preference' = p /\ Keeps(p) /\ Answer(Saved(p))
        ELSE UNCHANGED <<preference, kept>> /\ Answer(Saved(None))
  /\ UNCHANGED <<setup, admin, os, startup, budget, theirs>>

\* poll: the answer of the worker; after an exit it has none to give.
Poll ==
  /\ Active("answered")
  /\ LET answer == IF startup.canceled THEN [worker.result EXCEPT !.ok = FALSE] ELSE worker.result
     IN startup' =
          CASE answer.kind = "inspected" /\ answer.ok ->
                 [startup EXCEPT !.state = "ready", !.actual = answer.value]
            [] answer.kind = "inspected" /\ ~answer.ok -> [startup EXCEPT !.state = "failed"]
            [] answer.kind = "saved" /\ answer.ok ->
                 [startup EXCEPT !.state = "saved", !.config = answer.value]
            [] OTHER -> startup
  /\ worker' = None
  /\ UNCHANGED <<setup, admin, os, preference, budget, theirs, kept>>

Exit ==
  /\ startup # None /\ ~startup.canceled /\ budget.exits > 0
  /\ startup' = [startup EXCEPT !.canceled = TRUE]
  /\ budget' = [budget EXCEPT !.exits = @ - 1]
  /\ UNCHANGED <<setup, admin, os, preference, worker, theirs, kept>>

\* The process ends after an exit, or crashes, whatever the worker is at.
End ==
  /\ startup # None
  /\ \/ startup.canceled /\ Works
     \/ ~startup.canceled /\ budget.exits > 0 /\ budget' = [budget EXCEPT !.exits = @ - 1]
  /\ startup' = None /\ worker' = None
  /\ UNCHANGED <<setup, admin, os, preference, theirs, kept>>

(***************************************************************************)
(* Everybody else.                                                         *)
(***************************************************************************)
\* The user disables the task or removes an entry; another program takes one.
Others ==
  [run |-> {"other", "bare", None},
   task |-> {None, Task(FALSE, Policy(FALSE, "allow", TRUE), "normal")}
              \cup (IF os.task = None THEN {}
                    ELSE {[os.task EXCEPT !.policy.enabled = ~@, !.text = "normal"]})]

\* The worker has read the entry and not found that value there, and it is not
\* just about to write it: between its comparison and its write nobody sees it.
Noticed(e, value) ==
  /\ worker # None /\ worker.before # None
  /\ ~(worker.pc = "write" /\ Entry = e) /\ value # worker.before[e]

\* The worker has made the same of the entry, or the plan it follows is to.
Likewise(e, value) ==
  /\ worker # None /\ worker.before # None
  /\ \/ \E i \in DOMAIN worker.journal :
          worker.journal[i].entry = e /\ Equivalent(e, value, worker.journal[i].after)
     \/ /\ worker.pc # "undo" /\ ~worker.back
        /\ \E i \in DOMAIN worker.plan : worker.plan[i].entry = e /\ worker.plan[i].after = value

Meddle ==
  /\ budget.others > 0 /\ budget' = [budget EXCEPT !.others = @ - 1]
  /\ startup # None
  /\ \E e \in Entries : \E value \in Others[e] \ {os[e]} :
       /\ os' = [os EXCEPT ![e] = value]
       /\ theirs' = [x \in DOMAIN theirs \cup {e} |->
                       IF x = e THEN [value |-> value, noticed |-> Noticed(e, value), likewise |-> Likewise(e, value)]
                       ELSE theirs[x]]
  /\ kept' = FALSE
  /\ UNCHANGED <<setup, admin, preference, worker, startup>>

Edit ==
  /\ budget.edits > 0 /\ budget' = [budget EXCEPT !.edits = @ - 1]
  /\ \E p \in setup.preferences \ {preference} : preference' = p /\ Keeps(p)
  /\ UNCHANGED <<setup, admin, os, worker, startup, theirs>>

Init ==
  /\ setup \in Setups /\ admin \in setup.admin
  /\ os \in [run : setup.runs, task : setup.tasks]
  /\ preference \in setup.preferences
  /\ worker = None /\ startup = None /\ theirs = <<>>
  /\ budget = [faults |-> setup.faults, others |-> setup.others, launches |-> setup.launches,
               exits |-> setup.exits, edits |-> setup.edits]
  /\ kept = (On(os) /\ preference.enabled # "no")

Next ==
  Reconcile \/ Launch \/ Toggle \/ Save \/ Poll \/ Exit \/ End \/ Meddle \/ Edit

(***************************************************************************)
(* Properties.                                                             *)
(***************************************************************************)
\* The values of the variables.
TypeOK ==
  /\ admin \in BOOLEAN /\ kept \in BOOLEAN
  /\ setup \in Setups /\ os \in Snapshots /\ preference \in Preferences
  /\ worker \in Workers \cup {None}
  /\ startup \in Startups \cup {None}
  /\ DOMAIN theirs \subseteq Entries

\* Autostart that is on and wanted on is never off, not even while an entry
\* replaces the other, is rolled back, or a process dies in between; only
\* others turn it off (startup/transaction.rs:115).
AutostartSurvives == kept => On(os)

Known == startup # None /\ startup.state \in {"ready", "saved"}
Reports(ok) ==
  /\ Active("answered") /\ worker.before # None
  /\ worker.result.kind = "inspected" /\ worker.result.ok = ok
Restored == Reports(FALSE) /\ worker.result.value
\* Of the two entries the one that is wanted is there, as it is wanted.
AsWanted ==
  LET target == Target(worker.config, worker.before)
  IN IF Wants(worker.config, worker.before)
     THEN /\ os[Other(target.entry)] = None
          /\ Equivalent(target.entry, target.after, os[target.entry])
     ELSE os = [run |-> None, task |-> None]

\* What is reported is so: the state shown in the tray is the system's, a
\* success has left one entry, with the level and battery policy wanted, or none,
\* and a failure that says the entries were restored left them as they were -
\* unless others have changed them (startup/transaction.rs:142).
ReportIsTrue ==
  /\ Known /\ DOMAIN theirs = {} => Enabled(os) = startup.actual
  /\ Reports(TRUE) /\ DOMAIN theirs = {} => AsWanted
  /\ Restored => \A e \in Entries \ DOMAIN theirs : Equivalent(e, worker.before[e], os[e])

\* What others made of an entry after it was read is not overwritten, unless it
\* was changed between the comparison and the write, or is what the worker had
\* made of the entry too or was to make of it: an entry the worker is to remove,
\* and others remove first, fails its change, and the rollback takes the removal
\* for its own (startup/transaction.rs:239, utils/regedit.rs:149).
OthersWin ==
  \A e \in DOMAIN theirs : theirs[e].noticed /\ ~theirs[e].likewise => os[e] = theirs[e].value

\* What the message of the rollback says, and the name of its test: no change by
\* others is overwritten.  It is, when they remove what the worker was to remove
\* (startup/transaction.rs:239).
NeverOverwrites == \A e \in DOMAIN theirs : theirs[e].noticed => os[e] = theirs[e].value

\* What is reported is so, and what others made of an entry stays.
EntriesAreTrue == ReportIsTrue /\ OthersWin

Spec == Init /\ [][Next]_vars
=============================================================================
