---------------------------- MODULE Configuration ----------------------------
(***************************************************************************)
(* How a configuration comes into force.  A launch completes the file and  *)
(* runs with it; the settings the user changes in the tray are saved to it *)
(* by a job (app/settings.rs, app/pause.rs, startup.rs); a watcher thread  *)
(* notices what the file becomes (config/watch.rs, config/watch_state.rs), *)
(* and the UI thread hands over to a new process that runs with exactly    *)
(* the bytes that were validated (app/lifecycle.rs, config/reload.rs).     *)
(***************************************************************************)
EXTENDS ConfigFile

CONSTANT Setups

\* A setup: the file at the start and whether the application runs with it
\* already; the documents an editor may save and whether it may take the file
\* away; the settings in the tray and the operations tried; whether the file is
\* watched, and the retry limit; and bounds on edits, operations, launches,
\* exits, failures of the file system and of a handoff.
ASSUME ConfigurationAssumption ==
  \A s \in Setups :
    /\ s.tray \subseteq Settings /\ s.operations \subseteq {"quick", "pause", "read"}
    /\ {s.running, s.deletes, s.watches} \subseteq BOOLEAN
    /\ s.running => \A doc \in s.start : doc # None /\ Usable(doc)
    /\ {s.limit, s.edited, s.asked, s.launches, s.exits, s.faults, s.failures} \subseteq Nat

VARIABLES
  app,      \* the application: None, or what it runs with and what it is doing
  watch     \* the watcher thread

vars == <<setup, ini, recovery, writer, wanted, budget, app, watch>>
disk == <<ini, recovery, wanted>>

(***************************************************************************)
(* The watcher.  A version of the file is observed when its bytes change;  *)
(* it is offered once it has been stable, at most limit + 1 times, and     *)
(* stays in flight until the UI thread reports what became of it.          *)
(***************************************************************************)
Version(generation, doc) == [generation |-> generation, doc |-> doc]
Observation(generation, doc) ==
  [generation |-> generation, doc |-> doc, attempts |-> 0, rejected |-> FALSE,
   stable |-> FALSE, waiting |-> FALSE]
NewWatch(doc) ==
  [pc |-> "wait", observed |-> 0, latest |-> 0, current |-> None, flight |-> None,
   applied |-> doc, pending |-> None, control |-> <<>>]

Contents == IF ini # None /\ ini.lock = None THEN ini.doc ELSE None

Seen(w, doc) ==
  IF w.current = None THEN w.applied = doc ELSE w.current.doc = doc
Observe(w, doc) ==
  IF Seen(w, doc) THEN w
  ELSE [w EXCEPT !.observed = @ + 1, !.current = Observation(w.observed + 1, doc)]
Unavailable(w) ==
  IF w.current = None THEN w ELSE [w EXCEPT !.observed = @ + 1, !.current = None]
Noticed(w) == IF Contents = None THEN Unavailable(w) ELSE Observe(w, Contents)

Due(w) ==
  /\ w.flight = None /\ w.current # None
  /\ w.current.doc \notin {Empty, w.applied}
  /\ ~w.current.rejected /\ w.current.attempts <= setup.limit
  /\ w.current.stable /\ ~w.current.waiting

\* A mutant: only the newest version may be completed.
NewestCompletion(w, generation, retryable) ==
  IF w.current = None \/ w.current.generation # generation THEN w
  ELSE [w EXCEPT !.flight = None, !.current.rejected = ~retryable, !.current.waiting = TRUE]

\* ChangeTracker::complete
Completion(w, generation, retryable) ==
  IF w.flight = None \/ w.flight.generation # generation THEN w
  ELSE LET landed == [w EXCEPT !.flight = None]
       IN IF w.current # None /\ w.current.generation = generation
          THEN [landed EXCEPT !.current.rejected = ~retryable, !.current.waiting = TRUE]
          ELSE landed

Watching == app # None /\ setup.watches

\* A turn of the loop begins with a report of the UI thread or a timeout.
WatchReport ==
  /\ Watching /\ watch.pc = "wait" /\ watch.control # <<>>
  /\ watch' = [Completion(watch, Head(watch.control), TRUE)
                 EXCEPT !.control = Tail(@), !.pc = "offer"]
  /\ UNCHANGED <<setup, writer, budget, app, disk>>

\* The interval is over or the directory changed.  A poll that finds nothing
\* new is left out.
WatchRead ==
  /\ Watching /\ watch.pc = "wait"
  /\ Noticed(watch) # watch \/ Due(watch)
  /\ LET seen == Noticed(watch)
     IN watch' = [seen EXCEPT !.latest = seen.observed, !.pc = "offer"]
  /\ UNCHANGED <<setup, writer, budget, app, disk>>

\* What is due is validated and offered to the UI thread, or rejected.
Offer ==
  /\ Watching /\ watch.pc = "offer"
  /\ watch' =
       IF ~Due(watch) THEN [watch EXCEPT !.pc = "wait"]
       ELSE LET version == Version(watch.current.generation, watch.current.doc)
                taken == [watch EXCEPT !.pc = "wait", !.flight = version, !.current.attempts = @ + 1]
            IN IF Usable(version.doc) THEN [taken EXCEPT !.pending = version]
               ELSE Completion(taken, version.generation, FALSE)
  /\ UNCHANGED <<setup, writer, budget, app, disk>>

\* The delays: a version has not changed for a while; a retry may be made.
Pass ==
  /\ Watching /\ watch.current # None
  /\ \/ ~watch.current.stable /\ watch' = [watch EXCEPT !.current.stable = TRUE]
     \/ watch.current.waiting /\ watch' = [watch EXCEPT !.current.waiting = FALSE]
  /\ UNCHANGED <<setup, writer, budget, app, disk>>

(***************************************************************************)
(* The UI thread.                                                          *)
(***************************************************************************)
Running(doc) ==
  [doc |-> doc, config |-> Config(doc), saved |-> None, busy |-> FALSE, restart |-> None]

\* The configuration the tray shows.
Shown == IF app.saved = None THEN app.config ELSE app.saved
CanChangeSettings == app # None /\ app.restart = None /\ ~app.busy

\* Whether a report still fits in the channel of the watcher.
Report(generation) ==
  IF Watching /\ Len(watch.control) < 4
  THEN [watch EXCEPT !.control = Append(@, generation)] ELSE watch

\* change_setting, toggle_pause, read_saved_settings.
Ask ==
  /\ CanChangeSettings /\ writer["job"] = Resting /\ budget.asked > 0
  /\ \/ "quick" \in setup.operations /\ \E e \in setup.tray : Begin("job", Save("quick", e, Shown))
     \/ "pause" \in setup.operations /\ Begin("job", Save("pause", Paused, app.config))
     \/ "read" \in setup.operations /\ Begin("job", Read)
  /\ app' = [app EXCEPT !.busy = TRUE]
  /\ budget' = [budget EXCEPT !.asked = @ - 1]
  /\ UNCHANGED <<setup, watch, disk>>

Handoff(generation, doc) == [stage |-> "prepare", generation |-> generation, doc |-> doc]
WithPause(config, v) == IF config = None THEN None ELSE [config EXCEPT ![Paused] = v]

\* poll_settings, poll_pause: the answer of the job.
Poll ==
  /\ app # None /\ app.busy /\ writer["job"].pc = "answered" /\ ~writer["job"].orphan
  /\ LET job == writer["job"].job
         doc == writer["job"].text
         rest == [app EXCEPT !.busy = FALSE]
     IN app' = CASE doc = None -> rest
                 [] doc # None /\ job.kind = "pause" ->
                      LET v == Opposite(job.expected[Paused])
                      IN [rest EXCEPT !.config = WithPause(@, v), !.saved = WithPause(@, v)]
                 [] doc # None /\ job.kind = "read" ->
                      [rest EXCEPT !.saved = Config(doc),
                                   !.restart = Handoff(IF setup.watches THEN watch.latest ELSE 1, doc)]
                 [] OTHER -> [rest EXCEPT !.saved = Config(doc)]
  /\ writer' = [writer EXCEPT !["job"] = Resting]
  /\ UNCHANGED <<setup, watch, budget, disk>>

Handover == budget.failures > 0 /\ budget' = [budget EXCEPT !.failures = @ - 1]

\* poll_config: the version on offer is taken; its handoff may fail to start.
PollConfig ==
  /\ CanChangeSettings /\ Watching /\ watch.pending # None
  /\ LET version == watch.pending
     IN \/ /\ app' = [app EXCEPT !.restart = Handoff(version.generation, version.doc)]
           /\ watch' = [watch EXCEPT !.pending = None]
           /\ UNCHANGED budget
        \/ /\ Handover /\ UNCHANGED app
           /\ watch' = [Report(version.generation) EXCEPT !.pending = None]
  /\ UNCHANGED <<setup, writer, disk>>

(***************************************************************************)
(* The handoff (Handoff.tla has its details): the version must still be    *)
(* the latest observed and what is on the disk before a child is started,  *)
(* and again before it takes over.                                         *)
(***************************************************************************)
Latest == IF setup.watches THEN watch.latest ELSE 1
MatchesDisk(doc) == recovery = None /\ Contents = doc

Advance(stage) == app' = [app EXCEPT !.restart.stage = stage]
Restarting(stage) == app # None /\ app.restart # None /\ app.restart.stage = stage

Preflight ==
  /\ Restarting("prepare")
  /\ LET fits == /\ app.restart.generation = Latest
                 /\ Usable(app.restart.doc) /\ MatchesDisk(app.restart.doc)
     IN \/ fits /\ Advance("child") /\ UNCHANGED budget
        \/ ~fits /\ Advance("failed") /\ UNCHANGED budget
        \/ fits /\ Advance("failed") /\ Handover
  /\ UNCHANGED <<setup, writer, watch, disk>>

RequireCurrent ==
  /\ Restarting("child")
  /\ LET fits == app.restart.generation = Latest /\ MatchesDisk(app.restart.doc)
     IN \/ fits /\ Advance("commit") /\ UNCHANGED budget
        \/ ~fits /\ Advance("failed") /\ UNCHANGED budget
        \/ fits /\ Advance("failed") /\ Handover
  /\ UNCHANGED <<setup, writer, watch, disk>>

\* The new process runs with the bytes it was handed, and watches the file anew.
TakeOver ==
  /\ Restarting("commit")
  /\ \/ /\ app' = Running(app.restart.doc) /\ watch' = NewWatch(app.restart.doc)
        /\ UNCHANGED budget
     \/ Advance("failed") /\ Handover /\ UNCHANGED watch
  /\ UNCHANGED <<setup, writer, disk>>

\* The old process has its input back and reports the version as not applied.
Restore ==
  /\ Restarting("failed")
  /\ watch' = Report(app.restart.generation)
  /\ app' = [app EXCEPT !.restart = None]
  /\ UNCHANGED <<setup, writer, budget, disk>>

(***************************************************************************)
(* Processes begin and end.                                                *)
(***************************************************************************)
Start ==
  /\ app = None /\ writer["launch"] = Resting /\ budget.launches > 0
  /\ Begin("launch", Launch)
  /\ budget' = [budget EXCEPT !.launches = @ - 1]
  /\ UNCHANGED <<setup, app, watch, disk>>

Started ==
  /\ writer["launch"].pc = "answered"
  /\ LET doc == writer["launch"].text
     IN IF doc = None THEN UNCHANGED <<app, watch>>
        ELSE app' = Running(doc) /\ watch' = NewWatch(doc)
  /\ writer' = [writer EXCEPT !["launch"] = Resting]
  /\ UNCHANGED <<setup, budget, disk>>

\* The application exits or crashes; its job may go on until the process ends.
Exit ==
  /\ app # None /\ budget.exits > 0
  /\ app' = None
  /\ writer' = [writer EXCEPT !["job"].orphan = writer["job"] # Resting]
  /\ budget' = [budget EXCEPT !.exits = @ - 1]
  /\ UNCHANGED <<setup, watch, disk>>

End ==
  /\ \/ writer["job"].orphan /\ Die("job") /\ UNCHANGED budget
     \/ /\ writer["launch"] # Resting /\ budget.exits > 0
        /\ Die("launch") /\ budget' = [budget EXCEPT !.exits = @ - 1]
  /\ UNCHANGED <<setup, wanted, app, watch>>

Init ==
  /\ setup \in Setups
  /\ \E doc \in setup.start :
       /\ ini = (IF doc = None THEN None ELSE File(doc, None))
       /\ wanted = (IF doc = None THEN <<>> ELSE Wanted(doc))
       /\ app = (IF setup.running THEN Running(doc) ELSE None)
       /\ watch = (IF setup.running THEN NewWatch(doc) ELSE NewWatch(None))
  /\ recovery = None
  /\ writer = [w \in Writers |-> Resting]
  /\ budget = [edits |-> setup.edited, asked |-> setup.asked, launches |-> setup.launches,
               exits |-> setup.exits, faults |-> setup.faults, failures |-> setup.failures]

Reading == \E w \in Writers : ReadBytes(w) /\ UNCHANGED <<app, watch>>
Writing == \E w \in Writers : Write(w) /\ UNCHANGED <<app, watch>>
Watcher == WatchReport \/ WatchRead \/ Offer \/ Pass
Ui == Poll \/ PollConfig \/ Preflight \/ RequireCurrent \/ TakeOver \/ Restore \/ Started
Outside == (Edit \/ Recover) /\ UNCHANGED <<app, watch>>

Next == Reading \/ Writing \/ Watcher \/ Ui \/ Ask \/ Outside \/ Start \/ Exit \/ End

(***************************************************************************)
(* Properties.                                                             *)
(***************************************************************************)
\* What the user wrote is never lost: every value of the last document the
\* user saved, with the settings since changed through the program, is in the
\* file or in its recovery file - whoever writes, fails or dies in between
\* (config/transaction.rs:57).
NothingLost ==
  \A e \in DOMAIN wanted :
    \E file \in {ini, recovery} \ {None} : Values(file.doc, e) = wanted[e]

\* A document on its way to the disk is whole: it still has every value of the
\* one before but the setting that is changed, it means the same for all
\* others, it has every setting of the template, and completing it again would
\* change nothing (config/document.rs:36).
CompletedFaithfully ==
  \A w \in Writers :
    writer[w].pc = "prepare" =>
      LET before == IF writer[w].was = None THEN Template ELSE writer[w].was
          after == writer[w].text
          edited == IF writer[w].job = Launch THEN {} ELSE {writer[w].job.entry}
      IN /\ Merge(after) = after
         /\ Keeps(before, after, Written(before) \ edited)
         /\ \A e \in Settings \ edited : Config(after)[e] = Config(before)[e]
         /\ \A e \in edited : Config(after)[e] = Opposite(writer[w].job.expected[e])

\* Writing changes what it should and nothing else: of what the user wrote, and
\* of the document on its way to the disk (config/transaction.rs:57,
\* config/document.rs:36).
WritesKeepAll == NothingLost /\ CompletedFaithfully

\* Once the file rests, is usable and no transaction is open, the running
\* configuration becomes the file's, unless the retries of this version are used
\* up (config/watch_state.rs:104).
Exhausted == watch.current # None /\ watch.current.attempts > setup.limit
AtRest ==
  Watching /\ recovery = None /\ Contents # None /\ Usable(ini.doc) /\ ~Exhausted
Settles == <>[](AtRest => app.doc = ini.doc)

Spec == Init /\ [][Next]_vars
\* Weak fairness of Reading, spelled out with the condition that enables it.
ReadingIsFair ==
  []<>(\A w \in Writers : writer[w].pc # "read") \/ []<><<Reading>>_vars
FairSpec ==
  Spec /\ ReadingIsFair /\ WF_vars(Writing) /\ WF_vars(Watcher) /\ WF_vars(Ui) /\ WF_vars(End)
=============================================================================
