---------------------------- MODULE Records_proofs ----------------------------
(***************************************************************************)
(* What the program keeps outside itself beside the INI.                   *)
(*                                                                         *)
(* Autostart survives, reports are true and the changes of others stay,    *)
(* for every setup: whatever the entries, the configurations and the       *)
(* policies are, and however many failures, changes by others, launches,   *)
(* exits and edits there are.  The journal of the worker is what carries   *)
(* the proof: of an entry that is not in it the system has what was read,  *)
(* and of one that is it has what was tried, or, for the last attempt      *)
(* only, still what was read.                                              *)
(*                                                                         *)
(* The archives and the log are in order, a lost line is told of while the *)
(* UI runs, nothing but the user's hand brings a worker to empty a log     *)
(* that is not archived, and the files of others stay, for every number of *)
(* processes, archives, lines, kills, faults and intrusions, every limit   *)
(* of each launch and every history that is itself in order.  The mutex    *)
(* carries the proof: what a worker has looked at and made of the archives *)
(* stays true until they are complete, since the others wait and the user  *)
(* cannot touch a file that is held.                                       *)
(***************************************************************************)
EXTENDS Registration, Logging, SequenceFacts, FiniteSetTheorems, WellFoundedInduction, TLAPS

(***************************************************************************)
(* Registration                                                            *)
(***************************************************************************)
(***************************************************************************)
(* What the worker knows and has done.                                     *)
(***************************************************************************)
Exchanging == {"compare", "write", "verify"}
Transacts == worker # None /\ worker.before # None
Saver == worker.pc = "save" \/ (worker.pc = "answered" /\ worker.result.kind = "saved")
\* The changes go forward, not back.
Forward ==
  Transacts /\ (worker.pc \in {"change", "run", "task"} \/ (worker.pc \in Exchanging /\ ~worker.back))

WorkerInv ==
  worker # None =>
    /\ startup \in Startups
    /\ IF Saver THEN startup.state \in {"ready", "saved"} ELSE startup.state = "pending"
    /\ worker.pc = "save" => worker.result \in {"yes", "no"} /\ worker.before = None
    /\ worker.pc = "answered" =>
         worker.result \in Results /\ (worker.result.kind = "saved" => worker.before = None)
    /\ worker.before = None =>
         /\ worker.pc \in {"run", "task", "save", "answered"}
         /\ ~worker.final /\ ~worker.back /\ worker.plan = <<>> /\ worker.journal = <<>>
    /\ worker.before # None => ~Foreign(worker.before)
    /\ worker.pc \in {"run", "task"} /\ worker.before # None => worker.final /\ worker.plan = <<>>
    /\ worker.back => worker.pc \in Exchanging \cup {"answered"}
    /\ worker.pc = "task" /\ "run" \notin DOMAIN theirs => worker.read = os.run

\* What the entry is to become.
Goal(c, s, e) ==
  IF Wants(c, s) /\ e = Target(c, s).entry THEN Target(c, s).after ELSE None
\* The wanted entry is already as it is wanted.
Ready(c, s) == s[Target(c, s).entry] = Target(c, s).after

Journaled(e) == \E i \in DOMAIN worker.journal : worker.journal[i].entry = e
Planned(e) == \E i \in DOMAIN worker.plan : worker.plan[i].entry = e

JournalInv ==
  Transacts =>
    \A i \in DOMAIN worker.journal :
      LET c == worker.config
          s == worker.before
          e == worker.journal[i].entry
      IN /\ worker.journal[i].before = s[e]
         /\ worker.journal[i].after \in Contents(e)
         /\ Equivalent(e, Goal(c, s, e), worker.journal[i].after)
         /\ \A j \in DOMAIN worker.journal : worker.journal[j].entry = e => j = i
         /\ Wants(c, s) /\ e # Target(c, s).entry =>
              Ready(c, s) \/ \E j \in 1 .. (i - 1) : worker.journal[j].entry = Target(c, s).entry

PlanInv ==
  Forward =>
    LET c == worker.config
        s == worker.before
    IN /\ \A i \in DOMAIN worker.plan :
            LET e == worker.plan[i].entry
            IN /\ worker.plan[i].before = s[e] /\ worker.plan[i].after = Goal(c, s, e)
               /\ ~Journaled(e)
               /\ \A j \in DOMAIN worker.plan : worker.plan[j].entry = e => j = i
               /\ Wants(c, s) /\ e # Target(c, s).entry =>
                    \/ Ready(c, s) \/ Journaled(Target(c, s).entry)
                    \/ \E j \in 1 .. (i - 1) : worker.plan[j].entry = Target(c, s).entry
       /\ \A e \in Entries : Planned(e) \/ Journaled(e) \/ s[e] = Goal(c, s, e)

ExchangeInv ==
  worker # None /\ worker.pc \in Exchanging =>
    /\ worker.before # None /\ worker.journal # <<>>
    /\ IF worker.back
       THEN worker.exchange = Change(Last(worker.journal).entry, Last(worker.journal).after,
                                     worker.before[Last(worker.journal).entry])
       ELSE worker.exchange = Last(worker.journal)

\* The system has what was read, or what was tried.
SystemInv ==
  Transacts =>
    \A e \in Entries \ DOMAIN theirs :
      /\ ~Journaled(e) => Equivalent(e, worker.before[e], os[e])
      /\ \A i \in DOMAIN worker.journal :
           worker.journal[i].entry = e =>
             \/ Equivalent(e, worker.journal[i].after, os[e])
             \/ /\ i = Len(worker.journal) /\ worker.pc \notin {"change", "run", "task"}
                /\ Equivalent(e, worker.before[e], os[e])

KeptInv ==
  kept =>
    /\ On(os) /\ DOMAIN theirs = {} /\ preference.enabled # "no"
    /\ worker # None /\ startup.state = "pending" => worker.config.enabled # "no"
    /\ Transacts => On(worker.before)

AnswerInv ==
  worker # None /\ worker.pc = "answered" /\ worker.result.kind = "inspected" =>
    /\ worker.result.ok /\ DOMAIN theirs = {} =>
         Enabled(os) = worker.result.value /\ (worker.before # None => AsWanted)
    /\ ~worker.result.ok /\ worker.result.value /\ worker.before # None => worker.journal = <<>>
KnownInv == Known /\ DOMAIN theirs = {} => Enabled(os) = startup.actual

\* What others made of an entry and the worker has not made, and will not make.
Firm(e) == theirs[e].noticed /\ ~theirs[e].likewise
TheirsInv ==
  \A e \in DOMAIN theirs : Firm(e) =>
    LET value == theirs[e].value
    IN /\ os[e] = value
       /\ worker # None /\ worker.before = None => Saver
       /\ Transacts =>
            /\ value # worker.before[e]
            /\ \A i \in DOMAIN worker.journal :
                 worker.journal[i].entry = e => value # worker.journal[i].after
            /\ worker.pc = "write" => worker.exchange.entry # e
            /\ worker.pc = "verify" /\ ~worker.back /\ worker.exchange.entry = e =>
                 ~Equivalent(e, value, worker.exchange.after)
       /\ Forward =>
            \A i \in DOMAIN worker.plan : worker.plan[i].entry = e => value # worker.plan[i].after

Inv ==
  /\ TypeOK /\ WorkerInv /\ JournalInv /\ PlanInv /\ ExchangeInv
  /\ SystemInv /\ KeptInv /\ AnswerInv /\ KnownInv /\ TheirsInv

(***************************************************************************)
(* The operators.                                                          *)
(***************************************************************************)
\* The entry starts the program.
Starts(e, value) ==
  IF e = "run" THEN value \in OwnRuns ELSE value # None /\ value.own /\ value.policy.enabled

LEMMA OnStarts == \A s : On(s) <=> \E e \in Entries : Starts(e, s[e])
BY DEF On, Starts, Entries

LEMMA EquivalentReflexive == \A e, a : Equivalent(e, a, a)
BY DEF Equivalent

LEMMA EquivalentSymmetric == \A e, a, b : Equivalent(e, a, b) => Equivalent(e, b, a)
BY DEF Equivalent

LEMMA EquivalentTransitive ==
  \A e, a, b, c : Equivalent(e, a, b) /\ Equivalent(e, b, c) => Equivalent(e, a, c)
BY DEF Equivalent

LEMMA EquivalentStarts ==
  \A e, a, b : Equivalent(e, a, b) /\ Starts(e, a) => Starts(e, b)
BY DEF Equivalent, Starts

LEMMA WantedPolicy ==
  ASSUME NEW c \in Preferences, NEW s \in Snapshots, admin \in BOOLEAN
  PROVE  Wanted(c, s) \in Policies /\ Wanted(c, s).enabled
<1>1. Highest(c, s) \in BOOLEAN
  BY DEF Highest, Snapshots, Tasks, Policies
<1>2. Battery(c, s) \in {"allow", "stop", "legacy"}
  BY DEF Battery, Snapshots, Tasks, Policies, Preferences, Batteries
<1> QED BY <1>1, <1>2 DEF Wanted, Policy, Policies

LEMMA TargetShape ==
  ASSUME NEW c \in Preferences, NEW s \in Snapshots, admin \in BOOLEAN
  PROVE  /\ Target(c, s).entry \in Entries
         /\ Target(c, s).before = s[Target(c, s).entry]
         /\ Target(c, s).after \in Contents(Target(c, s).entry)
         /\ Target(c, s).after # None
         /\ ~Foreign(s) => Starts(Target(c, s).entry, Target(c, s).after)
<1>1. CASE ~UsesTask(c, s)
  BY <1>1, RegistrationAssumption
  DEF Target, Change, Entries, Contents, Runs, OwnRuns, Starts
<1>2. CASE UsesTask(c, s) /\ HasPolicy(s.task, Wanted(c, s))
  BY <1>2, WantedPolicy, RegistrationAssumption
  DEF Target, Change, Entries, Contents, Snapshots, HasPolicy, Foreign, Starts
<1>3. CASE UsesTask(c, s) /\ ~HasPolicy(s.task, Wanted(c, s))
  <2>1. Task(TRUE, Wanted(c, s), "planned") \in Tasks
    BY WantedPolicy DEF Task, Tasks
  <2>2. Target(c, s) = Change("task", s.task, Task(TRUE, Wanted(c, s), "planned"))
    BY <1>3 DEF Target
  <2>3. Task(TRUE, Wanted(c, s), "planned") # None
    BY <2>1, RegistrationAssumption
  <2>4. Starts("task", Task(TRUE, Wanted(c, s), "planned"))
    BY <2>3, WantedPolicy DEF Task, Starts
  <2>5. /\ Target(c, s).entry = "task" /\ Target(c, s).before = s["task"]
        /\ Target(c, s).after = Task(TRUE, Wanted(c, s), "planned")
    BY <2>2 DEF Change
  <2> QED BY <2>1, <2>3, <2>4, <2>5 DEF Entries, Contents
<1> QED BY <1>1, <1>2, <1>3

\* Whether a task or a Run value is wanted depends on nothing that changes.
LEMMA TargetStable ==
  ASSUME admin' = admin
  PROVE  \A c, s : Target(c, s)' = Target(c, s)
BY DEF Target, Change, UsesTask, Highest, HasPolicy, Wanted, Battery, Policy, Task

LEMMA GoalStable ==
  ASSUME admin' = admin
  PROVE  /\ \A c, s, e : Goal(c, s, e)' = Goal(c, s, e)
         /\ \A c, s : Ready(c, s)' = Ready(c, s)
BY TargetStable DEF Goal, Ready

LEMMA ChangeTyped ==
  /\ \A change \in Changes :
       /\ change.entry \in Entries
       /\ change.before \in Contents(change.entry) /\ change.after \in Contents(change.entry)
       /\ change = Change(change.entry, change.before, change.after)
  /\ \A e \in Entries : \A before, after \in Contents(e) : Change(e, before, after) \in Changes
<1>1. ASSUME NEW e \in Entries, NEW change \in [entry : {e}, before : Contents(e), after : Contents(e)]
      PROVE  /\ change.entry = e /\ change.before \in Contents(e) /\ change.after \in Contents(e)
             /\ change = Change(change.entry, change.before, change.after)
  BY DEF Change
<1>2. ASSUME NEW e \in Entries, NEW before \in Contents(e), NEW after \in Contents(e)
      PROVE  Change(e, before, after) \in [entry : {e}, before : Contents(e), after : Contents(e)]
  BY DEF Change
<1> QED BY <1>1, <1>2 DEF Changes

LEMMA SnapshotContents ==
  ASSUME NEW s \in Snapshots, NEW e \in Entries
  PROVE  s[e] \in Contents(e) /\ None \in Contents(e)
BY DEF Snapshots, Entries, Contents

LEMMA TargetIsChange ==
  ASSUME NEW c \in Preferences, NEW s \in Snapshots, admin \in BOOLEAN
  PROVE  /\ Target(c, s) \in Changes
         /\ Target(c, s) = Change(Target(c, s).entry, s[Target(c, s).entry], Target(c, s).after)
<1>1. Target(c, s) = Change(Target(c, s).entry, Target(c, s).before, Target(c, s).after)
  BY DEF Target, Change
<1> QED BY <1>1, TargetShape, SnapshotContents, ChangeTyped

LEMMA RemovalShape ==
  ASSUME NEW s \in Snapshots, NEW e \in Entries
  PROVE  IF s[e] = None THEN Removal(s, e) = <<>>
         ELSE Removal(s, e) = <<Change(e, s[e], None)>> /\ Change(e, s[e], None) \in Changes
BY SnapshotContents, ChangeTyped DEF Removal

\* The plan has an entry at most once, and brings each to what it is to become;
\* an entry goes after the wanted one is there.
LEMMA PlanShape ==
  ASSUME NEW c \in Preferences, NEW s \in Snapshots, admin \in BOOLEAN
  PROVE  /\ Plan(c, s) \in Seq(Changes)
         /\ \A i \in DOMAIN Plan(c, s) :
              LET e == Plan(c, s)[i].entry
              IN /\ e \in Entries
                 /\ Plan(c, s)[i].before = s[e] /\ Plan(c, s)[i].after = Goal(c, s, e)
                 /\ \A j \in DOMAIN Plan(c, s) : Plan(c, s)[j].entry = e => j = i
                 /\ Wants(c, s) /\ e # Target(c, s).entry =>
                      \E j \in 1 .. (i - 1) : Plan(c, s)[j].entry = Target(c, s).entry
         /\ \A e \in Entries :
              (\E i \in DOMAIN Plan(c, s) : Plan(c, s)[i].entry = e) \/ s[e] = Goal(c, s, e)
<1> DEFINE t == Target(c, s)
           o == Other(t.entry)
<1>1. CASE Wants(c, s)
  <2>1. o \in Entries /\ o # t.entry /\ \A e \in Entries : e = o \/ e = t.entry
    BY TargetShape DEF Other, Entries
  <2>2. Goal(c, s, t.entry) = t.after /\ Goal(c, s, o) = None
    BY <1>1, <2>1 DEF Goal
  <2>3. CASE s[o] = None
    <3>1. Plan(c, s) = <<t>>
      BY <1>1, <2>1, <2>3 DEF Plan, Removal
    <3> QED BY <1>1, <2>1, <2>2, <2>3, <3>1, TargetShape, TargetIsChange
  <2>4. CASE s[o] # None
    <3>1. Plan(c, s) = <<t, Change(o, s[o], None)>> /\ Change(o, s[o], None) \in Changes
      BY <1>1, <2>1, <2>4, RemovalShape, TargetIsChange, Concatenations DEF Plan
    <3> QED BY <1>1, <2>1, <2>2, <2>4, <3>1, TargetShape, TargetIsChange DEF Change
  <2> QED BY <2>3, <2>4
<1>2. CASE ~Wants(c, s)
  <2>1. Plan(c, s) = Removal(s, "run") \o Removal(s, "task")
    BY <1>2 DEF Plan
  <2>2. \A e \in Entries : Goal(c, s, e) = None
    BY <1>2 DEF Goal
  <2>3. CASE s["run"] = None /\ s["task"] = None
    <3>1. Plan(c, s) = <<>> BY <2>1, <2>3 DEF Removal
    <3> QED BY <1>2, <2>2, <2>3, <3>1 DEF Entries
  <2>4. CASE s["run"] # None /\ s["task"] = None
    <3>1. Plan(c, s) = <<Change("run", s["run"], None)>> /\ Change("run", s["run"], None) \in Changes
      BY <2>1, <2>4, RemovalShape, Concatenations DEF Entries
    <3> QED BY <1>2, <2>2, <2>4, <3>1 DEF Entries, Change
  <2>5. CASE s["run"] = None /\ s["task"] # None
    <3>1. Plan(c, s) = <<Change("task", s["task"], None)>> /\ Change("task", s["task"], None) \in Changes
      BY <2>1, <2>5, RemovalShape, Concatenations DEF Entries
    <3> QED BY <1>2, <2>2, <2>5, <3>1 DEF Entries, Change
  <2>6. CASE s["run"] # None /\ s["task"] # None
    <3>1. /\ Plan(c, s) = <<Change("run", s["run"], None), Change("task", s["task"], None)>>
          /\ Change("run", s["run"], None) \in Changes /\ Change("task", s["task"], None) \in Changes
      BY <2>1, <2>6, RemovalShape, Concatenations DEF Entries
    <3> QED BY <1>2, <2>2, <2>6, <3>1 DEF Entries, Change
  <2> QED BY <2>3, <2>4, <2>5, <2>6
<1> QED BY <1>1, <1>2

(***************************************************************************)
(* The steps of the worker.                                                *)
(***************************************************************************)
\* A step of the worker that leaves what it knows and has done as it is.
Keeping ==
  /\ worker \in Workers /\ worker' \in Workers
  /\ worker'.config = worker.config /\ worker'.before = worker.before
  /\ worker'.final = worker.final /\ worker'.plan = worker.plan
  /\ worker'.journal = worker.journal /\ worker'.back = worker.back
  /\ worker'.exchange = worker.exchange
Untouched == UNCHANGED <<setup, admin, preference, startup, theirs, kept>>
\* The worker inspects or changes the entries.
Working == worker # None /\ worker.pc \notin {"save", "answered"}

LEMMA WorkingFacts ==
  ASSUME TypeOK, WorkerInv, Working
  PROVE  /\ worker \in Workers /\ startup \in Startups /\ startup.state = "pending"
         /\ ~Saver /\ ~Known
BY DEF TypeOK, WorkerInv, Working, Saver, Known

LEMMA JournalKept ==
  ASSUME JournalInv, worker # None, worker' # None, Keeping, admin' = admin
  PROVE  JournalInv'
BY GoalStable, TargetStable DEF JournalInv, Keeping, Transacts

LEMMA PlanKept ==
  ASSUME PlanInv, Forward' => Forward, Keeping, admin' = admin
  PROVE  PlanInv'
BY GoalStable, TargetStable DEF PlanInv, Keeping, Planned, Journaled

LEMMA KeptKept ==
  ASSUME KeptInv, worker # None, Keeping, Untouched, kept /\ On(os) => On(os')
  PROVE  KeptInv'
BY DEF KeptInv, Keeping, Untouched, Transacts, On

\* The worker gives up, or ends.
LEMMA GivesUp ==
  ASSUME Inv, Working, Keeping, Untouched, os' = os,
         worker'.pc \in {"undo", "answered"}, worker' # None,
         worker'.pc = "undo" => worker.before # None /\ ~worker.back,
         worker'.pc = "answered" => worker'.result \in Results /\ worker'.result.kind = "inspected",
         AnswerInv'
  PROVE  Inv'
<1>1. TypeOK'
  BY DEF Inv, TypeOK, Untouched, Keeping
<1>2. WorkerInv'
  BY WorkingFacts DEF Inv, WorkerInv, Working, Keeping, Untouched, Saver
<1>3. JournalInv'
  BY JournalKept DEF Inv, Working, Untouched
<1>4. PlanInv'
  BY DEF PlanInv, Forward, Exchanging
<1>5. ExchangeInv'
  BY DEF ExchangeInv, Exchanging
<1>6. SystemInv'
  BY DEF Inv, SystemInv, Working, Keeping, Untouched, Transacts, Journaled
<1>7. KeptInv'
  BY KeptKept DEF Inv, Working
<1>8. KnownInv'
  BY WorkingFacts DEF Inv, KnownInv, Untouched, Known
<1>9. TheirsInv'
  BY WorkingFacts DEF Inv, TheirsInv, Firm, Forward, Exchanging, Working, Keeping, Untouched, Transacts, Saver
<1> QED BY <1>1, <1>2, <1>3, <1>4, <1>5, <1>6, <1>7, <1>8, <1>9 DEF Inv

LEMMA UndoNext ==
  ASSUME Inv, Working, Untouched, os' = os, Goto("undo"), worker.before # None, ~worker.back
  PROVE  Inv'
<1>1. Keeping /\ worker'.pc = "undo" /\ worker' # None
  BY SMTT(30), WorkingFacts, RegistrationAssumption DEF Inv, Goto, Workers, Keeping, Steps
<1>2. AnswerInv'
  BY <1>1 DEF AnswerInv
<1> QED BY <1>1, <1>2, GivesUp

LEMMA Answers ==
  ASSUME Inv, Working, NEW r \in Results, Answer(r)
  PROVE  Keeping /\ worker'.pc = "answered" /\ worker'.result = r /\ worker' # None
<1>1. worker \in Workers
  BY WorkingFacts DEF Inv
<1>2. worker' = [worker EXCEPT !.pc = "answered", !.result = r]
  BY DEF Answer
<1>3. worker' \in Workers
  BY <1>1, <1>2 DEF Workers, Steps
<1> QED BY <1>1, <1>2, <1>3, RegistrationAssumption DEF Workers, Keeping

LEMMA FailureAnswered ==
  ASSUME Inv, Working, Untouched, os' = os, NEW unchanged \in BOOLEAN, Answer(Failure(unchanged)),
         unchanged => worker.before = None \/ worker.journal = <<>>
  PROVE  Inv'
<1>1. Failure(unchanged) \in Results /\ Failure(unchanged).kind = "inspected"
  BY DEF Failure, Results
<1>2. ~Failure(unchanged).ok /\ Failure(unchanged).value = unchanged
  BY DEF Failure
<1>3. AnswerInv'
  BY <1>1, <1>2, Answers DEF AnswerInv, Keeping
<1> QED BY <1>1, <1>3, Answers, GivesUp

LEMMA FailsNext ==
  ASSUME Inv, Working, Untouched, os' = os, Fails, worker.before # None
  PROVE  Inv'
BY UndoNext, FailureAnswered DEF Fails

LEMMA InspectedAnswered ==
  ASSUME Inv, Working, Untouched, os' = os, NEW enabled \in BOOLEAN, Answer(Inspected(enabled)),
         DOMAIN theirs = {} => enabled = Enabled(os) /\ (worker.before # None => AsWanted)
  PROVE  Inv'
<1>1. Inspected(enabled) \in Results /\ Inspected(enabled).kind = "inspected"
  BY DEF Inspected, Results
<1>2. Inspected(enabled).ok = TRUE /\ Inspected(enabled).value = enabled
  BY DEF Inspected
<1>3. AsWanted => AsWanted'
  BY <1>1, Answers, TargetStable DEF AsWanted, Keeping, Untouched
<1>4. AnswerInv'
  BY <1>1, <1>2, <1>3, Answers DEF AnswerInv, Keeping, Untouched
<1> QED BY <1>1, <1>4, Answers, GivesUp

(***************************************************************************)
(* The exchange.                                                           *)
(***************************************************************************)
LEMMA LastAttempt ==
  ASSUME Inv, Working, worker.pc \in Exchanging
  PROVE  /\ worker.before # None /\ worker.before \in Snapshots
         /\ worker.journal \in Seq(Changes) /\ worker.journal # <<>>
         /\ Len(worker.journal) \in DOMAIN worker.journal
         /\ Last(worker.journal) = worker.journal[Len(worker.journal)]
         /\ Entry \in Entries /\ Entry = Last(worker.journal).entry
         /\ Last(worker.journal).before = worker.before[Entry]
         /\ Value = IF worker.back THEN worker.before[Entry] ELSE Last(worker.journal).after
         /\ worker.exchange.before =
              IF worker.back THEN Last(worker.journal).after ELSE worker.before[Entry]
         /\ Value \in Contents(Entry) /\ Last(worker.journal).after \in Contents(Entry)
<1>1. worker \in Workers
  BY WorkingFacts DEF Inv
<1>2. worker.before # None /\ worker.before \in Snapshots
  BY <1>1, WorkingFacts DEF Inv, ExchangeInv, Working, Workers
<1>3. worker.journal \in Seq(Changes) /\ worker.journal # <<>>
  BY <1>1 DEF Inv, ExchangeInv, Working, Workers
<1>4. /\ Len(worker.journal) \in DOMAIN worker.journal
      /\ Last(worker.journal) = worker.journal[Len(worker.journal)]
      /\ Last(worker.journal) \in Changes
  BY <1>3, DroppingLast
<1>5. Last(worker.journal).entry \in Entries
  BY <1>4, ChangeTyped
<1>6. /\ Last(worker.journal).before = worker.before[Last(worker.journal).entry]
      /\ Last(worker.journal).after \in Contents(Last(worker.journal).entry)
  BY <1>2, <1>4 DEF Inv, JournalInv, Transacts, Working
<1>7. worker.before[Last(worker.journal).entry] \in Contents(Last(worker.journal).entry)
  BY <1>2, <1>5 DEF Snapshots, Entries, Contents
<1>8. /\ Entry = Last(worker.journal).entry
      /\ Value = IF worker.back THEN worker.before[Entry] ELSE Last(worker.journal).after
      /\ worker.exchange.before =
           IF worker.back THEN Last(worker.journal).after ELSE worker.before[Entry]
  <2>1. CASE worker.back
    BY <2>1 DEF Inv, ExchangeInv, Working, Entry, Value, Change
  <2>2. CASE ~worker.back
    BY <2>2, <1>6 DEF Inv, ExchangeInv, Working, Entry, Value
  <2> QED BY <2>1, <2>2
<1> QED BY <1>2, <1>3, <1>4, <1>5, <1>6, <1>7, <1>8

LEMMA StoredValue ==
  ASSUME NEW value \in Stored(Value), Entry \in Entries, Value \in Contents(Entry)
  PROVE  value \in Contents(Entry) /\ Equivalent(Entry, Value, value)
<1>1. CASE Entry = "task" /\ Value # None
  <2>1. Value \in Tasks
    BY <1>1 DEF Contents
  <2>2. PICK text \in {Value.text, "normal"} : value = [Value EXCEPT !.text = text]
    BY <1>1 DEF Stored
  <2>3. /\ value \in Tasks /\ value.own = Value.own /\ value.policy = Value.policy
    BY <2>1, <2>2 DEF Tasks
  <2>4. value # None
    BY <2>3, RegistrationAssumption
  <2> QED BY <1>1, <2>3, <2>4 DEF Contents, Equivalent
<1>2. CASE ~(Entry = "task" /\ Value # None)
  BY <1>2, EquivalentReflexive DEF Stored
<1> QED BY <1>1, <1>2

\* An entry that is in the journal before the last attempt has what was tried.
LEMMA Achieved ==
  ASSUME Inv, Transacts, NEW e \in Entries \ DOMAIN theirs, NEW i \in DOMAIN worker.journal,
         worker.journal[i].entry = e,
         i # Len(worker.journal) \/ worker.pc \in {"change", "run", "task"}
  PROVE  Equivalent(e, Goal(worker.config, worker.before, e), os[e])
<1>1. Equivalent(e, worker.journal[i].after, os[e])
  BY DEF Inv, SystemInv
<1>2. Equivalent(e, Goal(worker.config, worker.before, e), worker.journal[i].after)
  BY DEF Inv, JournalInv
<1> QED BY <1>1, <1>2, EquivalentTransitive

\* Autostart that is kept stays on through every write: the entry that goes is
\* not the one that starts the program, or the one that was there is back.
LEMMA StoreKeepsOn ==
  ASSUME Inv, Working, worker.pc = "write", kept, NEW v,
         Equivalent(Entry, Value, v), os' = [os EXCEPT ![Entry] = v]
  PROVE  On(os')
<1> DEFINE c == worker.config
           s == worker.before
           n == Len(worker.journal)
           t == Target(c, s)
<1>1. worker.pc \in Exchanging BY DEF Exchanging
<1>2. /\ s # None /\ s \in Snapshots /\ c \in Preferences /\ Transacts /\ ~Foreign(s)
      /\ n \in DOMAIN worker.journal /\ worker.journal[n].entry = Entry /\ Entry \in Entries
      /\ Last(worker.journal) = worker.journal[n]
  BY <1>1, LastAttempt, WorkingFacts DEF Inv, WorkerInv, Working, Transacts, Workers
<1>3. On(s) /\ DOMAIN theirs = {} /\ c.enabled # "no"
  BY <1>2, WorkingFacts DEF Inv, KeptInv, Working
<1>4. Wants(c, s)
  <2>1. Enabled(s)
    BY <1>3, RegistrationAssumption DEF On, Enabled, OwnRuns, Runs
  <2> QED BY <1>2, <1>3, <2>1 DEF Wants, Preferences, Enabling
<1>5. t.entry \in Entries /\ Starts(t.entry, t.after) /\ Goal(c, s, t.entry) = t.after
  BY <1>2, <1>4, TargetShape DEF Inv, TypeOK, Goal
<1>6. os'[Entry] = v /\ \A e \in Entries : e # Entry => os'[e] = os[e]
  BY <1>2 DEF Inv, TypeOK, Snapshots, Entries
\* the wanted entry is there unless it is the one that is written
<1>7. t.entry # Entry => Starts(t.entry, os[t.entry])
  <2> SUFFICES ASSUME t.entry # Entry PROVE Starts(t.entry, os[t.entry])
    OBVIOUS
  <2>1. CASE Journaled(t.entry)
    <3>1. PICK i \in DOMAIN worker.journal : worker.journal[i].entry = t.entry
      BY <2>1 DEF Journaled
    <3>2. i # n
      BY <1>2, <3>1
    <3>3. Equivalent(t.entry, t.after, os[t.entry])
      BY <1>2, <1>3, <1>5, <3>1, <3>2, Achieved
    <3> QED BY <1>5, <3>3, EquivalentStarts
  <2>2. CASE ~Journaled(t.entry)
    <3>1. Ready(c, s)
      BY <1>2, <1>4, <2>2 DEF Inv, JournalInv, Journaled
    <3>2. Equivalent(t.entry, t.after, os[t.entry])
      BY <1>2, <1>3, <1>5, <2>2, <3>1 DEF Inv, SystemInv, Ready
    <3> QED BY <1>5, <3>2, EquivalentStarts
  <2> QED BY <2>1, <2>2
<1>8. CASE t.entry # Entry
  BY <1>5, <1>6, <1>7, <1>8, OnStarts
<1>9. CASE t.entry = Entry /\ ~worker.back
  <2>1. Equivalent(Entry, t.after, Value)
    BY <1>1, <1>2, <1>5, <1>9, LastAttempt DEF Inv, JournalInv
  <2>2. Starts(Entry, v)
    BY <1>5, <1>9, <2>1, EquivalentTransitive, EquivalentStarts
  <2> QED BY <1>2, <1>6, <2>2, OnStarts
<1>10. CASE t.entry = Entry /\ worker.back
  <2>1. Value = s[Entry]
    BY <1>1, <1>10, LastAttempt
  <2>2. PICK e \in Entries : Starts(e, s[e])
    BY <1>3, OnStarts
  <2>3. CASE e = Entry
    BY <1>2, <1>6, <2>1, <2>2, <2>3, EquivalentStarts, OnStarts
  <2>4. CASE e # Entry
    <3>1. CASE Ready(c, s)
      <4>1. Starts(Entry, Value)
        BY <1>5, <1>10, <2>1, <3>1 DEF Ready
      <4>2. Starts(Entry, v)
        BY <4>1, EquivalentStarts
      <4> QED BY <1>2, <1>6, <4>2, OnStarts
    <3>2. CASE ~Ready(c, s)
      <4>1. ~Journaled(e)
        <5>1. SUFFICES ASSUME NEW i \in DOMAIN worker.journal, worker.journal[i].entry = e
                       PROVE  FALSE
          BY DEF Journaled
        <5>2. PICK j \in 1 .. (i - 1) : worker.journal[j].entry = t.entry
          BY <1>2, <1>4, <1>10, <2>4, <3>2, <5>1 DEF Inv, JournalInv
        <5>3. j = n /\ i <= n /\ i \in Nat /\ n \in Nat
          BY <1>1, <1>2, <1>10, <5>1, <5>2, LastAttempt, DroppingLast DEF Inv, JournalInv
        <5> QED BY <5>2, <5>3
      <4>2. Equivalent(e, s[e], os[e])
        BY <1>2, <1>3, <4>1 DEF Inv, SystemInv
      <4> QED BY <1>6, <2>2, <2>4, <4>2, EquivalentStarts, OnStarts
    <3> QED BY <3>1, <3>2
  <2> QED BY <2>3, <2>4
<1> QED BY <1>8, <1>9, <1>10

\* An entry is written, and the worker goes on to verify it, or has been killed.
LEMMA StoreNext ==
  ASSUME Inv, Working, worker.pc = "write", Keeping, Untouched, Store, worker' # None,
         worker'.pc \in {"verify", "undo", "answered"},
         worker'.pc = "undo" => ~worker.back,
         worker'.pc = "answered" =>
           /\ worker'.result \in Results /\ worker'.result.kind = "inspected"
           /\ ~worker'.result.ok /\ ~worker'.result.value
  PROVE  Inv'
<1> DEFINE n == Len(worker.journal)
<1>1. worker.pc \in Exchanging BY DEF Exchanging
<1>2. /\ worker.before # None /\ n \in DOMAIN worker.journal /\ worker.journal[n].entry = Entry
      /\ Last(worker.journal) = worker.journal[n] /\ Entry \in Entries /\ Value \in Contents(Entry)
      /\ Value = IF worker.back THEN worker.before[Entry] ELSE Last(worker.journal).after
  BY <1>1, LastAttempt
<1>3. PICK v \in Contents(Entry) : Equivalent(Entry, Value, v) /\ os' = [os EXCEPT ![Entry] = v]
  BY <1>2, StoredValue DEF Store
<1>4. os' \in Snapshots /\ os'[Entry] = v /\ \A e \in Entries : e # Entry => os'[e] = os[e]
  BY <1>2, <1>3 DEF Inv, TypeOK, Snapshots, Entries, Contents
<1>5. TypeOK'
  BY <1>4 DEF Inv, TypeOK, Untouched, Keeping
<1>6. WorkerInv'
  BY <1>2, WorkingFacts DEF Inv, WorkerInv, Working, Keeping, Untouched, Saver, Exchanging
<1>7. JournalInv'
  BY JournalKept DEF Inv, Working, Untouched
<1>8. PlanInv'
  BY <1>1, PlanKept DEF Inv, Working, Keeping, Forward, Transacts, Untouched, Exchanging
<1>9. ExchangeInv'
  BY <1>1 DEF Inv, ExchangeInv, Working, Keeping, Exchanging
<1>10. SystemInv'
  <2>1. worker' # None /\ worker'.before = worker.before /\ worker'.journal = worker.journal
        /\ worker'.pc \notin {"change", "run", "task"} /\ theirs' = theirs /\ Transacts
    BY <1>2 DEF Keeping, Untouched, Working, Transacts
  <2>2. ASSUME NEW e \in Entries \ DOMAIN theirs, e # Entry
        PROVE  /\ ~Journaled(e)' => Equivalent(e, worker'.before[e], os'[e])
               /\ \A i \in DOMAIN worker'.journal :
                    worker'.journal[i].entry = e =>
                      \/ Equivalent(e, worker'.journal[i].after, os'[e])
                      \/ i = Len(worker'.journal) /\ Equivalent(e, worker'.before[e], os'[e])
    BY <1>4, <2>1, <2>2 DEF Inv, SystemInv, Journaled
  <2>3. ASSUME NEW e \in Entries \ DOMAIN theirs, e = Entry
        PROVE  /\ Journaled(e)'
               /\ \A i \in DOMAIN worker'.journal :
                    worker'.journal[i].entry = e =>
                      \/ Equivalent(e, worker'.journal[i].after, os'[e])
                      \/ i = Len(worker'.journal) /\ Equivalent(e, worker'.before[e], os'[e])
    <3>1. Journaled(e)'
      BY <1>2, <2>1, <2>3 DEF Journaled
    <3>2. ASSUME NEW i \in DOMAIN worker.journal, worker.journal[i].entry = e PROVE i = n
      BY <1>2, <2>1, <2>3, <3>2 DEF Inv, JournalInv
    <3> QED BY <1>2, <1>3, <1>4, <2>1, <2>3, <3>1, <3>2
  <2> QED BY <2>1, <2>2, <2>3 DEF SystemInv, Untouched
<1>11. KeptInv'
  BY <1>3, StoreKeepsOn, KeptKept DEF Inv, Working
<1>12. AnswerInv'
  BY DEF AnswerInv
<1>13. KnownInv'
  BY WorkingFacts DEF Inv, Untouched, KnownInv, Known
<1>14. TheirsInv'
  <2>1. ASSUME NEW e \in DOMAIN theirs, Firm(e)
        PROVE  e # Entry /\ e \in Entries
    BY <1>2, <2>1 DEF Inv, TypeOK, TheirsInv, Working, Transacts, Entry
  <2> QED BY <1>4, <2>1, WorkingFacts
      DEF Inv, TheirsInv, Firm, Forward, Exchanging, Working, Keeping, Untouched, Transacts, Saver, Entry
<1> QED BY <1>5, <1>6, <1>7, <1>8, <1>9, <1>10, <1>11, <1>12, <1>13, <1>14 DEF Inv

LEMMA WriteStep == Inv /\ Write => Inv'
<1> SUFFICES ASSUME Inv, Write PROVE Inv'
  OBVIOUS
<1>1. Working /\ worker.pc = "write" /\ worker.pc \in Exchanging /\ Untouched
  BY DEF Write, Active, Working, Untouched, Exchanging
<1>2. worker.before # None /\ worker \in Workers
  BY <1>1, LastAttempt, WorkingFacts DEF Inv
<1>3. CASE Store /\ Goto("verify")
  <2>1. Keeping /\ worker'.pc = "verify" /\ worker' # None
    BY <1>2, <1>3, RegistrationAssumption DEF Goto, Workers, Keeping, Steps
  <2> QED BY <1>1, <1>3, <2>1, StoreNext
<1>4. CASE Store /\ Fails
  <2>1. CASE worker.back
    <3>1. Answer(Failure(FALSE))
      BY <1>4, <2>1 DEF Fails
    <3>2. /\ Failure(FALSE) \in Results /\ Failure(FALSE).kind = "inspected"
          /\ ~Failure(FALSE).ok /\ ~Failure(FALSE).value
      BY DEF Failure, Results
    <3> QED BY <1>1, <1>4, <3>1, <3>2, Answers, StoreNext
  <2>2. CASE ~worker.back
    <3>1. Keeping /\ worker'.pc = "undo" /\ worker' # None
      BY <1>2, <1>4, <2>2, RegistrationAssumption DEF Fails, Goto, Workers, Keeping, Steps
    <3> QED BY <1>1, <1>4, <2>2, <3>1, StoreNext
  <2> QED BY <2>1, <2>2
<1>5. CASE os' = os /\ Fails
  BY <1>1, <1>2, <1>5, FailsNext
<1> QED BY <1>3, <1>4, <1>5 DEF Write

LEMMA CompareStep == Inv /\ Compare => Inv'
<1> SUFFICES ASSUME Inv, Compare PROVE Inv'
  OBVIOUS
<1>1. Working /\ worker.pc = "compare" /\ worker.pc \in Exchanging /\ Untouched /\ os' = os
  BY DEF Compare, Active, Working, Untouched, Exchanging
<1>2. worker.before # None /\ worker \in Workers
  BY <1>1, LastAttempt, WorkingFacts DEF Inv
<1>3. CASE Fails
  BY <1>1, <1>2, <1>3, FailsNext
<1>4. CASE Matches(Entry) /\ Goto("write")
  <2>1. Keeping /\ worker'.pc = "write" /\ worker' # None
    BY <1>2, <1>4, RegistrationAssumption DEF Goto, Workers, Keeping, Steps
  <2>2. TypeOK'
    BY <1>1, <2>1 DEF Inv, TypeOK, Untouched, Keeping
  <2>3. WorkerInv'
    BY <1>1, <1>2, <2>1, WorkingFacts
    DEF Inv, WorkerInv, Working, Keeping, Untouched, Saver, Exchanging
  <2>4. JournalInv'
    BY <1>1, <2>1, JournalKept DEF Inv, Working, Untouched
  <2>5. PlanInv'
    BY <1>1, <2>1, PlanKept DEF Inv, Working, Keeping, Forward, Transacts, Untouched, Exchanging
  <2>6. ExchangeInv'
    BY <1>1, <2>1 DEF Inv, ExchangeInv, Working, Keeping, Exchanging
  <2>7. SystemInv'
    BY <1>1, <2>1 DEF Inv, SystemInv, Working, Keeping, Untouched, Transacts, Journaled
  <2>8. KeptInv'
    BY <1>1, <2>1, KeptKept DEF Inv, Working
  <2>9. AnswerInv'
    BY <2>1 DEF AnswerInv
  <2>10. KnownInv'
    BY <1>1, WorkingFacts DEF Inv, KnownInv, Untouched, Known
  <2>11. TheirsInv'
    \* what others have made firm is not what the worker expects
    <3>1. ASSUME NEW e \in DOMAIN theirs, Firm(e) PROVE Entry # e
      <4> SUFFICES ASSUME Entry = e PROVE FALSE
        OBVIOUS
      <4>1. /\ os[e] = theirs[e].value /\ theirs[e].value # worker.before[e]
            /\ theirs[e].value # Last(worker.journal).after
        BY <1>1, <1>2, <3>1, LastAttempt DEF Inv, TheirsInv, Working, Transacts
      <4>2. os[e] = worker.exchange.before
        BY <1>4 DEF Matches
      <4> QED BY <1>1, <4>1, <4>2, LastAttempt
    <3> QED BY <1>1, <2>1, <3>1, WorkingFacts
        DEF Inv, TheirsInv, Firm, Forward, Exchanging, Working, Keeping, Untouched, Transacts, Saver, Entry
  <2> QED BY <2>2, <2>3, <2>4, <2>5, <2>6, <2>7, <2>8, <2>9, <2>10, <2>11 DEF Inv
<1> QED BY <1>3, <1>4 DEF Compare

\* An entry that is not in the journal any more has what was read.
LEMMA Dropping ==
  ASSUME Inv, Working, worker.before # None, worker.journal # <<>>,
         Untouched, os' = os, worker' \in Workers, worker' # None,
         worker'.config = worker.config, worker'.before = worker.before,
         worker'.final = worker.final, worker'.pc = "undo", ~worker'.back,
         worker'.journal = Front(worker.journal),
         LET e == Last(worker.journal).entry
         IN e \notin DOMAIN theirs => Equivalent(e, worker.before[e], os[e])
  PROVE  Inv'
<1> DEFINE n == Len(worker.journal)
           last == Last(worker.journal)
<1>1. worker \in Workers
  BY WorkingFacts DEF Inv
<1>2. /\ n \in Nat \ {0} /\ DOMAIN worker.journal = 1 .. n
      /\ DOMAIN worker'.journal = 1 .. (n - 1) /\ Len(worker'.journal) = n - 1
      /\ \A i \in 1 .. (n - 1) : worker'.journal[i] = worker.journal[i]
      /\ last = worker.journal[n]
  <2>1. worker.journal \in Seq(Changes)
    BY <1>1 DEF Workers
  <2> QED BY SMTT(30), <2>1, DroppingLast
<1>3. last.entry \in Entries
  BY <1>1, DroppingLast, ChangeTyped DEF Workers
<1>4. Transacts /\ Transacts'
  BY DEF Transacts, Working
<1>5. TypeOK'
  BY DEF Inv, TypeOK, Untouched
<1>6. WorkerInv'
  BY WorkingFacts DEF Inv, WorkerInv, Working, Untouched, Saver
<1>7. JournalInv'
  <2>1. \A c, s, e : Goal(c, s, e)' = Goal(c, s, e) /\ Target(c, s)' = Target(c, s)
          /\ Ready(c, s)' = Ready(c, s)
    BY GoalStable, TargetStable DEF Untouched
  <2> SUFFICES ASSUME NEW i \in DOMAIN worker'.journal
               PROVE  LET c == worker.config
                          s == worker.before
                          e == worker'.journal[i].entry
                      IN /\ worker'.journal[i].before = s[e]
                         /\ worker'.journal[i].after \in Contents(e)
                         /\ Equivalent(e, Goal(c, s, e), worker'.journal[i].after)
                         /\ \A j \in DOMAIN worker'.journal : worker'.journal[j].entry = e => j = i
                         /\ Wants(c, s) /\ e # Target(c, s).entry =>
                              Ready(c, s)
                                \/ \E j \in 1 .. (i - 1) : worker'.journal[j].entry = Target(c, s).entry
    BY <2>1 DEF JournalInv
  <2>2. i \in DOMAIN worker.journal /\ i \in 1 .. (n - 1) /\ worker'.journal[i] = worker.journal[i]
    BY <1>2
  <2>3. ASSUME NEW j \in DOMAIN worker'.journal
        PROVE  j \in DOMAIN worker.journal /\ worker'.journal[j] = worker.journal[j]
    BY <1>2
  <2>4. ASSUME NEW j \in 1 .. (i - 1) PROVE worker'.journal[j] = worker.journal[j]
    BY <1>2, <2>2
  <2> QED BY <1>4, <2>2, <2>3, <2>4 DEF Inv, JournalInv
<1>8. PlanInv'
  BY DEF PlanInv, Forward, Exchanging
<1>9. ExchangeInv'
  BY DEF ExchangeInv, Exchanging
<1>10. SystemInv'
  <2>1. ASSUME NEW e \in Entries \ DOMAIN theirs, ~Journaled(e)'
        PROVE  Equivalent(e, worker.before[e], os[e])
    <3>1. CASE e = last.entry
      BY <3>1
    <3>2. CASE e # last.entry
      <4>1. ~Journaled(e)
        BY <1>2, <2>1, <3>2 DEF Journaled
      <4> QED BY <1>4, <4>1 DEF Inv, SystemInv
    <3> QED BY <3>1, <3>2
  <2>2. ASSUME NEW e \in Entries \ DOMAIN theirs, NEW i \in 1 .. (n - 1),
               worker'.journal[i].entry = e
        PROVE  Equivalent(e, worker'.journal[i].after, os[e])
    BY <1>2, <1>4, <2>2 DEF Inv, SystemInv
  <2> QED BY <1>2, <2>1, <2>2 DEF SystemInv, Untouched
<1>11. KeptInv'
  BY <1>4 DEF Inv, KeptInv, Working, Untouched, On
<1>12. AnswerInv'
  BY DEF AnswerInv
<1>13. KnownInv'
  BY WorkingFacts DEF Inv, Untouched, KnownInv, Known
<1>14. TheirsInv'
  <2>1. ~Forward'
    BY DEF Forward, Exchanging
  <2> QED BY SMTT(30), <1>2, <1>4, <2>1, WorkingFacts DEF Inv, TheirsInv, Firm, Working, Untouched
<1> QED BY <1>5, <1>6, <1>7, <1>8, <1>9, <1>10, <1>11, <1>12, <1>13, <1>14 DEF Inv

LEMMA UndoStep == Inv /\ Undo => Inv'
<1> SUFFICES ASSUME Inv, Undo PROVE Inv'
  OBVIOUS
<1> DEFINE last == Last(worker.journal)
<1>1. Working /\ worker.pc = "undo" /\ Untouched /\ os' = os
  BY DEF Undo, Active, Working, Untouched
<1>2. worker \in Workers /\ worker.before # None /\ worker.before \in Snapshots /\ ~worker.back
  BY <1>1, WorkingFacts DEF Inv, WorkerInv, Working, Workers, Exchanging
<1>3. CASE worker.journal = <<>>
  BY <1>1, <1>3, FailureAnswered DEF Undo, Refuse
<1>4. CASE worker.journal # <<>> /\ Answer(Failure(FALSE))
  BY <1>1, <1>4, FailureAnswered
<1>5. CASE /\ worker.journal # <<>>
           /\ os[last.entry] = last.before /\ worker' = [worker EXCEPT !.journal = Front(@)]
  <2>1. worker.journal \in Seq(Changes)
    BY <1>2 DEF Workers
  <2>2. Front(worker.journal) \in Seq(Changes) /\ Len(worker.journal) \in DOMAIN worker.journal
        /\ last = worker.journal[Len(worker.journal)]
    BY <1>5, <2>1, DroppingLast
  <2>3. /\ worker' \in Workers /\ worker' # None /\ worker'.config = worker.config
        /\ worker'.before = worker.before /\ worker'.final = worker.final /\ worker'.pc = "undo"
        /\ ~worker'.back /\ worker'.journal = Front(worker.journal)
    <3>1. worker' \in Workers
      BY <1>2, <1>5, <2>2 DEF Workers
    <3> QED BY <1>1, <1>2, <1>5, <3>1, RegistrationAssumption DEF Workers
  <2>4. Equivalent(last.entry, worker.before[last.entry], os[last.entry])
    BY <1>1, <1>2, <1>5, <2>2, EquivalentReflexive DEF Inv, JournalInv, Working, Transacts
  <2> QED BY <1>1, <1>2, <1>5, <2>3, <2>4, Dropping
<1>6. CASE /\ worker.journal # <<>> /\ os[last.entry] = last.after
           /\ worker' = [worker EXCEPT !.pc = "compare", !.back = TRUE,
                           !.exchange = Change(last.entry, os[last.entry], last.before)]
  <2>1. worker.journal \in Seq(Changes)
    BY <1>2 DEF Workers
  <2>2. /\ last \in Changes /\ Len(worker.journal) \in DOMAIN worker.journal
        /\ last = worker.journal[Len(worker.journal)]
    BY <1>6, <2>1, DroppingLast
  <2>3. last.before = worker.before[last.entry]
    BY <1>1, <1>2, <2>2 DEF Inv, JournalInv, Working, Transacts
  <2>4. Change(last.entry, os[last.entry], last.before) \in Changes
    BY <1>6, <2>2, ChangeTyped
  <2>5. worker' \in Workers
    BY <1>2, <1>6, <2>4 DEF Workers, Steps
  <2>6. /\ worker' # None /\ worker'.config = worker.config /\ worker'.before = worker.before
        /\ worker'.final = worker.final /\ worker'.plan = worker.plan
        /\ worker'.journal = worker.journal /\ worker'.pc = "compare" /\ worker'.back = TRUE
        /\ worker'.exchange = Change(last.entry, last.after, worker.before[last.entry])
    BY <1>2, <1>6, <2>3, <2>5, RegistrationAssumption DEF Workers
  <2>7. Transacts /\ Transacts'
    BY <1>1, <1>2, <2>6 DEF Working, Transacts
  <2>8. TypeOK'
    BY <1>1, <2>5 DEF Inv, TypeOK, Untouched
  <2>9. WorkerInv'
    BY <1>1, <1>2, <2>6, WorkingFacts
    DEF Inv, WorkerInv, Working, Untouched, Saver, Exchanging
  <2>10. JournalInv'
    BY <1>1, <2>6, <2>7, GoalStable, TargetStable DEF Inv, JournalInv, Untouched
  <2>11. PlanInv'
    BY <2>6 DEF PlanInv, Forward
  <2>12. ExchangeInv'
    BY <1>2, <1>6, <2>6 DEF ExchangeInv
  <2>13. SystemInv'
    BY <1>1, <2>6, <2>7 DEF Inv, SystemInv, Untouched, Journaled
  <2>14. KeptInv'
    BY <1>1, <2>6, <2>7 DEF Inv, KeptInv, Working, Untouched, On
  <2>15. AnswerInv'
    BY <2>6 DEF AnswerInv
  <2>16. KnownInv'
    BY <1>1, WorkingFacts DEF Inv, KnownInv, Untouched, Known
  <2>17. TheirsInv'
    BY <1>1, <2>6, <2>7, WorkingFacts DEF Inv, TheirsInv, Firm, Forward, Working, Untouched
  <2> QED BY <2>8, <2>9, <2>10, <2>11, <2>12, <2>13, <2>14, <2>15, <2>16, <2>17 DEF Inv
<1> QED BY <1>3, <1>4, <1>5, <1>6 DEF Undo

LEMMA VerifyStep == Inv /\ Verify => Inv'
<1> SUFFICES ASSUME Inv, Verify PROVE Inv'
  OBVIOUS
<1> DEFINE n == Len(worker.journal)
           last == Last(worker.journal)
<1>1. Working /\ worker.pc = "verify" /\ worker.pc \in Exchanging /\ Untouched /\ os' = os
  BY DEF Verify, Active, Working, Untouched, Exchanging
<1>2. /\ worker.before # None /\ worker \in Workers /\ worker.journal \in Seq(Changes)
      /\ worker.journal # <<>> /\ n \in DOMAIN worker.journal /\ last = worker.journal[n]
      /\ Entry = last.entry /\ Entry \in Entries /\ last.before = worker.before[Entry]
      /\ Value = IF worker.back THEN worker.before[Entry] ELSE last.after
      /\ DOMAIN worker.journal = 1 .. n /\ last \in Changes
  BY <1>1, LastAttempt, DroppingLast, WorkingFacts DEF Inv
<1>3. CASE Fails
  BY <1>1, <1>2, <1>3, FailsNext
<1>4. CASE /\ Equivalent(Entry, Value, os[Entry]) /\ worker.back
           /\ worker' = [worker EXCEPT !.pc = "undo", !.journal = Front(@), !.back = FALSE]
  <2>1. Front(worker.journal) \in Seq(Changes)
    BY <1>2, DroppingLast
  <2>2. worker' \in Workers
    BY <1>2, <1>4, <2>1 DEF Workers, Steps
  <2>3. /\ worker' # None /\ worker'.config = worker.config
        /\ worker'.before = worker.before /\ worker'.final = worker.final /\ worker'.pc = "undo"
        /\ ~worker'.back /\ worker'.journal = Front(worker.journal)
    BY <1>2, <1>4, <2>2, RegistrationAssumption DEF Workers
  <2> QED BY <1>1, <1>2, <1>4, <2>2, <2>3, Dropping
<1>5. CASE /\ Equivalent(Entry, Value, os[Entry]) /\ ~worker.back
           /\ worker' = [worker EXCEPT !.pc = "change", !.journal[Len(worker.journal)].after = os[Entry]]
  <2> DEFINE new == [last EXCEPT !.after = os[Entry]]
  <2>1. os[Entry] \in Contents(Entry)
    BY <1>2, SnapshotContents DEF Inv, TypeOK
  <2>2. new \in Changes /\ new.entry = Entry /\ new.before = last.before /\ new.after = os[Entry]
    <3>1. last = Change(Entry, last.before, last.after) /\ last.before \in Contents(Entry)
      BY <1>2, ChangeTyped
    <3>2. new = Change(Entry, last.before, os[Entry])
      BY <3>1 DEF Change
    <3> QED BY <1>2, <2>1, <3>1, <3>2, ChangeTyped DEF Change
  <2>3. worker' = [worker EXCEPT !.pc = "change", !.journal = [worker.journal EXCEPT ![n] = new]]
    BY <1>2, <1>5
  <2>4. /\ [worker.journal EXCEPT ![n] = new] \in Seq(Changes)
        /\ Len([worker.journal EXCEPT ![n] = new]) = n
        /\ DOMAIN [worker.journal EXCEPT ![n] = new] = DOMAIN worker.journal
        /\ \A i \in DOMAIN worker.journal :
             [worker.journal EXCEPT ![n] = new][i] = IF i = n THEN new ELSE worker.journal[i]
    BY <1>2, <2>2, ChangingLast
  <2>5. worker' \in Workers
    BY <1>2, <2>3, <2>4 DEF Workers, Steps
  <2>6. /\ worker' # None /\ worker'.config = worker.config /\ worker'.before = worker.before
        /\ worker'.final = worker.final /\ worker'.plan = worker.plan
        /\ worker'.pc = "change" /\ ~worker'.back
        /\ worker'.journal = [worker.journal EXCEPT ![n] = new]
    BY <1>2, <1>5, <2>3, <2>5, RegistrationAssumption DEF Workers
  <2>7. /\ DOMAIN worker'.journal = DOMAIN worker.journal /\ Len(worker'.journal) = n
        /\ \A i \in DOMAIN worker.journal :
             /\ worker'.journal[i].entry = worker.journal[i].entry
             /\ worker'.journal[i].before = worker.journal[i].before
             /\ i # n => worker'.journal[i] = worker.journal[i]
        /\ worker'.journal[n].after = os[Entry]
    BY <1>2, <2>2, <2>4, <2>6
  <2>8. Transacts /\ Transacts' /\ Forward /\ Forward'
    BY <1>1, <1>2, <1>5, <2>6 DEF Working, Transacts, Forward
  <2>9. TypeOK'
    BY <1>1, <2>5 DEF Inv, TypeOK, Untouched
  <2>10. WorkerInv'
    BY <1>1, <1>2, <2>6, WorkingFacts
    DEF Inv, WorkerInv, Working, Untouched, Saver, Exchanging
  <2>11. \A c, s, e : Goal(c, s, e)' = Goal(c, s, e) /\ Target(c, s)' = Target(c, s)
          /\ Ready(c, s)' = Ready(c, s)
    BY <1>1, GoalStable, TargetStable DEF Untouched
  <2>12. JournalInv'
    <3> SUFFICES ASSUME NEW i \in DOMAIN worker.journal
                 PROVE  LET c == worker.config
                            s == worker.before
                            e == worker.journal[i].entry
                        IN /\ worker'.journal[i].before = s[e]
                           /\ worker'.journal[i].after \in Contents(e)
                           /\ Equivalent(e, Goal(c, s, e), worker'.journal[i].after)
                           /\ \A j \in DOMAIN worker.journal : worker'.journal[j].entry = e => j = i
                           /\ Wants(c, s) /\ e # Target(c, s).entry =>
                                Ready(c, s)
                                  \/ \E j \in 1 .. (i - 1) : worker'.journal[j].entry = Target(c, s).entry
      BY <2>6, <2>7, <2>11 DEF JournalInv
    <3>1. CASE i = n
      <4>1. Equivalent(Entry, Goal(worker.config, worker.before, Entry), os[Entry])
        <5>1. Equivalent(Entry, Goal(worker.config, worker.before, Entry), last.after)
          BY <1>2, <2>8 DEF Inv, JournalInv
        <5> QED BY <1>2, <1>5, <5>1, EquivalentTransitive
      <4>2. \A j \in 1 .. (i - 1) : j \in DOMAIN worker.journal
        BY <1>2, <3>1
      <4> QED BY <1>2, <2>1, <2>7, <2>8, <3>1, <4>1, <4>2 DEF Inv, JournalInv
    <3>2. CASE i # n
      <4>1. \A j \in 1 .. (i - 1) : j \in DOMAIN worker.journal
        BY <1>2
      <4> QED BY <2>7, <2>8, <3>2, <4>1 DEF Inv, JournalInv
    <3> QED BY <3>1, <3>2
  <2>13. \A e : Journaled(e)' <=> Journaled(e)
    BY <2>7 DEF Journaled
  <2>14. PlanInv'
    BY <2>6, <2>8, <2>11, <2>13 DEF Inv, PlanInv, Planned
  <2>15. ExchangeInv'
    BY <2>6 DEF ExchangeInv, Exchanging
  <2>16. SystemInv'
    <3>1. ASSUME NEW e \in Entries \ DOMAIN theirs, NEW i \in DOMAIN worker.journal,
                 worker.journal[i].entry = e
          PROVE  Equivalent(e, worker'.journal[i].after, os[e])
      <4>1. CASE i = n
        BY <1>2, <2>7, <3>1, <4>1, EquivalentReflexive
      <4>2. CASE i # n
        BY <2>7, <2>8, <3>1, <4>2 DEF Inv, SystemInv
      <4> QED BY <4>1, <4>2
    <3> QED BY <1>1, <2>6, <2>7, <2>8, <2>13, <3>1 DEF Inv, SystemInv, Untouched
  <2>17. KeptInv'
    BY <1>1, <2>6, <2>8 DEF Inv, KeptInv, Working, Untouched, On
  <2>18. AnswerInv'
    BY <2>6 DEF AnswerInv
  <2>19. KnownInv'
    BY <1>1, WorkingFacts DEF Inv, KnownInv, Untouched, Known
  <2>20. TheirsInv'
    \* what was verified is not what others have settled
    <3>1. ASSUME NEW e \in DOMAIN theirs, Firm(e) PROVE Entry # e
      BY <1>1, <1>2, <1>5, <2>8, <3>1, EquivalentSymmetric DEF Inv, TheirsInv, Entry, Value
    <3> QED BY <1>1, <1>2, <2>6, <2>7, <2>8, <3>1, WorkingFacts DEF Inv, TheirsInv, Firm, Forward, Working, Untouched
  <2> QED BY <2>9, <2>10, <2>12, <2>14, <2>15, <2>16, <2>17, <2>18, <2>19, <2>20 DEF Inv
<1> QED BY <1>3, <1>4, <1>5 DEF Verify

(***************************************************************************)
(* The next change.                                                        *)
(***************************************************************************)
LEMMA AtChange ==
  ASSUME Inv, Active("change")
  PROVE  /\ Working /\ worker \in Workers /\ Forward /\ Transacts
         /\ worker.before \in Snapshots /\ worker.config \in Preferences
         /\ ~worker.back /\ worker.plan \in Seq(Changes) /\ worker.journal \in Seq(Changes)
<1>1. Working /\ worker \in Workers
  BY WorkingFacts DEF Inv, Active, Working
<1> QED BY <1>1 DEF Inv, Active, WorkerInv, Transacts, Forward, Workers, Exchanging

\* An entry is already as it is to become.
LEMMA SkipNext ==
  ASSUME Inv, Active("change"), Untouched, os' = os, worker.plan # <<>>,
         Head(worker.plan).before = Head(worker.plan).after,
         worker' = [worker EXCEPT !.plan = Tail(@)]
  PROVE  Inv'
<1> DEFINE n == Len(worker.plan)
           c == worker.config
           s == worker.before
<1>1. /\ n \in Nat \ {0} /\ DOMAIN worker.plan = 1 .. n /\ Head(worker.plan) = worker.plan[1]
      /\ Tail(worker.plan) \in Seq(Changes)
      /\ DOMAIN Tail(worker.plan) = 1 .. (n - 1)
      /\ \A i \in 1 .. (n - 1) : Tail(worker.plan)[i] = worker.plan[i + 1]
  BY AtChange, DroppingFirst
<1>2. worker' \in Workers
  BY <1>1, AtChange DEF Workers
<1>3. /\ worker' # None /\ worker'.config = c /\ worker'.before = s /\ worker'.pc = "change"
      /\ worker'.final = worker.final /\ worker'.journal = worker.journal /\ ~worker'.back
      /\ worker'.plan = Tail(worker.plan)
  BY <1>2, AtChange, RegistrationAssumption DEF Workers, Active
<1>4. Transacts' /\ Forward' /\ Working /\ Transacts /\ Forward
  BY <1>3, AtChange DEF Transacts, Forward
<1>5. TypeOK'
  BY <1>2 DEF Inv, TypeOK, Untouched
<1>6. WorkerInv'
  BY <1>3, <1>4, AtChange, WorkingFacts DEF Inv, WorkerInv, Transacts, Working, Untouched, Saver
<1>7. \A a, b, e : Goal(a, b, e)' = Goal(a, b, e) /\ Target(a, b)' = Target(a, b)
        /\ Ready(a, b)' = Ready(a, b)
  BY GoalStable, TargetStable DEF Untouched
<1>8. JournalInv'
  BY <1>3, <1>4, <1>7 DEF Inv, JournalInv
<1>9. s[worker.plan[1].entry] = Goal(c, s, worker.plan[1].entry)
  BY <1>1, <1>4 DEF Inv, PlanInv
<1>10. PlanInv'
  <2>1. \A e : Journaled(e)' <=> Journaled(e)
    BY <1>3 DEF Journaled
  <2>2. ASSUME NEW i \in 1 .. (n - 1)
        PROVE  LET e == worker.plan[i + 1].entry
               IN /\ worker.plan[i + 1].before = s[e] /\ worker.plan[i + 1].after = Goal(c, s, e)
                  /\ ~Journaled(e)
                  /\ \A j \in 1 .. (n - 1) : worker.plan[j + 1].entry = e => j = i
                  /\ Wants(c, s) /\ e # Target(c, s).entry =>
                       \/ Ready(c, s) \/ Journaled(Target(c, s).entry)
                       \/ \E j \in 1 .. (i - 1) : worker.plan[j + 1].entry = Target(c, s).entry
    <3>1. i + 1 \in DOMAIN worker.plan /\ \A j \in 1 .. (n - 1) : j + 1 \in DOMAIN worker.plan
      BY <1>1
    <3> DEFINE e == worker.plan[i + 1].entry
    <3>2. /\ worker.plan[i + 1].before = s[e] /\ worker.plan[i + 1].after = Goal(c, s, e)
          /\ ~Journaled(e)
          /\ \A j \in 1 .. (n - 1) : worker.plan[j + 1].entry = e => j = i
      BY <1>1, <1>4, <3>1 DEF Inv, PlanInv
    <3>3. ASSUME Wants(c, s), e # Target(c, s).entry, ~Ready(c, s), ~Journaled(Target(c, s).entry)
          PROVE  \E j \in 1 .. (i - 1) : worker.plan[j + 1].entry = Target(c, s).entry
      <4>1. PICK k \in 1 .. ((i + 1) - 1) : worker.plan[k].entry = Target(c, s).entry
        BY <1>4, <3>1, <3>3 DEF Inv, PlanInv
      <4>2. k # 1
        BY <1>9, <3>3, <4>1 DEF Goal, Ready
      <4>3. k - 1 \in 1 .. (i - 1) /\ (k - 1) + 1 = k
        BY <1>1, <4>2
      <4> QED BY <4>1, <4>3
    <3> QED BY <3>2, <3>3
  <2>3. ASSUME NEW i \in 1 .. (n - 1)
        PROVE  \A j \in 1 .. (i - 1) : Tail(worker.plan)[j] = worker.plan[j + 1]
    BY <1>1
  <2>4. ASSUME NEW e \in Entries, ~Planned(e)', ~Journaled(e)
        PROVE  s[e] = Goal(c, s, e)
    <3>1. CASE worker.plan[1].entry = e
      BY <1>9, <3>1
    <3>2. CASE worker.plan[1].entry # e
      <4>1. ~Planned(e)
        <5>1. SUFFICES ASSUME NEW i \in DOMAIN worker.plan, worker.plan[i].entry = e PROVE FALSE
          BY DEF Planned
        <5>2. i - 1 \in 1 .. (n - 1) /\ Tail(worker.plan)[i - 1] = worker.plan[i]
          BY <1>1, <3>2, <5>1
        <5> QED BY <1>1, <1>3, <2>4, <5>1, <5>2 DEF Planned
      <4> QED BY <1>4, <2>4, <4>1 DEF Inv, PlanInv
    <3> QED BY <3>1, <3>2
  <2> QED BY <1>1, <1>3, <1>7, <2>1, <2>2, <2>3, <2>4 DEF PlanInv
<1>11. ExchangeInv'
  BY <1>3 DEF ExchangeInv, Exchanging
<1>12. SystemInv'
  BY <1>3, <1>4, AtChange DEF Inv, SystemInv, Untouched, Journaled, Active
<1>13. KeptInv'
  BY <1>3, <1>4 DEF Inv, KeptInv, Working, Untouched, On
<1>14. AnswerInv'
  BY <1>3 DEF AnswerInv
<1>15. KnownInv'
  BY <1>4, WorkingFacts DEF Inv, KnownInv, Untouched, Known
<1>16. TheirsInv'
  BY <1>1, <1>3, <1>4, WorkingFacts DEF Inv, TheirsInv, Firm, Forward, Working, Untouched
<1> QED BY <1>5, <1>6, <1>8, <1>10, <1>11, <1>12, <1>13, <1>14, <1>15, <1>16 DEF Inv

\* Nothing is left to change: the entries are read once more.
LEMMA FinalNext ==
  ASSUME Inv, Active("change"), Untouched, os' = os, worker.plan = <<>>,
         worker' = [worker EXCEPT !.pc = "run", !.final = TRUE]
  PROVE  Inv'
<1>1. worker' \in Workers
  BY AtChange DEF Workers, Steps
<1>2. /\ worker' # None /\ worker'.config = worker.config /\ worker'.before = worker.before
      /\ worker'.pc = "run" /\ worker'.final = TRUE /\ worker'.journal = worker.journal
      /\ ~worker'.back /\ worker'.plan = worker.plan
  BY <1>1, AtChange, RegistrationAssumption DEF Workers, Active
<1>3. Transacts' /\ Forward' /\ Working /\ Transacts /\ Forward /\ worker.pc = "change"
  BY <1>2, AtChange DEF Transacts, Forward, Active
<1>4. TypeOK'
  BY <1>1 DEF Inv, TypeOK, Untouched
<1>5. WorkerInv'
  BY <1>2, <1>3, WorkingFacts DEF Inv, WorkerInv, Transacts, Working, Untouched, Saver
<1>6. JournalInv'
  BY <1>2, <1>3, GoalStable, TargetStable DEF Inv, JournalInv, Untouched
<1>7. PlanInv'
  BY <1>2, <1>3, GoalStable, TargetStable DEF Inv, PlanInv, Untouched, Journaled, Planned
<1>8. ExchangeInv'
  BY <1>2 DEF ExchangeInv, Exchanging
<1>9. SystemInv'
  BY <1>2, <1>3 DEF Inv, SystemInv, Untouched, Journaled
<1>10. KeptInv'
  BY <1>2, <1>3 DEF Inv, KeptInv, Working, Untouched, On
<1>11. AnswerInv'
  BY <1>2 DEF AnswerInv
<1>12. KnownInv'
  BY <1>3, WorkingFacts DEF Inv, KnownInv, Untouched, Known
<1>13. TheirsInv'
  BY <1>2, <1>3, WorkingFacts DEF Inv, TheirsInv, Firm, Forward, Working, Untouched
<1> QED BY <1>4, <1>5, <1>6, <1>7, <1>8, <1>9, <1>10, <1>11, <1>12, <1>13 DEF Inv

\* The next change of the plan is journalled and tried.
LEMMA AttemptNext ==
  ASSUME Inv, Active("change"), Untouched, os' = os, worker.plan # <<>>,
         Head(worker.plan).before # Head(worker.plan).after,
         worker' = [worker EXCEPT !.pc = "compare", !.plan = Tail(@),
                                  !.journal = Append(worker.journal, Head(worker.plan)),
                                  !.exchange = Head(worker.plan)]
  PROVE  Inv'
<1> DEFINE n == Len(worker.plan)
           m == Len(worker.journal)
           c == worker.config
           s == worker.before
           head == worker.plan[1]
<1>1. /\ n \in Nat \ {0} /\ DOMAIN worker.plan = 1 .. n /\ Head(worker.plan) = head
      /\ Tail(worker.plan) \in Seq(Changes)
      /\ DOMAIN Tail(worker.plan) = 1 .. (n - 1)
      /\ \A i \in 1 .. (n - 1) : Tail(worker.plan)[i] = worker.plan[i + 1]
      /\ head \in Changes
  BY AtChange, DroppingFirst
<1>2. /\ m \in Nat /\ DOMAIN worker.journal = 1 .. m
      /\ Append(worker.journal, head) \in Seq(Changes) /\ Append(worker.journal, head) # <<>>
      /\ Len(Append(worker.journal, head)) = m + 1
      /\ DOMAIN Append(worker.journal, head) = 1 .. (m + 1)
      /\ \A i \in 1 .. m : Append(worker.journal, head)[i] = worker.journal[i]
      /\ Append(worker.journal, head)[m + 1] = head
      /\ Last(Append(worker.journal, head)) = head
  <2>1. worker.journal \in Seq(Changes)
    BY AtChange
  <2> QED BY <1>1, <2>1, Appending
<1>3. worker' \in Workers
  BY <1>1, <1>2, AtChange DEF Workers, Steps
<1>4. /\ worker' # None /\ worker'.config = c /\ worker'.before = s /\ worker'.pc = "compare"
      /\ worker'.final = worker.final /\ worker'.journal = Append(worker.journal, head)
      /\ ~worker'.back /\ worker'.plan = Tail(worker.plan) /\ worker'.exchange = head
  BY <1>1, <1>3, AtChange, RegistrationAssumption DEF Workers, Active
<1>5. Transacts' /\ Forward' /\ Working /\ Transacts /\ Forward /\ worker.pc = "change"
  BY <1>4, AtChange DEF Transacts, Forward, Active, Exchanging
<1>6. TypeOK'
  BY <1>3 DEF Inv, TypeOK, Untouched
<1>7. WorkerInv'
  BY <1>4, <1>5, WorkingFacts DEF Inv, WorkerInv, Transacts, Working, Untouched, Saver, Exchanging
<1>8. \A a, b, e : Goal(a, b, e)' = Goal(a, b, e) /\ Target(a, b)' = Target(a, b)
        /\ Ready(a, b)' = Ready(a, b)
  BY GoalStable, TargetStable DEF Untouched
<1>9. /\ head.before = s[head.entry] /\ head.after = Goal(c, s, head.entry)
      /\ ~Journaled(head.entry) /\ head.entry \in Entries
      /\ \A j \in 1 .. n : worker.plan[j].entry = head.entry => j = 1
      /\ Wants(c, s) /\ head.entry # Target(c, s).entry =>
           Ready(c, s) \/ Journaled(Target(c, s).entry)
  <2>1. 1 \in DOMAIN worker.plan /\ ~\E j \in 1 .. (1 - 1) : TRUE
    BY <1>1
  <2> QED BY <1>1, <1>5, <2>1, ChangeTyped DEF Inv, PlanInv
<1>10. \A e : Journaled(e)' <=> Journaled(e) \/ e = head.entry
  BY <1>2, <1>4 DEF Journaled
<1>11. JournalInv'
  <2> SUFFICES ASSUME NEW i \in 1 .. (m + 1)
               PROVE  LET change == worker'.journal[i]
                          e == change.entry
                      IN /\ change.before = s[e]
                         /\ change.after \in Contents(e)
                         /\ Equivalent(e, Goal(c, s, e), change.after)
                         /\ \A j \in 1 .. (m + 1) : worker'.journal[j].entry = e => j = i
                         /\ Wants(c, s) /\ e # Target(c, s).entry =>
                              Ready(c, s)
                                \/ \E j \in 1 .. (i - 1) : worker'.journal[j].entry = Target(c, s).entry
    BY <1>2, <1>4, <1>8 DEF JournalInv
  <2>1. CASE i = m + 1
    <3>1. worker'.journal[i] = head
      BY <1>2, <1>4, <2>1
    <3>2. head.after \in Contents(head.entry)
      BY <1>1, ChangeTyped
    <3>3. \A j \in 1 .. (m + 1) : worker'.journal[j].entry = head.entry => j = i
      BY <1>2, <1>4, <1>9, <2>1 DEF Journaled
    <3>4. Journaled(Target(c, s).entry) =>
            \E j \in 1 .. (i - 1) : worker'.journal[j].entry = Target(c, s).entry
      BY <1>2, <1>4, <2>1 DEF Journaled
    <3> QED BY <1>9, <3>1, <3>2, <3>3, <3>4, EquivalentReflexive
  <2>2. CASE i \in 1 .. m
    <3>1. worker'.journal[i] = worker.journal[i] /\ i \in DOMAIN worker.journal
      BY <1>2, <1>4, <2>2
    <3>2. ASSUME NEW j \in 1 .. (m + 1), worker'.journal[j].entry = worker.journal[i].entry PROVE j = i
      <4>1. CASE j = m + 1
        BY <1>2, <1>4, <1>9, <3>1, <3>2, <4>1 DEF Journaled
      <4>2. CASE j \in 1 .. m
        BY <1>2, <1>4, <1>5, <3>1, <3>2, <4>2 DEF Inv, JournalInv
      <4> QED BY <1>2, <4>1, <4>2
    <3>3. \A j \in 1 .. (i - 1) : worker'.journal[j] = worker.journal[j]
      BY <1>2, <1>4, <2>2
    <3> QED BY <1>5, <3>1, <3>2, <3>3 DEF Inv, JournalInv
  <2> QED BY <1>2, <2>1, <2>2
<1>12. PlanInv'
  <2>1. ASSUME NEW i \in 1 .. (n - 1)
        PROVE  LET e == worker.plan[i + 1].entry
               IN /\ worker.plan[i + 1].before = s[e] /\ worker.plan[i + 1].after = Goal(c, s, e)
                  /\ ~Journaled(e) /\ e # head.entry
                  /\ \A j \in 1 .. (n - 1) : worker.plan[j + 1].entry = e => j = i
                  /\ Wants(c, s) /\ e # Target(c, s).entry =>
                       \/ Ready(c, s) \/ Journaled(Target(c, s).entry)
                       \/ Target(c, s).entry = head.entry
                       \/ \E j \in 1 .. (i - 1) : worker.plan[j + 1].entry = Target(c, s).entry
    <3>1. /\ i + 1 \in DOMAIN worker.plan /\ i + 1 # 1
          /\ \A j \in 1 .. (n - 1) : j + 1 \in DOMAIN worker.plan
      BY <1>1
    <3> DEFINE e == worker.plan[i + 1].entry
    <3>2. /\ worker.plan[i + 1].before = s[e] /\ worker.plan[i + 1].after = Goal(c, s, e)
          /\ ~Journaled(e)
          /\ \A j \in 1 .. (n - 1) : worker.plan[j + 1].entry = e => j = i
      BY <1>1, <1>5, <3>1 DEF Inv, PlanInv
    <3>3. e # head.entry
      BY <1>1, <1>9, <3>1
    <3>4. ASSUME Wants(c, s), e # Target(c, s).entry, ~Ready(c, s),
                 ~Journaled(Target(c, s).entry), Target(c, s).entry # head.entry
          PROVE  \E j \in 1 .. (i - 1) : worker.plan[j + 1].entry = Target(c, s).entry
      <4>1. PICK k \in 1 .. ((i + 1) - 1) : worker.plan[k].entry = Target(c, s).entry
        BY <1>5, <3>1, <3>4 DEF Inv, PlanInv
      <4>2. k # 1
        BY <3>4, <4>1
      <4>3. k - 1 \in 1 .. (i - 1) /\ (k - 1) + 1 = k
        BY <1>1, <4>2
      <4> QED BY <4>1, <4>3
    <3> QED BY <3>2, <3>3, <3>4
  <2>2. ASSUME NEW i \in 1 .. (n - 1)
        PROVE  \A j \in 1 .. (i - 1) : Tail(worker.plan)[j] = worker.plan[j + 1]
    BY <1>1
  <2>3. ASSUME NEW e \in Entries, ~Planned(e)', ~Journaled(e)'
        PROVE  s[e] = Goal(c, s, e)
    <3>1. ~Planned(e)
      <4>1. SUFFICES ASSUME NEW i \in DOMAIN worker.plan, worker.plan[i].entry = e PROVE FALSE
        BY DEF Planned
      <4>2. i # 1
        BY <1>10, <2>3, <4>1
      <4>3. i - 1 \in 1 .. (n - 1) /\ Tail(worker.plan)[i - 1] = worker.plan[i]
        BY <1>1, <4>1, <4>2
      <4> QED BY <1>1, <1>4, <2>3, <4>1, <4>3 DEF Planned
    <3> QED BY <1>5, <1>10, <2>3, <3>1 DEF Inv, PlanInv
  <2> QED BY <1>1, <1>4, <1>8, <1>10, <2>1, <2>2, <2>3 DEF PlanInv
<1>13. ExchangeInv'
  BY <1>2, <1>4, <1>5 DEF ExchangeInv, Transacts
<1>14. SystemInv'
  <2>1. ASSUME NEW e \in Entries \ DOMAIN theirs, ~Journaled(e)'
        PROVE  Equivalent(e, s[e], os[e])
    BY <1>5, <1>10, <2>1 DEF Inv, SystemInv
  <2>2. ASSUME NEW e \in Entries \ DOMAIN theirs, NEW i \in 1 .. m, worker.journal[i].entry = e
        PROVE  Equivalent(e, worker.journal[i].after, os[e])
    BY <1>2, <1>5, <2>2 DEF Inv, SystemInv
  <2>3. ASSUME NEW e \in Entries \ DOMAIN theirs, head.entry = e
        PROVE  Equivalent(e, s[e], os[e])
    BY <1>5, <1>9, <2>3 DEF Inv, SystemInv
  <2> QED BY <1>2, <1>4, <2>1, <2>2, <2>3 DEF SystemInv, Untouched
<1>15. KeptInv'
  BY <1>4, <1>5 DEF Inv, KeptInv, Working, Untouched, On
<1>16. AnswerInv'
  BY <1>4 DEF AnswerInv
<1>17. KnownInv'
  BY <1>5, WorkingFacts DEF Inv, KnownInv, Untouched, Known
<1>18. TheirsInv'
  \* what the worker is about to put there is nothing others put there
  <2>1. ASSUME NEW e \in DOMAIN theirs, Firm(e), head.entry = e
        PROVE  theirs[e].value # head.after
    BY <1>1, <1>5, <2>1 DEF Inv, TheirsInv
  <2> QED BY <1>1, <1>2, <1>4, <1>5, <2>1, WorkingFacts DEF Inv, TheirsInv, Firm, Forward, Working, Untouched
<1> QED BY <1>6, <1>7, <1>11, <1>12, <1>13, <1>14, <1>15, <1>16, <1>17, <1>18 DEF Inv

LEMMA NextChangeStep == Inv /\ NextChange => Inv'
<1> SUFFICES ASSUME Inv, NextChange PROVE Inv'
  OBVIOUS
<1>1. Active("change") /\ Untouched /\ os' = os
  BY DEF NextChange, Untouched
<1>2. CASE worker.plan # <<>> /\ Head(worker.plan).before = Head(worker.plan).after
  BY <1>1, <1>2, SkipNext DEF NextChange
<1>3. CASE Goto("undo")
  BY <1>1, <1>3, AtChange, UndoNext DEF Transacts
<1>4. CASE ~(worker.plan # <<>> /\ Head(worker.plan).before = Head(worker.plan).after)
           /\ Current /\ ~Goto("undo") /\ worker.plan = <<>>
  BY <1>1, <1>4, FinalNext DEF NextChange
<1>5. CASE ~(worker.plan # <<>> /\ Head(worker.plan).before = Head(worker.plan).after)
           /\ Current /\ ~Goto("undo") /\ worker.plan # <<>>
  BY <1>1, <1>5, AttemptNext DEF NextChange, Journalled
<1> QED BY <1>2, <1>3, <1>4, <1>5 DEF NextChange

(***************************************************************************)
(* The entries are read, before and after the changes.                     *)
(***************************************************************************)
LEMMA ReadRunStep == Inv /\ ReadRun => Inv'
<1> SUFFICES ASSUME Inv, ReadRun PROVE Inv'
  OBVIOUS
<1>1. Working /\ worker.pc = "run" /\ Untouched /\ os' = os /\ worker \in Workers
  <2>1. Working
    BY DEF ReadRun, Active, Working
  <2> QED BY <2>1, WorkingFacts DEF Inv, ReadRun, Active, Untouched
<1>2. /\ worker.before = None => ~worker.final
      /\ worker.before # None => worker.final /\ worker.plan = <<>>
      /\ ~worker.back
  BY <1>1 DEF Inv, WorkerInv, Working, Exchanging
<1>3. CASE worker' = [worker EXCEPT !.pc = "task", !.read = os.run]
  <2>1. os.run \in Runs \cup {None}
    BY DEF Inv, TypeOK, Snapshots
  <2>2. worker' \in Workers
    BY <1>1, <1>3, <2>1 DEF Workers, Steps
  <2>3. Keeping /\ worker'.pc = "task" /\ worker'.read = os.run /\ worker' # None
    BY <1>1, <1>3, <2>2, RegistrationAssumption DEF Workers, Keeping
  <2>4. TypeOK'
    BY <1>1, <2>2 DEF Inv, TypeOK, Untouched
  <2>5. WorkerInv'
    BY <1>1, <1>2, <2>3, WorkingFacts DEF Inv, WorkerInv, Working, Keeping, Untouched, Saver
  <2>6. JournalInv'
    BY <1>1, <2>3, JournalKept DEF Inv, Working, Untouched
  <2>7. PlanInv'
    BY <1>1, <2>3, PlanKept DEF Inv, Working, Keeping, Forward, Transacts, Untouched
  <2>8. ExchangeInv'
    BY <2>3 DEF ExchangeInv, Exchanging
  <2>9. SystemInv'
    BY <1>1, <2>3 DEF Inv, SystemInv, Working, Keeping, Untouched, Transacts, Journaled
  <2>10. KeptInv'
    BY <1>1, <2>3, KeptKept DEF Inv, Working
  <2>11. AnswerInv'
    BY <2>3 DEF AnswerInv
  <2>12. KnownInv'
    BY <1>1, WorkingFacts DEF Inv, KnownInv, Untouched, Known
  <2>13. TheirsInv'
    BY <1>1, <2>3, WorkingFacts DEF Inv, TheirsInv, Firm, Forward, Working, Keeping, Untouched, Transacts, Saver
  <2> QED BY <2>4, <2>5, <2>6, <2>7, <2>8, <2>9, <2>10, <2>11, <2>12, <2>13 DEF Inv
<1>4. CASE worker.final /\ Goto("undo")
  BY <1>1, <1>2, <1>4, UndoNext
<1>5. CASE ~worker.final /\ Refuse
  BY <1>1, <1>2, <1>5, FailureAnswered DEF Refuse
<1> QED BY <1>3, <1>4, <1>5 DEF ReadRun

\* The snapshot of the worker.
Seen == [run |-> worker.read, task |-> os.task]

LEMMA SeenShape ==
  ASSUME Inv, Active("task")
  PROVE  /\ Seen \in Snapshots
         /\ \A e \in Entries \ DOMAIN theirs : Seen[e] = os[e]
         /\ DOMAIN theirs = {} => Enabled(Seen) = Enabled(os) /\ (On(os) => On(Seen))
<1>1. worker \in Workers /\ ("run" \notin DOMAIN theirs => worker.read = os.run)
  BY DEF Inv, TypeOK, WorkerInv, Active
<1>2. Seen.run = worker.read /\ Seen.task = os.task
  BY DEF Seen
<1>3. Seen \in Snapshots
  BY <1>1 DEF Inv, TypeOK, Snapshots, Workers, Seen
<1> QED BY <1>1, <1>2, <1>3 DEF Entries, Enabled, On

\* A transaction begins with what was read.
LEMMA BeginNext ==
  ASSUME Inv, Active("task"), Untouched, os' = os, ~worker.final, ~Foreign(Seen),
         worker' = [worker EXCEPT !.pc = "change", !.before = Seen, !.plan = Plan(worker.config, Seen)]
  PROVE  Inv'
<1> DEFINE c == worker.config
<1>1. Working /\ worker \in Workers /\ c \in Preferences /\ worker.pc = "task"
  BY WorkingFacts DEF Inv, Active, Working, Workers
<1>2. worker.before = None /\ ~worker.back /\ worker.journal = <<>>
  BY <1>1 DEF Inv, WorkerInv, Working
<1>3. Seen \in Snapshots /\ Seen # None
  BY SeenShape, RegistrationAssumption
<1>4. admin \in BOOLEAN
  BY DEF Inv, TypeOK
<1>5. worker' \in Workers
  BY <1>1, <1>3, <1>4, PlanShape DEF Workers, Steps
<1>6. /\ worker' # None /\ worker'.config = c /\ worker'.before = Seen /\ worker'.pc = "change"
      /\ worker'.final = worker.final /\ worker'.journal = <<>>
      /\ ~worker'.back /\ worker'.plan = Plan(c, Seen)
  BY ZenonT(30), <1>1, <1>2, <1>5, RegistrationAssumption DEF Workers
<1>7. DOMAIN worker'.journal = {}
  BY <1>6, EmptyDomain
<1>8. Transacts'
  BY <1>3, <1>6 DEF Transacts
<1>9. TypeOK'
  BY <1>5 DEF Inv, TypeOK, Untouched
<1>10. WorkerInv'
  BY <1>1, <1>3, <1>6, WorkingFacts DEF WorkerInv, Working, Untouched, Saver, Foreign, Inv
<1>11. \A a, b, e : Goal(a, b, e)' = Goal(a, b, e) /\ Target(a, b)' = Target(a, b)
        /\ Ready(a, b)' = Ready(a, b)
  BY GoalStable, TargetStable DEF Untouched
<1>12. JournalInv'
  BY <1>7 DEF JournalInv
<1>13. PlanInv'
  BY <1>1, <1>3, <1>4, <1>6, <1>7, <1>11, PlanShape DEF PlanInv, Planned, Journaled
<1>14. ExchangeInv'
  BY <1>6 DEF ExchangeInv, Exchanging
<1>15. SystemInv'
  BY <1>6, <1>7, SeenShape, EquivalentReflexive DEF SystemInv, Untouched, Journaled
<1>16. KeptInv'
  <2>1. KeptInv /\ (kept => On(Seen))
    BY SeenShape DEF Inv, KeptInv
  <2> QED BY <1>1, <1>6, <2>1, WorkingFacts DEF KeptInv, Working, Untouched, On, Inv
<1>17. AnswerInv'
  BY <1>6 DEF AnswerInv
<1>18. KnownInv'
  BY <1>1, WorkingFacts DEF Inv, KnownInv, Untouched, Known
<1>19. TheirsInv'
  BY <1>1, <1>2, <1>6, WorkingFacts DEF Inv, TheirsInv, Firm, Forward, Working, Untouched
<1> QED BY <1>9, <1>10, <1>12, <1>13, <1>14, <1>15, <1>16, <1>17, <1>18, <1>19 DEF Inv

\* The transaction has reached its goal.
LEMMA GoalReached ==
  ASSUME Inv, Active("task"), worker.before # None, DOMAIN theirs = {}
  PROVE  AsWanted
<1> DEFINE c == worker.config
           s == worker.before
           t == Target(c, s)
<1>1. Working /\ worker \in Workers /\ c \in Preferences /\ worker.pc = "task" /\ Transacts
      /\ s \in Snapshots /\ admin \in BOOLEAN
  BY WorkingFacts DEF Inv, Active, Working, Workers, Transacts, TypeOK
<1>2. worker.plan = <<>> /\ Forward
  BY <1>1 DEF Inv, WorkerInv, Working, Forward, Transacts
<1>3. ASSUME NEW e \in Entries PROVE Equivalent(e, Goal(c, s, e), os[e])
  <2>1. CASE Journaled(e)
    BY <1>1, <2>1, Achieved DEF Journaled
  <2>2. CASE ~Journaled(e)
    <3>1. s[e] = Goal(c, s, e)
      BY <1>2, <2>2, EmptyDomain DEF Inv, PlanInv, Planned
    <3> QED BY <1>1, <2>2, <3>1 DEF Inv, SystemInv
  <2> QED BY <2>1, <2>2
<1>4. CASE Wants(c, s)
  <2>1. t.entry \in Entries /\ Other(t.entry) \in Entries /\ Other(t.entry) # t.entry
    BY <1>1, TargetShape DEF Other, Entries
  <2>2. Goal(c, s, t.entry) = t.after /\ Goal(c, s, Other(t.entry)) = None
    BY <1>4, <2>1 DEF Goal
  <2>3. os[Other(t.entry)] = None
    BY <1>3, <2>1, <2>2 DEF Equivalent
  <2> QED BY <1>3, <1>4, <2>1, <2>2, <2>3 DEF AsWanted
<1>5. CASE ~Wants(c, s)
  <2>1. \A e \in Entries : os[e] = None
    BY <1>3, <1>5 DEF Goal, Equivalent
  <2>2. os = [run |-> None, task |-> None]
    BY <2>1 DEF Entries, Inv, TypeOK, Snapshots
  <2> QED BY <1>5, <2>2 DEF AsWanted
<1> QED BY <1>4, <1>5

LEMMA ReadTaskStep == Inv /\ ReadTask => Inv'
<1> SUFFICES ASSUME Inv, ReadTask PROVE Inv'
  OBVIOUS
<1>1. Active("task") /\ Working /\ Untouched /\ os' = os /\ worker.pc = "task"
  BY DEF ReadTask, Active, Working, Untouched
<1>2. /\ worker.before = None => ~worker.final
      /\ worker.before # None => worker.final
      /\ ~worker.back
  BY <1>1 DEF Inv, WorkerInv, Working, Exchanging
<1>3. Enabled(Seen) \in BOOLEAN
  BY DEF Enabled
<1>4. CASE Goto("undo") /\ worker.final
  BY <1>1, <1>2, <1>4, UndoNext
<1>5. CASE Refuse /\ ~worker.final
  BY <1>1, <1>2, <1>5, FailureAnswered DEF Refuse
<1>6. CASE Confirm(Seen) /\ worker.final
  <2>1. CASE Answer(Inspected(Enabled(Seen)))
    BY <1>1, <1>2, <1>3, <1>6, <2>1, SeenShape, GoalReached, InspectedAnswered
  <2>2. CASE Goto("undo")
    BY <1>4, <1>6, <2>2
  <2> QED BY <1>6, <2>1, <2>2 DEF Confirm
<1>7. CASE Decide(Seen) /\ ~worker.final
  <2>1. CASE Answer(Inspected(Enabled(Seen)))
    BY <1>1, <1>2, <1>3, <1>7, <2>1, SeenShape, InspectedAnswered
  <2>2. CASE Refuse
    BY <1>5, <1>7, <2>2
  <2>3. CASE /\ ~Foreign(Seen)
             /\ worker' = [worker EXCEPT !.pc = "change", !.before = Seen,
                                         !.plan = Plan(worker.config, Seen)]
    BY <1>1, <1>7, <2>3, BeginNext
  <2> QED BY <1>7, <2>1, <2>2, <2>3 DEF Decide
<1> QED BY <1>4, <1>5, <1>6, <1>7 DEF ReadTask, Seen

LEMMA ReconcileStep == Inv /\ Reconcile => Inv'
BY ReadRunStep, ReadTaskStep, NextChangeStep, CompareStep, WriteStep, VerifyStep, UndoStep
DEF Reconcile

(***************************************************************************)
(* The UI thread.                                                          *)
(***************************************************************************)
\* A worker that has no transaction, or none at all.
LEMMA NoTransaction ==
  ASSUME worker' # None => worker'.before = None /\ worker'.pc \notin Exchanging
  PROVE  JournalInv' /\ PlanInv' /\ ExchangeInv' /\ SystemInv'
BY DEF JournalInv, PlanInv, Forward, ExchangeInv, SystemInv, Transacts, Exchanging

LEMMA LaunchStep == Inv /\ Launch => Inv'
<1> SUFFICES ASSUME Inv, Launch PROVE Inv'
  OBVIOUS
<1>1. preference \in Preferences
  BY DEF Inv, TypeOK
<1>2. worker' \in Workers
  <2>1. worker' = [pc |-> "run", config |-> preference, before |-> None, read |-> None,
                   final |-> FALSE, plan |-> <<>>, journal |-> <<>>, back |-> FALSE,
                   exchange |-> None, result |-> None]
    BY DEF Launch, Inspection, Idle
  <2>2. <<>> \in Seq(Changes)
    OBVIOUS
  <2> QED BY <1>1, <2>1, <2>2 DEF Workers, Steps
<1>3. /\ worker' # None /\ worker'.pc = "run" /\ worker'.config = preference
      /\ worker'.before = None /\ ~worker'.final /\ ~worker'.back
      /\ worker'.plan = <<>> /\ worker'.journal = <<>>
  BY <1>2, RegistrationAssumption DEF Launch, Inspection, Idle
<1>4. /\ startup' \in Startups /\ startup'.state = "pending"
      /\ DOMAIN theirs' = {} /\ UNCHANGED <<setup, admin, os, preference, kept>>
  BY <1>1, EmptyDomain DEF Launch, Startups
<1>5. TypeOK'
  BY <1>2, <1>4 DEF Inv, TypeOK
<1>6. WorkerInv'
  BY <1>3, <1>4 DEF WorkerInv, Saver
<1>7. JournalInv' /\ PlanInv' /\ ExchangeInv' /\ SystemInv'
  BY <1>3, NoTransaction DEF Exchanging
<1>8. KeptInv'
  BY <1>3, <1>4 DEF Inv, KeptInv, Transacts, On
<1>9. AnswerInv' /\ KnownInv' /\ TheirsInv'
  BY <1>3, <1>4 DEF AnswerInv, KnownInv, Known, TheirsInv
<1> QED BY <1>5, <1>6, <1>7, <1>8, <1>9 DEF Inv

LEMMA ToggleStep == Inv /\ Toggle => Inv'
<1> SUFFICES ASSUME Inv, Toggle PROVE Inv'
  OBVIOUS
<1>1. startup \in Startups /\ startup.state \in {"ready", "saved"}
  BY DEF Inv, TypeOK, Toggle
<1>2. PICK enabled \in {"yes", "no"} : worker' = Saving(startup.config, enabled)
  BY DEF Toggle
<1>3. worker' \in Workers
  <2>1. worker' = [pc |-> "save", config |-> startup.config, before |-> None, read |-> None,
                   final |-> FALSE, plan |-> <<>>, journal |-> <<>>, back |-> FALSE,
                   exchange |-> None, result |-> enabled]
    BY <1>2 DEF Saving, Idle
  <2>2. <<>> \in Seq(Changes) /\ startup.config \in Preferences
    BY <1>1 DEF Startups
  <2> QED BY <1>2, <2>1, <2>2 DEF Workers, Steps
<1>4. /\ worker' # None /\ worker'.pc = "save" /\ worker'.before = None
      /\ worker'.result \in {"yes", "no"}
      /\ ~worker'.final /\ ~worker'.back /\ worker'.plan = <<>> /\ worker'.journal = <<>>
  BY <1>2, <1>3, RegistrationAssumption DEF Saving, Idle
<1>5. UNCHANGED <<setup, admin, os, preference, startup, theirs, kept>>
  BY DEF Toggle
<1>6. TypeOK'
  BY <1>3, <1>5 DEF Inv, TypeOK
<1>7. WorkerInv'
  BY <1>1, <1>4, <1>5 DEF WorkerInv, Saver
<1>8. JournalInv' /\ PlanInv' /\ ExchangeInv' /\ SystemInv'
  BY <1>4, NoTransaction DEF Exchanging
<1>9. KeptInv'
  BY <1>1, <1>4, <1>5 DEF Inv, KeptInv, Transacts, On
<1>10. AnswerInv' /\ KnownInv'
  BY <1>4, <1>5 DEF Inv, AnswerInv, KnownInv, Known, Enabled
<1>11. TheirsInv'
  BY <1>4, <1>5 DEF Inv, TheirsInv, Firm, Forward, Saver, Transacts
<1> QED BY <1>6, <1>7, <1>8, <1>9, <1>10, <1>11 DEF Inv

LEMMA SaveStep == Inv /\ Save => Inv'
<1> SUFFICES ASSUME Inv, Save PROVE Inv'
  OBVIOUS
<1> DEFINE p == [preference EXCEPT !.enabled = worker.result]
<1>1. /\ worker \in Workers /\ worker # None /\ worker.pc = "save" /\ worker.before = None
      /\ worker.result \in {"yes", "no"}
      /\ startup \in Startups /\ startup.state \in {"ready", "saved"}
      /\ ~worker.final /\ ~worker.back /\ worker.plan = <<>> /\ worker.journal = <<>>
  BY DEF Inv, TypeOK, WorkerInv, Saver, Save, Active
<1>2. p \in Preferences
  BY <1>1 DEF Inv, TypeOK, Preferences, Enabling
<1>3. PICK r \in Results : Answer(r) /\ r.kind = "saved"
                        /\ \/ preference' = p /\ Keeps(p)
                           \/ UNCHANGED <<preference, kept>>
  <2>1. Saved(p) \in Results /\ Saved(p).kind = "saved"
    BY <1>2 DEF Saved, Results
  <2>2. Saved(None) \in Results /\ Saved(None).kind = "saved"
    BY DEF Saved, Results
  <2> QED BY <2>1, <2>2 DEF Save
<1>4. worker' = [worker EXCEPT !.pc = "answered", !.result = r]
  BY <1>3 DEF Answer
<1>5. worker' \in Workers
  BY <1>1, <1>4 DEF Workers, Steps
<1>6. /\ worker' # None /\ worker'.pc = "answered" /\ worker'.result = r /\ worker'.before = None
      /\ ~worker'.final /\ ~worker'.back /\ worker'.plan = <<>> /\ worker'.journal = <<>>
      /\ worker'.config = worker.config
  BY ZenonT(30), <1>1, <1>4, <1>5, RegistrationAssumption DEF Workers
<1>7. UNCHANGED <<setup, admin, os, startup, theirs>>
  BY DEF Save
<1>8. kept' \in BOOLEAN /\ (kept' => kept /\ preference'.enabled # "no") /\ preference' \in Preferences
  <2>1. CASE preference' = p /\ Keeps(p)
    <3>1. kept' = (kept /\ p.enabled # "no")
      BY <2>1 DEF Keeps
    <3> QED BY <1>2, <2>1, <3>1
  <2>2. CASE UNCHANGED <<preference, kept>>
    BY <2>2 DEF Inv, TypeOK, KeptInv
  <2> QED BY <1>3, <2>1, <2>2
<1>9. TypeOK'
  BY <1>5, <1>7, <1>8 DEF Inv, TypeOK
<1>10. WorkerInv'
  BY <1>1, <1>3, <1>6, <1>7 DEF WorkerInv, Saver
<1>11. JournalInv' /\ PlanInv' /\ ExchangeInv' /\ SystemInv'
  BY <1>6, NoTransaction DEF Exchanging
<1>12. KeptInv'
  BY <1>1, <1>6, <1>7, <1>8 DEF Inv, KeptInv, Transacts, On
<1>13. AnswerInv' /\ KnownInv'
  BY <1>3, <1>6, <1>7 DEF Inv, AnswerInv, KnownInv, Known, Enabled
<1>14. TheirsInv'
  BY <1>3, <1>6, <1>7 DEF Inv, TheirsInv, Firm, Forward, Saver, Transacts
<1> QED BY <1>9, <1>10, <1>11, <1>12, <1>13, <1>14 DEF Inv

\* No worker is left.
LEMMA WorkerGone ==
  ASSUME Inv, worker' = None, startup' \in Startups \cup {None},
         UNCHANGED <<setup, admin, os, preference, theirs, kept>>, KnownInv'
  PROVE  Inv'
<1>1. TypeOK' /\ WorkerInv'
  BY DEF Inv, TypeOK, WorkerInv
<1>2. JournalInv' /\ PlanInv' /\ ExchangeInv' /\ SystemInv'
  BY NoTransaction
<1>3. KeptInv' /\ AnswerInv'
  BY DEF Inv, KeptInv, AnswerInv, Transacts, On
<1>4. TheirsInv'
  BY DEF Inv, TheirsInv, Firm, Forward, Transacts
<1> QED BY <1>1, <1>2, <1>3, <1>4 DEF Inv

LEMMA PollStep == Inv /\ Poll => Inv'
<1> SUFFICES ASSUME Inv, Poll PROVE Inv'
  OBVIOUS
<1>1. /\ worker # None /\ worker.pc = "answered" /\ worker.result \in Results
      /\ startup \in Startups /\ worker' = None
      /\ UNCHANGED <<setup, admin, os, preference, theirs, kept>>
  BY DEF Inv, WorkerInv, Poll, Active
<1> DEFINE answer == IF startup.canceled THEN [worker.result EXCEPT !.ok = FALSE] ELSE worker.result
<1>2. /\ answer \in Results /\ answer.kind = worker.result.kind
      /\ answer.ok => worker.result.ok /\ answer.value = worker.result.value
  BY <1>1 DEF Results
<1>3. CASE answer.kind = "inspected" /\ answer.ok
  <2>1. startup' = [startup EXCEPT !.state = "ready", !.actual = answer.value]
    BY <1>3 DEF Poll
  <2>2. answer.value \in BOOLEAN
    BY <1>2, <1>3 DEF Results
  <2>3. startup' \in Startups /\ startup'.actual = answer.value
    BY <1>1, <2>1, <2>2 DEF Startups
  <2>4. KnownInv'
    BY <1>1, <1>2, <1>3, <2>3 DEF Inv, AnswerInv, KnownInv, Enabled
  <2> QED BY <1>1, <2>3, <2>4, WorkerGone
<1>4. CASE answer.kind = "inspected" /\ ~answer.ok
  <2>1. startup' = [startup EXCEPT !.state = "failed"]
    BY <1>4 DEF Poll
  <2>2. startup' \in Startups /\ startup'.state = "failed"
    BY <1>1, <2>1 DEF Startups
  <2>3. KnownInv'
    BY <2>2 DEF KnownInv, Known
  <2> QED BY <1>1, <2>2, <2>3, WorkerGone
<1>5. CASE answer.kind = "saved"
  <2>1. startup.state \in {"ready", "saved"}
    BY <1>1, <1>2, <1>5 DEF Inv, WorkerInv, Saver
  <2>2. CASE answer.ok
    <3>1. startup' = [startup EXCEPT !.state = "saved", !.config = answer.value]
      BY <1>5, <2>2 DEF Poll
    <3>2. answer.value \in Preferences
      BY <1>2, <1>5, <2>2 DEF Results
    <3>3. startup' \in Startups /\ startup'.actual = startup.actual
      BY <1>1, <3>1, <3>2 DEF Startups
    <3>4. startup # None
      BY <1>1, RegistrationAssumption
    <3>5. KnownInv'
      BY <1>1, <2>1, <3>3, <3>4 DEF Inv, KnownInv, Known, Enabled
    <3> QED BY <1>1, <3>3, <3>5, WorkerGone
  <2>3. CASE ~answer.ok
    <3>1. startup' = startup
      BY <1>5, <2>3 DEF Poll
    <3>2. KnownInv'
      BY <1>1, <3>1 DEF Inv, KnownInv, Known, Enabled
    <3> QED BY <1>1, <3>1, <3>2, WorkerGone
  <2> QED BY <2>2, <2>3
<1> QED BY <1>2, <1>3, <1>4, <1>5 DEF Results

LEMMA EndStep == Inv /\ End => Inv'
<1> SUFFICES ASSUME Inv, End PROVE Inv'
  OBVIOUS
<1>1. KnownInv'
  BY DEF End, KnownInv, Known
<1> QED BY <1>1, WorkerGone DEF End

\* A step that leaves the entries and the worker alone.
LEMMA WorkerSame ==
  ASSUME Inv, UNCHANGED <<setup, admin, os, worker, theirs>>,
         \/ startup' = startup
         \/ startup # None /\ startup' = [startup EXCEPT !.canceled = TRUE],
         preference' \in Preferences, kept' \in BOOLEAN,
         kept' => kept /\ preference'.enabled # "no"
  PROVE  Inv'
<1>1. /\ startup' \in Startups \cup {None}
      /\ startup \in Startups =>
           startup' \in Startups /\ startup'.state = startup.state /\ startup'.actual = startup.actual
      /\ startup = None => startup' = None
  BY DEF Inv, TypeOK, Startups
<1>2. TypeOK'
  BY <1>1 DEF Inv, TypeOK
<1>3. WorkerInv'
  BY <1>1 DEF Inv, WorkerInv, Saver, Foreign, Exchanging
<1>4. JournalInv' /\ PlanInv'
  BY GoalStable, TargetStable
  DEF Inv, JournalInv, PlanInv, Transacts, Forward, Journaled, Planned
<1>5. ExchangeInv' /\ SystemInv'
  BY DEF Inv, ExchangeInv, SystemInv, Transacts, Journaled
<1>6. KeptInv'
  BY <1>1 DEF Inv, KeptInv, WorkerInv, Transacts, On
<1>7. AsWanted => AsWanted'
  BY TargetStable DEF AsWanted
<1>8. AnswerInv'
  BY <1>7 DEF Inv, AnswerInv, Enabled
<1>9. KnownInv'
  BY <1>1 DEF Inv, TypeOK, KnownInv, Known, Enabled
<1>10. TheirsInv'
  BY DEF Inv, TheirsInv, Firm, Forward, Saver, Transacts
<1> QED BY <1>2, <1>3, <1>4, <1>5, <1>6, <1>8, <1>9, <1>10 DEF Inv

LEMMA ExitStep == Inv /\ Exit => Inv'
<1> SUFFICES ASSUME Inv, Exit PROVE Inv'
  OBVIOUS
<1>1. preference' \in Preferences /\ kept' \in BOOLEAN /\ (kept' => kept /\ preference'.enabled # "no")
  BY DEF Inv, TypeOK, KeptInv, Exit
<1> QED BY <1>1, WorkerSame DEF Exit

LEMMA EditStep == Inv /\ Edit => Inv'
<1> SUFFICES ASSUME Inv, Edit PROVE Inv'
  OBVIOUS
<1>1. PICK p \in setup.preferences : preference' = p /\ Keeps(p)
  BY DEF Edit
<1>2. p \in Preferences
  BY RegistrationAssumption DEF Inv, TypeOK
<1>3. kept' = (kept /\ p.enabled # "no")
  BY <1>1 DEF Keeps
<1>4. kept' \in BOOLEAN /\ (kept' => kept /\ preference'.enabled # "no")
  BY <1>1, <1>3
<1> QED BY <1>1, <1>2, <1>4, WorkerSame DEF Edit

(***************************************************************************)
(* Everybody else.                                                         *)
(***************************************************************************)
LEMMA MeddleStep == Inv /\ Meddle => Inv'
<1> SUFFICES ASSUME Inv, Meddle PROVE Inv'
  OBVIOUS
<1>0. PICK e \in Entries : \E value \in Others[e] :
        /\ os' = [os EXCEPT ![e] = value]
        /\ theirs' = [x \in DOMAIN theirs \cup {e} |->
             IF x = e THEN [value |-> value, noticed |-> Noticed(e, value), likewise |-> Likewise(e, value)]
             ELSE theirs[x]]
  BY DEF Meddle
<1>1. PICK value \in Others[e] :
        /\ os' = [os EXCEPT ![e] = value]
        /\ theirs' = [x \in DOMAIN theirs \cup {e} |->
             IF x = e THEN [value |-> value, noticed |-> Noticed(e, value), likewise |-> Likewise(e, value)]
             ELSE theirs[x]]
  BY <1>0
<1>2. UNCHANGED <<setup, admin, preference, worker, startup>> /\ kept' = FALSE
  BY DEF Meddle
<1>3. value \in Contents(e)
  <2>1. CASE e = "run"
    BY <1>1, <2>1 DEF Others, Contents, Runs, OwnRuns
  <2>2. CASE e = "task"
    <3>1. CASE value = None
      BY <3>1 DEF Contents
    <3>2. CASE value = Task(FALSE, Policy(FALSE, "allow", TRUE), "normal")
      <4>1. value \in Tasks
        BY <3>2 DEF Task, Policy, Tasks, Policies
      <4> QED BY <2>2, <4>1 DEF Contents
    <3>3. CASE os.task # None /\ value = [os.task EXCEPT !.policy.enabled = ~@, !.text = "normal"]
      <4>1. os.task \in Tasks
        BY <3>3 DEF Inv, TypeOK, Snapshots
      <4>2. value \in Tasks
        BY <3>3, <4>1 DEF Tasks, Policies
      <4> QED BY <2>2, <4>2 DEF Contents
    <3>4. value \in {None, Task(FALSE, Policy(FALSE, "allow", TRUE), "normal")}
                      \cup (IF os.task = None THEN {}
                            ELSE {[os.task EXCEPT !.policy.enabled = ~@, !.text = "normal"]})
      BY <1>1, <2>2 DEF Others
    <3> QED BY <3>1, <3>2, <3>3, <3>4
  <2> QED BY <2>1, <2>2 DEF Entries
<1>4. os' \in Snapshots /\ os'[e] = value /\ \A x \in Entries : x # e => os'[x] = os[x]
  BY <1>1, <1>3 DEF Inv, TypeOK, Snapshots, Entries, Contents
<1>5. /\ DOMAIN theirs' = DOMAIN theirs \cup {e} /\ DOMAIN theirs' # {}
      /\ theirs'[e].value = value /\ Firm(e)' = (Noticed(e, value) /\ ~Likewise(e, value))
      /\ \A x \in DOMAIN theirs : x # e => theirs'[x] = theirs[x] /\ Firm(x)' = Firm(x)
  BY <1>1 DEF Firm
<1>6. TypeOK'
  BY <1>2, <1>4, <1>5 DEF Inv, TypeOK
<1>7. WorkerInv'
  <2>1. "run" \notin DOMAIN theirs' => os'.run = os.run /\ "run" \notin DOMAIN theirs
    BY <1>4, <1>5 DEF Entries
  <2> QED BY <1>2, <2>1 DEF Inv, WorkerInv, Saver, Foreign, Exchanging
<1>8. JournalInv' /\ PlanInv'
  BY <1>2, GoalStable, TargetStable
  DEF Inv, JournalInv, PlanInv, Transacts, Forward, Journaled, Planned
<1>9. ExchangeInv'
  BY <1>2 DEF Inv, ExchangeInv
<1>10. SystemInv'
  BY <1>2, <1>4, <1>5 DEF Inv, SystemInv, Transacts, Journaled
<1>11. KeptInv' /\ KnownInv'
  BY <1>2, <1>5 DEF KeptInv, KnownInv
<1>12. AnswerInv'
  BY <1>2, <1>5 DEF Inv, AnswerInv
<1>13. TheirsInv'
  <2>1. ASSUME Noticed(e, value), ~Likewise(e, value)
        PROVE  /\ Transacts
               /\ value # worker.before[e]
               /\ \A i \in DOMAIN worker.journal :
                    worker.journal[i].entry = e => value # worker.journal[i].after
               /\ worker.pc = "write" => worker.exchange.entry # e
               /\ worker.pc = "verify" /\ ~worker.back /\ worker.exchange.entry = e =>
                    ~Equivalent(e, value, worker.exchange.after)
               /\ Forward =>
                    \A i \in DOMAIN worker.plan : worker.plan[i].entry = e => value # worker.plan[i].after
    <3>1. Transacts /\ value # worker.before[e]
      BY <2>1 DEF Noticed, Transacts
    <3>2. \A i \in DOMAIN worker.journal :
            worker.journal[i].entry = e => ~Equivalent(e, value, worker.journal[i].after)
      BY <2>1 DEF Noticed, Likewise
    <3>3. worker.pc = "write" => worker.exchange.entry # e
      BY <2>1 DEF Noticed, Entry
    <3>4. ASSUME worker.pc = "verify", ~worker.back, worker.exchange.entry = e
          PROVE  ~Equivalent(e, value, worker.exchange.after)
      <4>1. Working /\ worker.pc \in Exchanging
        BY <3>1, <3>4 DEF Working, Transacts, Exchanging
      <4>2. /\ Len(worker.journal) \in DOMAIN worker.journal
            /\ worker.exchange.after = worker.journal[Len(worker.journal)].after
            /\ worker.journal[Len(worker.journal)].entry = e
        BY <3>4, <4>1, LastAttempt DEF Entry, Value
      <4> QED BY <3>2, <4>2
    <3>5. ASSUME Forward
          PROVE  \A i \in DOMAIN worker.plan : worker.plan[i].entry = e => value # worker.plan[i].after
      <4>1. worker.pc # "undo" /\ ~worker.back
        BY <3>5 DEF Inv, WorkerInv, Forward, Transacts, Exchanging
      <4> QED BY <2>1, <4>1 DEF Noticed, Likewise
    <3> QED BY <3>1, <3>2, <3>3, <3>4, <3>5, EquivalentReflexive
  <2>2. ASSUME NEW x \in DOMAIN theirs, x # e PROVE os'[x] = os[x]
    BY <1>4, <2>2 DEF Inv, TypeOK
  <2> QED BY <1>2, <1>4, <1>5, <2>1, <2>2 DEF Inv, TheirsInv, Firm, Forward, Saver, Transacts
<1> QED BY <1>6, <1>7, <1>8, <1>9, <1>10, <1>11, <1>12, <1>13 DEF Inv

(***************************************************************************)
(* The theorems.                                                           *)
(***************************************************************************)
LEMMA Initially == Init => Inv
<1> SUFFICES ASSUME Init PROVE Inv
  OBVIOUS
<1>1. TypeOK
  <2>1. setup \in Setups /\ admin \in BOOLEAN /\ preference \in Preferences
    BY RegistrationAssumption DEF Init
  <2>2. os \in Snapshots
    BY RegistrationAssumption DEF Init, Snapshots
  <2> QED BY <2>1, <2>2, EmptyDomain DEF Init, TypeOK
<1>2. WorkerInv /\ JournalInv /\ PlanInv /\ ExchangeInv /\ SystemInv /\ AnswerInv
  BY DEF Init, WorkerInv, JournalInv, PlanInv, Forward, ExchangeInv, SystemInv, AnswerInv, Transacts
<1>3. KeptInv
  BY EmptyDomain DEF Init, KeptInv, Transacts
<1>4. KnownInv /\ TheirsInv
  BY EmptyDomain DEF Init, KnownInv, Known, TheirsInv
<1> QED BY <1>1, <1>2, <1>3, <1>4 DEF Inv

LEMMA InvStep == Inv /\ [Next]_vars => Inv'
<1> SUFFICES ASSUME Inv, [Next]_vars PROVE Inv'
  OBVIOUS
<1>1. CASE Reconcile \/ Launch \/ Toggle \/ Save \/ Poll
  BY <1>1, ReconcileStep, LaunchStep, ToggleStep, SaveStep, PollStep
<1>2. CASE Exit \/ End \/ Meddle \/ Edit
  BY <1>2, ExitStep, EndStep, MeddleStep, EditStep
<1>3. CASE UNCHANGED vars
  <2>1. preference \in Preferences /\ kept \in BOOLEAN /\ (kept => preference.enabled # "no")
    BY DEF Inv, TypeOK, KeptInv
  <2> QED BY <1>3, <2>1, WorkerSame DEF vars
<1> QED BY <1>1, <1>2, <1>3 DEF Next

LEMMA Invariance == Spec => []Inv
BY Initially, InvStep, PTL DEF Spec

\* The variables have the values they are declared to have, whatever the system
\* and the configuration hold.
THEOREM TypeCorrect == Spec => []TypeOK
<1>1. Inv => TypeOK
  BY DEF Inv
<1> QED BY Invariance, <1>1, PTL

\* Autostart that is on and wanted on is never off, for every pair of entries,
\* configuration and number of failures, exits and launches (startup/transaction.rs:115).
THEOREM AutostartNeverLost == Spec => []AutostartSurvives
<1>1. Inv => AutostartSurvives
  BY DEF Inv, KeptInv, AutostartSurvives
<1> QED BY Invariance, <1>1, PTL

\* The state shown in the tray is the system's, a success has left the entries as
\* wanted, and a failure that says so has restored them (startup/transaction.rs:142).
THEOREM ReportsAreTrue == Spec => []ReportIsTrue
<1>1. Inv => ReportIsTrue
  <2> SUFFICES ASSUME Inv PROVE ReportIsTrue
    OBVIOUS
  <2>1. Known /\ DOMAIN theirs = {} => Enabled(os) = startup.actual
    BY DEF Inv, KnownInv
  <2>2. Reports(TRUE) /\ DOMAIN theirs = {} => AsWanted
    BY DEF Inv, AnswerInv, Reports, Active
  <2>3. ASSUME Restored, NEW e \in Entries \ DOMAIN theirs
        PROVE  Equivalent(e, worker.before[e], os[e])
    <3>1. Transacts /\ worker.journal = <<>>
      BY <2>3 DEF Inv, AnswerInv, Restored, Reports, Active, Transacts
    <3>2. ~Journaled(e)
      BY <3>1, EmptyDomain DEF Journaled
    <3> QED BY <3>1, <3>2 DEF Inv, SystemInv
  <2> QED BY <2>1, <2>2, <2>3 DEF ReportIsTrue
<1> QED BY Invariance, <1>1, PTL

\* What others made of an entry after it was read - a removal, too, of an entry
\* the worker keeps or makes - is not overwritten, but for the moment between the
\* comparison and the write, and for what the worker has made of the entry too or
\* is to make of it (startup/transaction.rs:239, utils/regedit.rs:149).
THEOREM OthersAreKept == Spec => []OthersWin
<1>1. Inv => OthersWin
  BY DEF Inv, TheirsInv, OthersWin, Firm
<1> QED BY Invariance, <1>1, PTL

\* The two together: what the run checks of the entries.
THEOREM EntriesStayTrue == Spec => []EntriesAreTrue
BY ReportsAreTrue, OthersAreKept, PTL DEF EntriesAreTrue

(***************************************************************************)
(* Logging                                                                 *)
(***************************************************************************)
(***************************************************************************)
(* The invariant.                                                          *)
(***************************************************************************)
ExclusionInv == \A p \in Processes : Holds(p) => Free(p) /\ ini = "own"

\* The archive that p works on comes after all others.
Uppermost(i) == i \in Own /\ \A j \in Own \ {i} : archives[j].sequence < archives[i].sequence

RotationOf(p) ==
  LET s == process[p]
  IN /\ s.pc \in {"create", "mark", "copy"} => Retained[p] # 0
     /\ s.pc \in {"create", "mark", "copy"} => s.slot \in Paths
     /\ s.pc \in {"rotate", "create", "mark", "copy"} => log # <<>>
     /\ s.pc \in {"create", "mark"} => \A i \in Own : archives[i].sequence < s.sequence
     /\ s.pc = "mark" => archives[s.slot] = Blank
     /\ s.pc = "copy" =>
          LET file == archives[s.slot]
          IN /\ Uppermost(s.slot) /\ file.of = log[1]
             /\ Len(file.lines) <= Len(NewestLines(p))
             /\ file.lines = SubSeq(NewestLines(p), 1, Len(file.lines))
RotationInv == \A p \in Running : RotationOf(p)

\* A line that is lost is recorded, and what is recorded waits or was told.
Lost(s) == s.sent # s.kept + s.queue + IF s.pc = "idle" THEN 0 ELSE 1
LossOf(p) ==
  /\ Lost(process[p]) => process[p].recorded
  /\ process[p].recorded => process[p].pending \/ process[p].told
LossInv == \A p \in Running : LossOf(p)

LogInv == LogTypeOK /\ ExclusionInv /\ RotationInv /\ Chronicle /\ LossInv

(***************************************************************************)
(* Numbers and lines.                                                      *)
(***************************************************************************)
LEMMA Minimum ==
  ASSUME NEW S \in SUBSET Nat, S # {}
  PROVE  Min(S) \in S /\ \A y \in S : Min(S) <= y
<1>1. PICK x \in S : \A y \in S : ~(<<y, x>> \in OpToRel(<, Nat))
  BY NatLessThanWellFounded, WFMin
<1>2. ASSUME NEW y \in S PROVE x <= y
  <2>1. <<y, x>> \in Nat \X Nat /\ <<y, x>>[1] = y /\ <<y, x>>[2] = x
    OBVIOUS
  <2>2. ~(y < x)
    BY <1>1, <2>1, Zenon DEF OpToRel
  <2> QED BY <2>2
<1> QED BY <1>2 DEF Min

LEMMA Maximum ==
  ASSUME NEW n \in Nat, NEW S \in SUBSET (0 .. n), S # {}
  PROVE  Max(S) \in S /\ \A y \in S : y <= Max(S)
<1> DEFINE T == {n - y : y \in S}
<1>1. T \in SUBSET Nat /\ T # {}
  <2>1. \A y \in S : n - y \in Nat
    OBVIOUS
  <2> QED BY <2>1
<1> HIDE DEF T
<1>2. Min(T) \in T /\ \A t \in T : Min(T) <= t
  BY <1>1, Minimum
<1>3. PICK x \in S : Min(T) = n - x
  BY <1>2 DEF T
<1>4. ASSUME NEW y \in S PROVE y <= x
  <2>1. n - y \in T
    BY DEF T
  <2>2. n - x <= n - y
    BY <1>2, <1>3, <2>1
  <2> QED BY <2>2
<1> QED BY <1>4 DEF Max

\* What a worker copies is the end of the log.
LEMMA Newest ==
  ASSUME LogTypeOK, log # <<>>, NEW p \in Processes
  PROVE  \E first \in 1 .. Len(log) :
           /\ NewestLines(p) \in Seq(Nat)
           /\ Len(NewestLines(p)) = 1 + Len(log) - first
           /\ \A n \in 1 .. (1 + Len(log) - first) : NewestLines(p)[n] = log[first + n - 1]
<1> DEFINE size == MaxLength[p] - Header
           count == Len(log)
           first == 1 + count - Min({count, size})
<1>1. log \in Seq(Nat) /\ size \in Nat \ {0} /\ count \in Nat \ {0}
  BY LoggingAssumption DEF LogTypeOK
<1>2. first \in 1 .. count
  <2>1. Min({count, size}) \in {count, size} /\ \A y \in {count, size} : Min({count, size}) <= y
    BY <1>1, Minimum
  <2>2. Min({count, size}) \in 1 .. count
    BY <1>1, <2>1
  <2> QED BY <1>1, <2>2
<1>3. NewestLines(p) = SubSeq(log, first, count)
  BY DEF NewestLines
<1> HIDE DEF first
<1> QED BY <1>1, <1>2, <1>3, SubSeqProperties

\* The beginning of what is copied: it follows itself, within the log.
LEMMA Beginning ==
  ASSUME LogTypeOK, Chronicle, log # <<>>, NEW p \in Processes, NEW k \in 0 .. Len(NewestLines(p))
  PROVE  LET lines == SubSeq(NewestLines(p), 1, k)
         IN /\ lines \in Seq(Nat) /\ Len(lines) = k
            /\ k = Len(NewestLines(p)) => lines = NewestLines(p)
            /\ \A n \in DOMAIN lines :
                 lines[n] \in log[1] .. written /\ lines[n] = lines[1] + n - 1
<1> DEFINE newest == NewestLines(p)
           lines == SubSeq(newest, 1, k)
<1>1. PICK first \in 1 .. Len(log) :
        /\ newest \in Seq(Nat)
        /\ Len(newest) = 1 + Len(log) - first
        /\ \A n \in 1 .. (1 + Len(log) - first) : newest[n] = log[first + n - 1]
  BY Newest
<1>2. /\ log \in Seq(Nat) /\ Len(log) \in Nat /\ written \in Nat /\ DOMAIN log = 1 .. Len(log)
      /\ Len(log) <= written /\ \A n \in 1 .. Len(log) : log[n] = written - Len(log) + n
  BY DEF LogTypeOK, Chronicle, InOrder
<1> HIDE DEF newest
<1>3. /\ lines \in Seq(Nat) /\ Len(lines) = k /\ DOMAIN lines = 1 .. k
      /\ \A n \in 1 .. k : lines[n] = newest[n]
  <2>1. k \in Nat /\ 1 + k - 1 = k /\ Len(newest) \in Nat /\ k <= Len(newest)
    BY <1>1, <1>2 DEF newest
  <2>2. /\ SubSeq(newest, 1, k) \in Seq(Nat) /\ Len(SubSeq(newest, 1, k)) = k
        /\ \A n \in 1 .. k : SubSeq(newest, 1, k)[n] = newest[n]
    <3>1. CASE k = 0
      <4>1. SubSeq(newest, 1, k) \in Seq(Nat) /\ Len(SubSeq(newest, 1, k)) = 0
        BY <1>1, <2>1, <3>1, SubSeqProperties
      <4> QED BY <3>1, <4>1
    <3>2. CASE k # 0
      <4>1. 1 \in 1 .. (Len(newest) + 1) /\ k \in (1 - 1) .. Len(newest)
        BY <2>1
      <4>2. /\ SubSeq(newest, 1, k) \in Seq(Nat) /\ Len(SubSeq(newest, 1, k)) = 1 + k - 1
            /\ \A n \in 1 .. (1 + k - 1) : SubSeq(newest, 1, k)[n] = newest[1 + n - 1]
        BY <1>1, <2>1, <3>2, <4>1, SubSeqProperties
      <4>3. \A n \in 1 .. k : 1 + n - 1 = n
        BY <2>1
      <4> QED BY <2>1, <4>2, <4>3
    <3> QED BY <3>1, <3>2
  <2> QED BY <2>1, <2>2
<1>4. ASSUME NEW n \in 1 .. k
      PROVE  lines[n] = written - Len(log) + (first + n - 1) /\ first + n - 1 \in 1 .. Len(log)
  <2>1. n \in 1 .. (1 + Len(log) - first) /\ first + n - 1 \in 1 .. Len(log)
    BY <1>1, <1>2 DEF newest
  <2> QED BY <1>1, <1>2, <1>3, <2>1
<1>5. ASSUME NEW n \in 1 .. k PROVE lines[n] \in log[1] .. written /\ lines[n] = lines[1] + n - 1
  <2>1. 1 \in 1 .. k /\ log[1] = written - Len(log) + 1 /\ lines[1] = written - Len(log) + (first + 1 - 1)
    BY <1>1, <1>2, <1>4
  <2>2. lines[n] = written - Len(log) + (first + n - 1) /\ first + n - 1 \in 1 .. Len(log)
    BY <1>4
  <2> HIDE DEF lines
  <2> QED BY <1>2, <2>1, <2>2
<1>6. ASSUME k = Len(newest) PROVE lines = newest
  <2>1. newest \in Seq(Nat) /\ DOMAIN newest = 1 .. k
    BY <1>1, <1>6
  <2> HIDE DEF lines
  <2> QED BY <1>3, <2>1, SeqEqual
<1> QED BY <1>3, <1>5, <1>6 DEF newest

(***************************************************************************)
(* One process at a time.                                                  *)
(***************************************************************************)
Budget == [{"lines", "kills", "faults", "intrusions", "starts"} -> Nat]

\* A process changes, or starts.
LEMMA Update ==
  ASSUME LogTypeOK, NEW p \in Processes, NEW t \in States, process' = [process EXCEPT ![p] = t]
  PROVE  /\ process' \in [Processes -> States \cup {Nothing}]
         /\ process'[p] = t /\ Running' = Running \cup {p}
         /\ \A q \in Processes \ {p} : process'[q] = process[q] /\ Holds(q)' = Holds(q)
         /\ Holds(p)' <=> t.pc \in Holding
<1>1. process \in [Processes -> States \cup {Nothing}] /\ Nothing \notin States
  BY LoggingAssumption DEF LogTypeOK
<1>2. process'[p] = t /\ \A q \in Processes \ {p} : process'[q] = process[q]
  BY <1>1
<1>3. Running' = Running \cup {p}
  BY <1>1, <1>2 DEF Running
<1> QED BY <1>1, <1>2, <1>3 DEF Holds

LEMMA SlotsType == Slots \in Nat /\ MaxSequence \in Nat
BY LoggingAssumption

LEMMA Processing ==
  ASSUME LogTypeOK, NEW p \in Running
  PROVE  p \in Processes /\ process[p] \in States /\ process[p] # Nothing
BY DEF LogTypeOK, Running

LEMMA GivingUp ==
  ASSUME LogTypeOK, NEW p \in Running, LossOf(p), GiveUp(p)
  PROVE  \E t \in States :
           /\ process' = [process EXCEPT ![p] = t]
           /\ t.pc = "idle" /\ t.recorded /\ (t.pending \/ t.told)
<1> DEFINE t == Recorded(Finished(process[p]))
<1>1. process[p] \in States /\ process \in [Processes -> States \cup {Nothing}] /\ p \in Processes
  BY Processing DEF LogTypeOK
<1>2. process' = [process EXCEPT ![p] = t]
  BY <1>1 DEF GiveUp
<1> DEFINE u == Finished(process[p])
<1>3. /\ u \in States /\ u.pc = "idle"
      /\ u.recorded = process[p].recorded /\ u.pending = process[p].pending /\ u.told = process[p].told
  <2>1. 0 \in 0 .. Slots /\ 0 \in 0 .. MaxSequence
    BY LoggingAssumption
  <2> QED BY <1>1, <2>1 DEF Finished, States
<1> HIDE DEF u
<1>4. t = Recorded(u)
  BY DEF u
<1>5. t \in States /\ t.pc = "idle" /\ t.recorded /\ (t.pending \/ t.told)
  <2>1. CASE u.recorded
    <3>1. t = u
      BY <1>4, <2>1 DEF Recorded
    <3> QED BY <1>3, <2>1, <3>1 DEF LossOf
  <2>2. CASE ~u.recorded
    <3>1. t = [u EXCEPT !.recorded = TRUE, !.pending = TRUE]
      BY <1>4, <2>2 DEF Recorded
    <3> HIDE DEF t
    <3> QED BY <1>3, <3>1 DEF States
  <2> QED BY <2>1, <2>2
<1> QED BY <1>2, <1>5

LEMMA GivenUp ==
  ASSUME LogTypeOK, NEW p \in Running, GiveUp(p)
  PROVE  process'[p].pc = "idle"
<1>1. process[p] \in States /\ process \in [Processes -> States \cup {Nothing}] /\ p \in Processes
  BY Processing DEF LogTypeOK
<1> DEFINE u == Finished(process[p])
<1>2. process'[p] = Recorded(u)
  BY <1>1 DEF GiveUp
<1>3. u \in States /\ u.pc = "idle"
  <2>1. 0 \in 0 .. Slots /\ 0 \in 0 .. MaxSequence
    BY LoggingAssumption
  <2> QED BY <1>1, <2>1 DEF Finished, States
<1> HIDE DEF u
<1>4. Recorded(u).pc = "idle"
  BY <1>3 DEF Recorded, States
<1> QED BY <1>2, <1>4

LEMMA Moving ==
  ASSUME LogTypeOK, NEW p \in Running, NEW pc \in Holding \cup {"idle", "try"}, Move(p, pc)
  PROVE  \E t \in States :
           /\ process' = [process EXCEPT ![p] = t]
           /\ t = [process[p] EXCEPT !.pc = pc]
           /\ t.pc = pc /\ t.slot = process[p].slot /\ t.sequence = process[p].sequence
           /\ t.recorded = process[p].recorded /\ t.pending = process[p].pending /\ t.told = process[p].told
           /\ pc # "idle" /\ process[p].pc # "idle" => Lost(t) = Lost(process[p])
<1> DEFINE t == [process[p] EXCEPT !.pc = pc]
<1>1. process[p] \in States /\ process \in [Processes -> States \cup {Nothing}] /\ p \in Processes
  BY Processing DEF LogTypeOK
<1>2. process' = [process EXCEPT ![p] = t]
  BY <1>1 DEF Move
<1>3. t \in States /\ t.pc = pc
  BY <1>1 DEF States
<1>4. /\ t.slot = process[p].slot /\ t.sequence = process[p].sequence
      /\ t.recorded = process[p].recorded /\ t.pending = process[p].pending /\ t.told = process[p].told
      /\ t.sent = process[p].sent /\ t.kept = process[p].kept /\ t.queue = process[p].queue
  BY <1>1 DEF States
<1> QED BY <1>2, <1>3, <1>4 DEF Lost

LEMMA Spending ==
  ASSUME LogTypeOK, NEW what \in {"lines", "kills", "faults", "intrusions", "starts"}, Spend(what)
  PROVE  allowance' \in Budget
BY DEF LogTypeOK, Spend, Budget

\* Who works on the files works on them alone.
LEMMA Alone ==
  ASSUME LogInv, NEW p \in Running, Holds(p), NEW t \in States, process' = [process EXCEPT ![p] = t],
         ini' = ini
  PROVE  /\ ExclusionInv'
         /\ Running' = Running
         /\ \A q \in Running \ {p} : RotationOf(q)' /\ (LossOf(q)' <=> LossOf(q))
         /\ process' \in [Processes -> States \cup {Nothing}] /\ process'[p] = t
<1>1. p \in Processes /\ LogTypeOK
  BY Processing DEF LogInv
<1>2. /\ process' \in [Processes -> States \cup {Nothing}]
      /\ process'[p] = t /\ Running' = Running \cup {p}
      /\ \A q \in Processes \ {p} : process'[q] = process[q] /\ Holds(q)' = Holds(q)
  BY <1>1, Update
<1>3. Running' = Running
  BY <1>2
<1>4. ini = "own" /\ \A q \in Running \ {p} : ~Holds(q)
  BY <1>1 DEF LogInv, ExclusionInv, Free
<1>5. \A q \in Processes : Holds(q)' => q = p
  BY <1>2, <1>3, <1>4 DEF Holds
<1>6. ExclusionInv'
  BY <1>4, <1>5 DEF ExclusionInv, Free, Running
<1>7. ASSUME NEW q \in Running \ {p} PROVE RotationOf(q)' /\ (LossOf(q)' <=> LossOf(q))
  <2>1. q \in Processes /\ process'[q] = process[q]
    BY <1>2 DEF Running
  <2>2. process'[q].pc \notin Holding
    BY <1>4, <2>1 DEF Holds
  <2>3. RotationOf(q)'
    BY <2>2 DEF RotationOf, Holding
  <2> QED BY <2>1, <2>3 DEF LossOf
<1> QED BY <1>2, <1>3, <1>6, <1>7

\* What a worker knows of the files stays true while they stay as they are.
LEMMA SameRotation ==
  ASSUME UNCHANGED <<log, archives>>, NEW p \in Processes, RotationOf(p),
         process'[p].pc = process[p].pc, process'[p].slot = process[p].slot, process'[p].sequence = process[p].sequence
  PROVE  RotationOf(p)'
<1>1. NewestLines(p)' = NewestLines(p) /\ Own' = Own
  BY DEF NewestLines, Own, Owned
<1>2. ASSUME NEW i PROVE Uppermost(i)' <=> Uppermost(i)
  BY <1>1 DEF Uppermost
<1>3. Uppermost(process[p].slot)' <=> Uppermost(process[p].slot)
  BY <1>2 DEF Uppermost
<1>4. ASSUME process[p].pc = "copy"
      PROVE  LET file == archives'[process'[p].slot]
             IN /\ Uppermost(process[p].slot)' /\ file.of = log'[1]
                /\ Len(file.lines) <= Len(NewestLines(p)')
                /\ file.lines = SubSeq(NewestLines(p)', 1, Len(file.lines))
  BY <1>1, <1>3, <1>4 DEF RotationOf
<1> QED BY <1>1, <1>4 DEF RotationOf

\* Nothing is done to the files, and no work on them begins.
LEMMA Quiet ==
  ASSUME LogInv, NEW p \in Processes, NEW t \in States, process' = [process EXCEPT ![p] = t],
         UNCHANGED <<log, archives, ini, written>>, allowance' \in Budget,
         \/ t.pc \in {"idle", "try"}
         \/ p \in Running /\ t.pc = process[p].pc /\ t.slot = process[p].slot /\ t.sequence = process[p].sequence,
         Lost(t) => t.recorded, t.recorded => t.pending \/ t.told
  PROVE  LogInv'
<1>1. /\ process' \in [Processes -> States \cup {Nothing}]
      /\ process'[p] = t /\ Running' = Running \cup {p}
      /\ \A q \in Processes \ {p} : process'[q] = process[q] /\ Holds(q)' = Holds(q)
      /\ Holds(p)' <=> t.pc \in Holding
  BY Update DEF LogInv
<1>2. LogTypeOK'
  BY <1>1 DEF LogInv, LogTypeOK, Budget
<1>3. \A q \in Processes : Holds(q)' => Holds(q)
  BY <1>1 DEF Holds, Holding
<1>4. ExclusionInv'
  <2> SUFFICES ASSUME NEW q \in Processes, Holds(q)'
               PROVE  (\A r \in Running' \ {q} : ~Holds(r)') /\ ini' = "own"
    BY DEF ExclusionInv, Free
  <2>1. Holds(q) /\ ini = "own" /\ Free(q)
    BY <1>3 DEF LogInv, ExclusionInv
  <2>2. ASSUME NEW r \in Running' \ {q} PROVE ~Holds(r)'
    <3>1. r \in Processes
      BY DEF Running
    <3>2. ~Holds(r)
      BY <2>1, <3>1 DEF Free, Holds
    <3> QED BY <1>3, <3>1, <3>2
  <2> QED BY <2>1, <2>2
<1>5. RotationInv'
  <2> SUFFICES ASSUME NEW q \in Running' PROVE RotationOf(q)'
    BY DEF RotationInv
  <2>3. CASE q # p
    <3>1. q \in Running /\ process'[q] = process[q]
      BY <1>1, <2>3 DEF Running
    <3>2. RotationOf(q)
      BY <3>1 DEF LogInv, RotationInv
    <3> QED BY <3>1, <3>2, SameRotation DEF Running
  <2>4. CASE q = p /\ t.pc \in {"idle", "try"}
    BY <1>1, <2>4 DEF RotationOf
  <2>5. CASE q = p /\ t.pc \notin {"idle", "try"}
    <3>1. RotationOf(p)
      BY <2>5 DEF LogInv, RotationInv
    <3>2. process'[p].pc = process[p].pc /\ process'[p].slot = process[p].slot
          /\ process'[p].sequence = process[p].sequence
      BY <1>1, <2>5
    <3> QED BY <2>5, <3>1, <3>2, SameRotation
  <2> QED BY <2>3, <2>4, <2>5
<1>6. Chronicle'
  BY DEF LogInv, Chronicle
<1>7. LossInv'
  <2> SUFFICES ASSUME NEW q \in Running' PROVE LossOf(q)'
    BY DEF LossInv
  <2>1. CASE q # p
    <3>1. q \in Running /\ process'[q] = process[q]
      BY <1>1, <2>1 DEF Running
    <3> QED BY <3>1 DEF LogInv, LossInv, LossOf
  <2>2. CASE q = p
    BY <1>1, <2>2 DEF LossOf
  <2> QED BY <2>1, <2>2
<1> QED BY <1>2, <1>4, <1>5, <1>6, <1>7 DEF LogInv

(***************************************************************************)
(* The threads and the user.                                               *)
(***************************************************************************)
LEMMA LogStep == ASSUME LogInv, NEW p \in Processes, Log(p) PROVE LogInv'
<1> DEFINE s == process[p]
           sent == [s EXCEPT !.sent = @ + 1]
           t == IF sent.queue < QueueSize THEN [sent EXCEPT !.queue = @ + 1] ELSE Recorded(sent)
<1>1. p \in Running /\ s \in States /\ LogTypeOK /\ LossOf(p)
  BY Processing DEF Log, LogInv, LossInv
<1>2. process' = [process EXCEPT ![p] = t]
  BY DEF Log
<1>3. allowance' \in Budget
  BY <1>1, Spending DEF Log
<1>4. sent \in States /\ sent.queue = s.queue /\ sent.pc = s.pc
  BY <1>1 DEF States
<1>5. CASE sent.queue < QueueSize
  <2>1. /\ t \in States /\ t.pc = s.pc /\ t.slot = s.slot /\ t.sequence = s.sequence
        /\ t.recorded = s.recorded /\ t.pending = s.pending /\ t.told = s.told
        /\ t.sent = s.sent + 1 /\ t.queue = s.queue + 1 /\ t.kept = s.kept
    <3>1. t = [s EXCEPT !.sent = @ + 1, !.queue = @ + 1]
      BY <1>1, <1>5 DEF States
    <3>2. s.queue + 1 \in Nat /\ s.sent + 1 \in Nat
      BY <1>1 DEF States
    <3> QED BY <1>1, <3>1, <3>2 DEF States
  <2>2. Lost(t) => Lost(s)
    <3>1. s.sent \in Nat /\ s.kept \in Nat /\ s.queue \in Nat
      BY <1>1 DEF States
    <3> QED BY <2>1, <3>1 DEF Lost
  <2> HIDE DEF t
  <2> QED BY <1>1, <1>2, <1>3, <2>1, <2>2, Quiet DEF Log, LossOf
<1>6. CASE ~(sent.queue < QueueSize)
  <2>1. /\ t \in States /\ t.pc = s.pc /\ t.slot = s.slot /\ t.sequence = s.sequence
        /\ t.recorded
    BY <1>1, <1>4, <1>6 DEF States, Recorded
  <2>2. t.pending \/ t.told
    BY <1>1, <1>4, <1>6 DEF States, Recorded, LossOf
  <2> HIDE DEF t
  <2> QED BY <1>1, <1>2, <1>3, <2>1, <2>2, Quiet DEF Log
<1> QED BY <1>5, <1>6

LEMMA TakeFailureStep == ASSUME LogInv, NEW p \in Processes, TakeFailure(p) PROVE LogInv'
<1> DEFINE s == process[p]
           t == [s EXCEPT !.pending = FALSE, !.told = TRUE]
<1>1. p \in Running /\ s \in States /\ LogTypeOK /\ LossOf(p)
  BY Processing DEF TakeFailure, LogInv, LossInv
<1>2. process' = [process EXCEPT ![p] = t]
  BY <1>1 DEF TakeFailure, LogTypeOK
<1>3. /\ t \in States /\ t.pc = s.pc /\ t.slot = s.slot /\ t.sequence = s.sequence
      /\ t.recorded = s.recorded /\ t.told /\ t.sent = s.sent /\ t.queue = s.queue /\ t.kept = s.kept
  BY <1>1 DEF States
<1>4. Lost(t) <=> Lost(s)
  BY <1>3 DEF Lost
<1>5. allowance' \in Budget
  BY <1>1 DEF TakeFailure, LogTypeOK, Budget
<1> HIDE DEF t
<1> QED BY <1>1, <1>2, <1>3, <1>4, <1>5, Quiet DEF TakeFailure, LossOf

LEMMA StopStep == ASSUME LogInv, NEW p \in Processes, Stop(p) PROVE LogInv'
<1>1. PICK phase \in {"closing", "stopping"} : process' = [process EXCEPT ![p].phase = phase]
  BY DEF Stop
<1> DEFINE s == process[p]
           t == [s EXCEPT !.phase = phase]
<1>2. p \in Running /\ s \in States /\ LogTypeOK /\ LossOf(p)
  BY Processing DEF Stop, LogInv, LossInv
<1>3. process' = [process EXCEPT ![p] = t]
  BY <1>1, <1>2 DEF LogTypeOK
<1>4. /\ t \in States /\ t.pc = s.pc /\ t.slot = s.slot /\ t.sequence = s.sequence
      /\ t.recorded = s.recorded /\ t.told = s.told /\ t.pending = s.pending
      /\ t.sent = s.sent /\ t.queue = s.queue /\ t.kept = s.kept
  BY <1>2 DEF States
<1>5. Lost(t) <=> Lost(s)
  BY <1>4 DEF Lost
<1>6. allowance' \in Budget
  BY <1>2 DEF Stop, LogTypeOK, Budget
<1> HIDE DEF t
<1> QED BY <1>2, <1>3, <1>4, <1>5, <1>6, Quiet DEF Stop, LossOf

LEMMA StartStep == ASSUME LogInv, NEW p \in Processes, Start(p) PROVE LogInv'
<1>1. process' = [process EXCEPT ![p] = Started] /\ UNCHANGED <<log, archives, ini, written>>
  BY DEF Start
<1>2. /\ Started \in States /\ Started.pc = "idle" /\ Started.sent = 0 /\ Started.queue = 0 /\ Started.kept = 0
      /\ ~Started.recorded
  BY LoggingAssumption DEF Started, States
<1>3. ~Lost(Started)
  BY <1>2 DEF Lost
<1>4. allowance' \in Budget
  BY Spending DEF Start, LogInv
<1> QED BY <1>1, <1>2, <1>3, <1>4, Quiet

LEMMA EndProcessStep == ASSUME LogInv, NEW p \in Processes, EndProcess(p) PROVE LogInv'
<1>1. /\ process' = [process EXCEPT ![p] = Nothing] /\ UNCHANGED <<log, archives, ini, written>>
      /\ process \in [Processes -> States \cup {Nothing}] /\ LogTypeOK
  BY DEF EndProcess, LogInv, LogTypeOK
<1>2. process'[p] = Nothing /\ \A q \in Processes \ {p} : process'[q] = process[q]
  BY <1>1
<1>3. Running' = Running \ {p}
  BY <1>1, <1>2 DEF Running
<1>4. allowance' \in Budget
  <2>1. allowance \in Budget
    BY <1>1 DEF LogTypeOK, Budget
  <2>2. allowance' = allowance \/ Spend("kills")
    BY DEF EndProcess
  <2> QED BY <1>1, <2>1, <2>2, Spending
<1>5. LogTypeOK'
  BY <1>1, <1>4 DEF LogTypeOK, Budget
<1>6. \A q \in Processes : Holds(q)' => Holds(q)
  BY <1>2, <1>3 DEF Holds
<1>7. ExclusionInv'
  <2> SUFFICES ASSUME NEW q \in Processes, Holds(q)'
               PROVE  Free(q)' /\ ini' = "own"
    BY DEF ExclusionInv
  <2>1. Holds(q) /\ ini = "own" /\ Free(q)
    BY <1>6 DEF LogInv, ExclusionInv
  <2>2. ASSUME NEW r \in Running' \ {q} PROVE ~Holds(r)'
    BY <1>3, <1>6, <2>1 DEF Free, Running
  <2> QED BY <1>1, <2>1, <2>2 DEF Free
<1>8. RotationInv'
  <2> SUFFICES ASSUME NEW q \in Running' PROVE RotationOf(q)'
    BY DEF RotationInv
  <2>3. q \in Running /\ process'[q] = process[q]
    BY <1>2, <1>3 DEF Running
  <2>4. RotationOf(q)
    BY <2>3 DEF LogInv, RotationInv
  <2> QED BY <1>1, <2>3, <2>4, SameRotation DEF Running
<1>9. Chronicle'
  BY <1>1 DEF LogInv, Chronicle
<1>10. LossInv'
  BY <1>2, <1>3 DEF LogInv, LossInv, LossOf, Running
<1> QED BY <1>5, <1>7, <1>8, <1>9, <1>10 DEF LogInv

LEMMA ReceiveStep == ASSUME LogInv, NEW p \in Processes, Receive(p) PROVE LogInv'
<1> DEFINE s == process[p]
           t == [s EXCEPT !.queue = @ - 1, !.pc = "try"]
<1>1. p \in Running /\ s \in States /\ LogTypeOK /\ LossOf(p) /\ s.pc = "idle" /\ s.queue > 0
  BY Processing DEF Receive, LogInv, LossInv, At
<1>2. process' = [process EXCEPT ![p] = t]
  BY <1>1 DEF Receive, LogTypeOK
<1>3. /\ t \in States /\ t.pc = "try"
      /\ t.recorded = s.recorded /\ t.told = s.told /\ t.pending = s.pending
      /\ t.sent = s.sent /\ t.queue = s.queue - 1 /\ t.kept = s.kept
  <2>1. s.queue - 1 \in Nat
    BY <1>1 DEF States
  <2> QED BY <1>1, <2>1 DEF States
<1>4. Lost(t) <=> Lost(s)
  <2>1. s.sent \in Nat /\ s.kept \in Nat /\ s.queue \in Nat
    BY <1>1 DEF States
  <2> QED BY <1>1, <1>3, <2>1 DEF Lost
<1>5. allowance' \in Budget
  BY <1>1 DEF Receive, LogTypeOK, Budget
<1> HIDE DEF t
<1> QED BY <1>1, <1>2, <1>3, <1>4, <1>5, Quiet DEF Receive, LossOf

\* A line is given up, and the files stay as they are.
LEMMA QuietGivingUp ==
  ASSUME LogInv, NEW p \in Running, GiveUp(p), UNCHANGED <<log, archives, ini, written>>, allowance' \in Budget
  PROVE  LogInv'
<1>1. p \in Processes /\ LogTypeOK /\ LossOf(p)
  BY Processing DEF LogInv, LossInv
<1>2. PICK t \in States :
        /\ process' = [process EXCEPT ![p] = t]
        /\ t.pc = "idle" /\ t.recorded /\ (t.pending \/ t.told)
  BY <1>1, GivingUp
<1> QED BY <1>1, <1>2, Quiet

LEMMA BusyStep == ASSUME LogInv, NEW p \in Processes, Busy(p) PROVE LogInv'
<1>1. p \in Running /\ allowance' \in Budget
  BY DEF Busy, At, LogInv, LogTypeOK, Budget
<1> QED BY <1>1, QuietGivingUp DEF Busy

LEMMA BeginStep == ASSUME LogInv, NEW p \in Processes, Begin(p) PROVE LogInv'
<1>1. /\ p \in Running /\ allowance' \in Budget /\ LogTypeOK /\ process[p].pc = "try" /\ Free(p)
      /\ UNCHANGED <<log, archives, ini, written, allowance>>
  BY DEF Begin, At, LogInv, LogTypeOK, Budget
<1>2. CASE ini # "own"
  BY <1>1, <1>2, QuietGivingUp DEF Begin, IniSafe
<1>3. CASE ini = "own"
  <2> DEFINE pc == IF ~process[p].inspected \/ Full(p) THEN "inspect" ELSE "append"
  <2>1. Move(p, pc) /\ pc \in {"inspect", "append"}
    BY <1>3 DEF Begin, IniSafe
  <2> HIDE DEF pc
  <2>2. PICK t \in States :
          /\ process' = [process EXCEPT ![p] = t]
          /\ t.pc = pc /\ t.recorded = process[p].recorded /\ t.pending = process[p].pending /\ t.told = process[p].told
          /\ Lost(t) = Lost(process[p])
    BY <1>1, <2>1, Moving DEF Holding
  <2>3. /\ process' \in [Processes -> States \cup {Nothing}]
        /\ process'[p] = t /\ Running' = Running
        /\ \A q \in Processes \ {p} : process'[q] = process[q] /\ Holds(q)' = Holds(q)
    <3>1. p \in Processes
      BY <1>1, Processing
    <3>2. /\ process' \in [Processes -> States \cup {Nothing}]
          /\ process'[p] = t /\ Running' = Running \cup {p}
          /\ \A q \in Processes \ {p} : process'[q] = process[q] /\ Holds(q)' = Holds(q)
      BY <1>1, <2>2, <3>1, Update
    <3> QED BY <1>1, <3>2
  <2>4. LogTypeOK'
    BY <1>1, <2>3 DEF LogTypeOK
  <2>5. \A q \in Processes \ {p} : ~Holds(q)'
    BY <1>1, <2>3 DEF Free, Holds
  <2>6. ExclusionInv'
    BY <1>1, <1>3, <2>5 DEF ExclusionInv, Free, Running
  <2>7. RotationInv'
    <3> SUFFICES ASSUME NEW q \in Running' PROVE process'[q].pc \notin {"rotate", "create", "mark", "copy"}
      BY DEF RotationInv, RotationOf
    <3>1. CASE q = p
      BY <2>1, <2>2, <2>3, <3>1
    <3>2. CASE q # p
      <4>1. q \in Processes /\ ~Holds(q)'
        BY <2>5, <3>2 DEF Running
      <4> QED BY <4>1 DEF Holds, Holding
    <3> QED BY <3>1, <3>2
  <2>8. Chronicle'
    BY <1>1 DEF LogInv, Chronicle
  <2>9. LossInv'
    <3> SUFFICES ASSUME NEW q \in Running' PROVE LossOf(q)'
      BY DEF LossInv
    <3>1. LossOf(q) /\ q \in Processes
      BY <2>3 DEF LogInv, LossInv, Running
    <3> QED BY <2>2, <2>3, <3>1 DEF LossOf
  <2> QED BY <2>4, <2>6, <2>7, <2>8, <2>9 DEF LogInv
<1> QED BY <1>2, <1>3

LEMMA Fewer ==
  ASSUME NEW files, NEW others, NEW current, NEW count, InOrder(current, files, count),
         \A i \in Owned(others) : i \in Owned(files) /\ others[i] = files[i]
  PROVE  InOrder(current, others, count)
BY DEF InOrder

LEMMA KindsOfFiles ==
  /\ Blank \in Files /\ ForeignFile \in Files /\ Blank # Nothing /\ ForeignFile # Nothing
  /\ Blank.kind = "blank" /\ ForeignFile.kind = "foreign" /\ Blank # ForeignFile
<1>1. <<>> \in Seq(Nat) /\ 0 \in 0 .. MaxSequence
  BY LoggingAssumption
<1>2. Blank \in Files /\ ForeignFile \in Files
  BY <1>1 DEF Files, Blank, ForeignFile, Unknown
<1>3. Blank.kind = "blank" /\ ForeignFile.kind = "foreign"
  BY DEF Blank, ForeignFile, Unknown
<1> QED BY <1>2, <1>3, LoggingAssumption

LEMMA ChangeIniStep == ASSUME LogInv, ChangeIni PROVE LogInv'
<1>1. UNCHANGED <<log, archives, process, written>> /\ ini' \in {"own", "alias", "open"} /\ LogTypeOK
  BY DEF ChangeIni, LogInv
<1>2. allowance' \in Budget
  BY <1>1, Spending DEF ChangeIni
<1>3. LogTypeOK'
  BY <1>1, <1>2 DEF LogTypeOK, Budget
<1>4. ExclusionInv'
  BY <1>1 DEF ChangeIni, ExclusionInv, Holds, Running
<1>5. RotationInv'
  <2> SUFFICES ASSUME NEW q \in Running' PROVE RotationOf(q)'
    BY DEF RotationInv
  <2>1. q \in Running /\ process'[q] = process[q]
    BY <1>1 DEF Running
  <2>2. RotationOf(q)
    BY <2>1 DEF LogInv, RotationInv
  <2> QED BY <1>1, <2>1, <2>2, SameRotation DEF Running
<1>6. Chronicle' /\ LossInv'
  BY <1>1 DEF LogInv, Chronicle, LossInv, LossOf, Running
<1> QED BY <1>3, <1>4, <1>5, <1>6 DEF LogInv

LEMMA ReplaceStep == ASSUME LogInv, NEW i \in Paths, Replace(i) PROVE LogInv'
<1>1. /\ UNCHANGED <<log, ini, process, written>> /\ LogTypeOK
      /\ archives \in [Paths -> Files \cup {Nothing}]
  BY DEF Replace, LogInv, LogTypeOK
<1>2. allowance' \in Budget
  BY <1>1, Spending DEF Replace
<1>3. PICK file \in {ForeignFile, Nothing} : archives' = [archives EXCEPT ![i] = file]
  BY DEF Replace
<1>4. /\ archives' \in [Paths -> Files \cup {Nothing}]
      /\ \A j \in Paths \ {i} : archives'[j] = archives[j]
      /\ archives'[i] = file
  BY <1>1, <1>3, KindsOfFiles
<1>5. i \notin Own' /\ \A j \in Own' : j \in Own /\ archives'[j] = archives[j]
  BY <1>3, <1>4, KindsOfFiles DEF Own, Owned
<1>6. LogTypeOK'
  BY <1>1, <1>2, <1>4 DEF LogTypeOK, Budget
<1>7. ExclusionInv' /\ LossInv'
  BY <1>1 DEF LogInv, ExclusionInv, Free, Holds, Running, LossInv, LossOf
<1>8. RotationInv'
  <2> SUFFICES ASSUME NEW q \in Running', process'[q].pc \in {"rotate", "create", "mark", "copy"}
               PROVE  RotationOf(q)'
    BY DEF RotationInv, RotationOf
  <2>1. q \in Running /\ process'[q] = process[q] /\ q \in Processes /\ RotationOf(q)
    BY <1>1 DEF Running, LogInv, RotationInv
  <2>2. process[q].pc \in {"mark", "copy"} => i # process[q].slot
    BY <2>1 DEF Replace, Held, At
  <2>3. NewestLines(q)' = NewestLines(q)
    BY <1>1 DEF NewestLines
  <2>4. ASSUME process[q].pc = "mark" PROVE archives'[process[q].slot] = Blank
    BY <1>4, <2>1, <2>2, <2>4 DEF RotationOf
  <2>5. ASSUME process[q].pc = "copy"
        PROVE  Uppermost(process[q].slot)' /\ archives'[process[q].slot] = archives[process[q].slot]
    <3>1. Uppermost(process[q].slot) /\ process[q].slot \in Own /\ process[q].slot \in Paths
      BY <2>1, <2>5 DEF RotationOf, Uppermost
    <3>2. archives'[process[q].slot] = archives[process[q].slot] /\ process[q].slot \in Own'
      BY <1>4, <2>2, <2>5, <3>1 DEF Own, Owned
    <3> QED BY <1>5, <2>1, <3>1, <3>2 DEF Uppermost
  <2> QED BY <1>1, <1>5, <2>1, <2>3, <2>4, <2>5 DEF RotationOf
<1>9. Chronicle'
  BY <1>1, <1>5, Fewer DEF LogInv, Chronicle, Own
<1> QED BY <1>6, <1>7, <1>8, <1>9 DEF LogInv

(***************************************************************************)
(* The worker that holds the files.                                        *)
(***************************************************************************)
LEMMA LogWorking ==
  ASSUME LogInv, NEW p \in Running, Holds(p), NEW t \in States, process' = [process EXCEPT ![p] = t],
         ini' = ini, allowance' \in Budget,
         archives' \in [Paths -> Files \cup {Nothing}], log' \in Seq(Nat), written' \in Nat,
         RotationOf(p)', Chronicle', LossOf(p)'
  PROVE  LogInv'
<1>1. /\ ExclusionInv'
      /\ Running' = Running
      /\ \A q \in Running \ {p} : RotationOf(q)' /\ (LossOf(q)' <=> LossOf(q))
      /\ process' \in [Processes -> States \cup {Nothing}] /\ process'[p] = t
  BY Alone
<1>2. LogTypeOK'
  BY <1>1 DEF LogInv, LogTypeOK, Budget
<1>3. RotationInv'
  BY <1>1 DEF RotationInv
<1>4. LossInv'
  BY <1>1 DEF LossInv, LogInv
<1> QED BY <1>1, <1>2, <1>3, <1>4 DEF LogInv

\* The line is given up, and archives went away or none did.
LEMMA WorkingGivingUp ==
  ASSUME LogInv, NEW p \in Running, Holds(p), GiveUp(p), UNCHANGED <<log, ini, written>>, allowance' \in Budget,
         archives' \in [Paths -> Files \cup {Nothing}],
         \A i \in Own' : i \in Own /\ archives'[i] = archives[i]
  PROVE  LogInv'
<1>1. p \in Processes /\ LogTypeOK /\ LossOf(p) /\ log' \in Seq(Nat) /\ written' \in Nat
  BY Processing DEF LogInv, LossInv, LogTypeOK
<1>2. PICK t \in States :
        /\ process' = [process EXCEPT ![p] = t]
        /\ t.pc = "idle" /\ t.recorded /\ (t.pending \/ t.told)
  BY <1>1, GivingUp
<1>3. process'[p] = t
  BY <1>1, <1>2, Update
<1>4. RotationOf(p)' /\ LossOf(p)'
  BY <1>2, <1>3 DEF RotationOf, LossOf
<1>5. Chronicle'
  BY Fewer DEF LogInv, Chronicle, Own
<1> QED BY <1>1, <1>2, <1>4, <1>5, LogWorking

\* The worker goes on to a step for which the files are as they should be.
LEMMA WorkingOn ==
  ASSUME LogInv, NEW p \in Running, Holds(p), NEW pc \in Holding, Move(p, pc), UNCHANGED <<ini, allowance>>,
         archives' \in [Paths -> Files \cup {Nothing}], log' \in Seq(Nat), written' \in Nat, Chronicle',
         RotationOf(p)'
  PROVE  LogInv'
<1>1. p \in Processes /\ LogTypeOK /\ LossOf(p) /\ allowance' \in Budget /\ process[p].pc # "idle" /\ pc # "idle"
  BY Processing DEF LogInv, LossInv, LogTypeOK, Budget, Holds, Holding
<1>2. PICK t \in States :
        /\ process' = [process EXCEPT ![p] = t]
        /\ t.pc = pc /\ t.recorded = process[p].recorded /\ t.pending = process[p].pending /\ t.told = process[p].told
        /\ Lost(t) = Lost(process[p])
  BY <1>1, Moving
<1>3. process'[p] = t
  BY <1>1, <1>2, Update
<1>4. LossOf(p)'
  BY <1>1, <1>2, <1>3 DEF LossOf
<1> QED BY <1>1, <1>2, <1>4, LogWorking

LEMMA InspectStep == ASSUME LogInv, NEW p \in Processes, Inspect(p) PROVE LogInv'
<1> DEFINE i == process[p].slot + 1
           after == IF Full(p) THEN "rotate" ELSE "append"
           t == IF i < Slots THEN [process[p] EXCEPT !.slot = i]
                ELSE [process[p] EXCEPT !.slot = 0, !.inspected = TRUE, !.pc = after]
<1>1. /\ p \in Running /\ process[p].pc = "inspect" /\ UNCHANGED <<log, ini, written, allowance>>
      /\ Holds(p) /\ LogTypeOK
  BY DEF Inspect, At, Holds, Holding, LogInv
<1>2. /\ process \in [Processes -> States \cup {Nothing}] /\ process[p] \in States
      /\ archives \in [Paths -> Files \cup {Nothing}] /\ allowance' \in Budget
      /\ log \in Seq(Nat) /\ log' \in Seq(Nat) /\ written' \in Nat
  BY <1>1, Processing DEF LogTypeOK, Budget
<1>3. CASE i \in Unmarked
  <2>1. GiveUp(p) /\ archives' = archives
    BY <1>3 DEF Inspect
  <2>2. \A j \in Own' : j \in Own /\ archives'[j] = archives[j]
    BY <2>1 DEF Own, Owned
  <2> QED BY <1>1, <1>2, <2>1, <2>2, WorkingGivingUp
<1>4. CASE i \notin Unmarked
  <2>1. /\ archives' = IF i \in Own /\ i > Retained[p] THEN [archives EXCEPT ![i] = Nothing] ELSE archives
        /\ process' = [process EXCEPT ![p] = t]
    BY <1>2, <1>4 DEF Inspect
  <2>2. archives' \in [Paths -> Files \cup {Nothing}] /\ \A j \in Own' : j \in Own /\ archives'[j] = archives[j]
    BY <1>2, <2>1 DEF Own, Owned
  <2>3. i \in Nat /\ Slots \in Nat /\ (i < Slots => i \in 0 .. Slots) /\ 0 \in 0 .. Slots
    <3>1. process[p].slot \in 0 .. Slots
      BY <1>2 DEF States
    <3>2. \A x \in 0 .. Slots : x + 1 \in Nat
      OBVIOUS
    <3> QED BY <3>1, <3>2, SlotsType
  <2>4. after \in {"rotate", "append"} /\ (after = "rotate" => log # <<>>)
    <3>1. Full(p) => log # <<>>
      <4>1. MaxLength[p] \in Nat /\ Header \in Nat /\ Header < MaxLength[p]
        BY LoggingAssumption
      <4>2. Len(<<>>) = 0
        OBVIOUS
      <4> QED BY <4>1, <4>2 DEF Full
    <3> QED BY <3>1
  <2>5. /\ t \in States /\ t.pc \in {"inspect", "rotate", "append"} /\ (t.pc = "rotate" => log # <<>>)
        /\ t.recorded = process[p].recorded /\ t.pending = process[p].pending /\ t.told = process[p].told
        /\ t.sent = process[p].sent /\ t.kept = process[p].kept /\ t.queue = process[p].queue
    <3> HIDE DEF i, after
    <3>1. CASE i < Slots
      BY <1>1, <1>2, <2>3, <3>1 DEF States
    <3>2. CASE ~(i < Slots)
      BY <1>2, <2>3, <2>4, <3>2 DEF States, Holding
    <3> QED BY <3>1, <3>2
  <2> HIDE DEF t
  <2>6. process'[p] = t
    BY <1>1, <2>1, <2>5, Update
  <2>7. RotationOf(p)'
    BY <1>1, <2>5, <2>6 DEF RotationOf
  <2>8. LossOf(p)'
    <3>1. LossOf(p) /\ Lost(t) = Lost(process[p])
      BY <1>1, <2>5 DEF LogInv, LossInv, Lost
    <3> QED BY <2>5, <2>6, <3>1 DEF LossOf
  <2>9. Chronicle'
    BY <1>1, <2>2, Fewer DEF LogInv, Chronicle, Own
  <2> QED BY <1>1, <1>2, <2>1, <2>2, <2>5, <2>7, <2>8, <2>9, LogWorking
<1> QED BY <1>3, <1>4

LEMMA SequencesOfOwn ==
  ASSUME LogTypeOK
  PROVE  /\ Sequences \in SUBSET (0 .. MaxSequence)
         /\ NextSequence \in Nat \ {0} /\ \A i \in Own : archives[i].sequence < NextSequence
<1>1. \A i \in Own : archives[i] \in Files /\ archives[i].sequence \in 0 .. MaxSequence
  BY DEF LogTypeOK, Own, Owned, Files
<1>2. Sequences \in SUBSET (0 .. MaxSequence)
  BY <1>1 DEF Sequences
<1>3. Sequences \cup {0} \in SUBSET (0 .. MaxSequence) /\ MaxSequence \in Nat
  BY <1>2, LoggingAssumption
<1> DEFINE numbers == Sequences \cup {0}
           highest == Max(numbers)
<1>4. highest \in numbers /\ \A y \in numbers : y <= highest
  <2> HIDE DEF numbers
  <2>1. numbers \in SUBSET (0 .. MaxSequence) /\ numbers # {}
    BY <1>3 DEF numbers
  <2> QED BY <1>3, <2>1, Maximum
<1>5. highest \in Nat /\ NextSequence = 1 + highest
  BY <1>3, <1>4 DEF NextSequence
<1> HIDE DEF highest
<1>6. ASSUME NEW i \in Own PROVE archives[i].sequence < NextSequence
  <2>1. archives[i].sequence \in numbers /\ archives[i].sequence \in Nat
    BY <1>1 DEF Sequences
  <2> QED BY <1>4, <1>5, <2>1
<1>7. NextSequence \in Nat \ {0}
  BY <1>5
<1> QED BY <1>2, <1>6, <1>7

LEMMA OldestOf ==
  ASSUME LogTypeOK, NEW paths \in SUBSET Own, paths # {}
  PROVE  Oldest(paths) \in paths
<1> DEFINE numbers == {archives[i].sequence : i \in paths}
<1>1. \A i \in paths : archives[i].sequence \in Nat
  BY DEF LogTypeOK, Own, Owned, Files
<1>2. numbers \in SUBSET Nat /\ numbers # {}
  BY <1>1
<1>3. Min(numbers) \in numbers /\ \A y \in numbers : Min(numbers) <= y
  <2> HIDE DEF numbers
  <2> QED BY <1>2, Minimum
<1>4. PICK i \in paths : archives[i].sequence = Min(numbers)
  BY <1>3
<1>5. \A j \in paths : archives[i].sequence <= archives[j].sequence
  BY <1>3, <1>4
<1> QED BY <1>5 DEF Oldest

LEMMA RotateStep == ASSUME LogInv, NEW p \in Processes, Rotate(p) PROVE LogInv'
<1>1. /\ p \in Running /\ process[p].pc = "rotate" /\ UNCHANGED <<log, ini, written, allowance>>
      /\ Holds(p) /\ LogTypeOK
  BY DEF Rotate, At, Holds, Holding, LogInv
<1>2. /\ process \in [Processes -> States \cup {Nothing}] /\ process[p] \in States
      /\ archives \in [Paths -> Files \cup {Nothing}] /\ allowance' \in Budget
      /\ log' \in Seq(Nat) /\ written' \in Nat
  BY <1>1, Processing DEF LogTypeOK, Budget
<1> log # <<>>
  BY <1>1 DEF LogInv, RotationInv, RotationOf
<1>3. CASE Retained[p] = 0
  <2>1. Move(p, "truncate") /\ archives' = archives
    BY <1>3 DEF Rotate
  <2>2. process'[p].pc = "truncate"
    BY <1>2, <2>1 DEF Move, States
  <2>3. RotationOf(p)'
    BY <1>3, <2>2 DEF RotationOf
  <2>4. Chronicle'
    BY <1>1, <2>1 DEF LogInv, Chronicle
  <2> QED BY <1>1, <1>2, <2>1, <2>3, <2>4, WorkingOn DEF Holding
<1>4. CASE Retained[p] # 0 /\ NextSequence > MaxSequence
  <2>1. GiveUp(p) /\ archives' = archives
    BY <1>4 DEF Rotate
  <2>2. \A i \in Own' : i \in Own /\ archives'[i] = archives[i]
    BY <2>1 DEF Own, Owned
  <2> QED BY <1>1, <1>2, <2>1, <2>2, WorkingGivingUp
<1>5. CASE Retained[p] # 0 /\ ~(NextSequence > MaxSequence)
  <2> DEFINE mine == Own \cap (1 .. Retained[p])
             free == (1 .. Retained[p]) \ mine
             slot == IF free # {} THEN Min(free) ELSE Oldest(mine)
             t == [process[p] EXCEPT !.pc = "create", !.slot = slot, !.sequence = NextSequence]
  <2>1. Retained[p] \in 0 .. Slots /\ Slots \in Nat
    BY LoggingAssumption
  <2>2. slot \in 1 .. Retained[p]
    <3>1. CASE free # {}
      <4>1. Min(free) \in free
        BY <2>1, <3>1, Minimum
      <4> QED BY <3>1, <4>1
    <3>2. CASE free = {}
      <4>1. mine # {} /\ mine \in SUBSET Own
        BY <1>5, <2>1, <3>2
      <4>2. Oldest(mine) \in mine
        BY <1>1, <4>1, OldestOf
      <4> QED BY <3>2, <4>2
    <3> QED BY <3>1, <3>2
  <2>3. slot \in Paths /\ slot \in 0 .. Slots
    BY <2>1, <2>2 DEF Paths
  <2>4. /\ process' = [process EXCEPT ![p].pc = "create", ![p].slot = slot, ![p].sequence = NextSequence]
        /\ archives' = IF free # {} THEN archives ELSE [archives EXCEPT ![slot] = Nothing]
    BY <1>5 DEF Rotate
  <2>5. NextSequence \in 0 .. MaxSequence /\ \A i \in Own : archives[i].sequence < NextSequence
    BY <1>1, <1>5, SequencesOfOwn, LoggingAssumption
  <2> HIDE DEF slot
  <2>6. process' = [process EXCEPT ![p] = t]
    BY <1>2, <2>4
  <2>7. /\ t \in States /\ t.pc = "create" /\ t.slot = slot /\ t.sequence = NextSequence
        /\ t.recorded = process[p].recorded /\ t.pending = process[p].pending /\ t.told = process[p].told
        /\ t.sent = process[p].sent /\ t.kept = process[p].kept /\ t.queue = process[p].queue
    BY <1>2, <2>3, <2>5 DEF States, Holding
  <2>8. archives' \in [Paths -> Files \cup {Nothing}] /\ \A i \in Own' : i \in Own /\ archives'[i] = archives[i]
    BY <1>2, <2>3, <2>4 DEF Own, Owned
  <2> HIDE DEF t, free, mine
  <2>9. process'[p] = t
    BY <1>1, <2>6, <2>7, Update
  <2>10. RotationOf(p)'
    BY <1>1, <1>5, <2>3, <2>5, <2>7, <2>8, <2>9 DEF RotationOf
  <2>11. LossOf(p)'
    <3>1. LossOf(p) /\ Lost(t) = Lost(process[p])
      BY <1>1, <2>7 DEF LogInv, LossInv, Lost
    <3> QED BY <2>7, <2>9, <3>1 DEF LossOf
  <2>12. Chronicle'
    BY <1>1, <2>8, Fewer DEF LogInv, Chronicle, Own
  <2> QED BY <1>1, <1>2, <2>6, <2>7, <2>8, <2>10, <2>11, <2>12, LogWorking
<1> QED BY <1>3, <1>4, <1>5

LEMMA CreateStep == ASSUME LogInv, NEW p \in Processes, Create(p) PROVE LogInv'
<1> DEFINE slot == process[p].slot
<1>1. /\ p \in Running /\ process[p].pc = "create" /\ UNCHANGED <<log, ini, written, allowance>>
      /\ Holds(p) /\ LogTypeOK
  BY DEF Create, At, Holds, Holding, LogInv
<1>2. /\ process \in [Processes -> States \cup {Nothing}] /\ process[p] \in States
      /\ archives \in [Paths -> Files \cup {Nothing}] /\ allowance' \in Budget
      /\ log' \in Seq(Nat) /\ written' \in Nat
  BY <1>1, Processing DEF LogTypeOK, Budget
<1>3. RotationOf(p)
  BY <1>1 DEF LogInv, RotationInv
<1>4. /\ slot \in Paths /\ Retained[p] # 0 /\ log # <<>>
      /\ \A i \in Own : archives[i].sequence < process[p].sequence
  BY <1>1, <1>3 DEF RotationOf
<1>5. CASE Vacant(slot)
  <2>1. Move(p, "mark") /\ archives' = [archives EXCEPT ![slot] = Blank]
    BY <1>5 DEF Create
  <2>2. /\ archives' \in [Paths -> Files \cup {Nothing}] /\ archives'[slot] = Blank
        /\ \A i \in Paths \ {slot} : archives'[i] = archives[i]
    BY <1>2, <1>4, <2>1, KindsOfFiles
  <2>3. \A i \in Own' : i \in Own /\ archives'[i] = archives[i]
    BY <2>2, KindsOfFiles DEF Own, Owned
  <2>4. process'[p].pc = "mark" /\ process'[p].slot = slot /\ process'[p].sequence = process[p].sequence
    BY <1>2, <2>1 DEF Move, States
  <2>5. RotationOf(p)'
    BY <1>1, <1>4, <2>2, <2>3, <2>4 DEF RotationOf
  <2>6. Chronicle'
    BY <1>1, <2>3, Fewer DEF LogInv, Chronicle, Own
  <2> QED BY <1>1, <1>2, <2>1, <2>2, <2>5, <2>6, WorkingOn DEF Holding
<1>6. CASE ~Vacant(slot)
  <2>1. GiveUp(p) /\ archives' = archives
    BY <1>6 DEF Create
  <2>2. \A i \in Own' : i \in Own /\ archives'[i] = archives[i]
    BY <2>1 DEF Own, Owned
  <2> QED BY <1>1, <1>2, <2>1, <2>2, WorkingGivingUp
<1> QED BY <1>5, <1>6

LEMMA FailStep == ASSUME LogInv, NEW p \in Processes, Fail(p) PROVE LogInv'
<1>1. p \in Running /\ UNCHANGED <<log, ini, written>> /\ Holds(p) /\ LogTypeOK /\ GiveUp(p) /\ Discard(p)
  BY DEF Fail, Holds, LogInv
<1>2. allowance' \in Budget /\ archives \in [Paths -> Files \cup {Nothing}]
  BY <1>1, Spending DEF Fail, LogTypeOK
<1>3. archives' \in [Paths -> Files \cup {Nothing}] /\ \A i \in Own' : i \in Own /\ archives'[i] = archives[i]
  <2>1. CASE archives' = archives
    BY <1>2, <2>1 DEF Own, Owned
  <2>2. CASE archives' = [archives EXCEPT ![process[p].slot] = Nothing]
    BY <1>2, <2>2 DEF Own, Owned
  <2> QED BY <1>1, <2>1, <2>2 DEF Discard
<1> QED BY <1>1, <1>2, <1>3, WorkingGivingUp

LEMMA FilesOfOwn ==
  ASSUME LogTypeOK, NEW i \in Own
  PROVE  /\ i \in Paths /\ archives[i] \in Files /\ archives[i].sequence \in Nat /\ archives[i].lines \in Seq(Nat)
         /\ archives[i].kind = "own" /\ archives[i].of \in Nat
BY DEF LogTypeOK, Own, Owned, Files

\* The log begins with a line that was written.
LEMMA FirstLine ==
  ASSUME LogTypeOK, Chronicle, log # <<>>
  PROVE  log[1] \in 1 .. written
<1>1. Len(log) \in Nat \ {0} /\ written \in Nat /\ 1 \in DOMAIN log
  BY DEF LogTypeOK
<1>2. Len(log) <= written /\ log[1] = written - Len(log) + 1
  BY <1>1 DEF Chronicle, InOrder
<1> QED BY <1>1, <1>2

\* The newest archive of what is in the log is in its place.
LEMMA OnTop ==
  ASSUME LogInv, NEW slot \in Paths, UNCHANGED <<log, written>>, log # <<>>,
         slot \in Own', \A i \in Own' \ {slot} : i \in Own /\ archives'[i] = archives[i],
         archives'[slot].of = log[1], archives'[slot].sequence \in Nat,
         \A i \in Own' \ {slot} : archives[i].sequence < archives'[slot].sequence,
         \A n \in DOMAIN archives'[slot].lines :
           /\ archives'[slot].lines[n] \in log[1] .. written
           /\ archives'[slot].lines[n] = archives'[slot].lines[1] + n - 1
  PROVE  Chronicle'
<1>1. Chronicle /\ LogTypeOK /\ Owned(archives') = Own'
  BY DEF LogInv, Own
<1>2. log[1] \in 1 .. written /\ log[1] \in Nat /\ written \in Nat
  BY <1>1, FirstLine DEF LogTypeOK
<1>3. Len(log) <= written /\ \A n \in DOMAIN log : log[n] = written - Len(log) + n
  BY <1>1 DEF Chronicle, InOrder
<1>4. Precedes(archives'[slot], log[1])
  BY <1>2 DEF Precedes
<1>5. ASSUME NEW i \in Own' \ {slot}
      PROVE  /\ archives'[i].of \in 1 .. written
             /\ \A n \in DOMAIN archives'[i].lines :
                  /\ archives'[i].lines[n] \in archives'[i].of .. written
                  /\ archives'[i].lines[n] = archives'[i].lines[1] + n - 1
             /\ Precedes(archives'[i], log[1])
             /\ archives'[i].sequence # archives'[slot].sequence
             /\ archives'[i].sequence < archives'[slot].sequence
             /\ archives'[i].sequence \in Nat
  <2>1. i \in Own /\ archives'[i] = archives[i] /\ archives[i].sequence \in Nat
    BY <1>1, FilesOfOwn
  <2>2. archives[i].sequence < archives'[slot].sequence
    OBVIOUS
  <2> QED BY <1>1, <2>1, <2>2 DEF Chronicle, InOrder, Own
<1>6. ASSUME NEW i \in Own' \ {slot}, NEW j \in Own' \ {i, slot}
      PROVE  /\ archives'[i].sequence # archives'[j].sequence
             /\ archives'[i].sequence < archives'[j].sequence => Precedes(archives'[i], archives'[j].of)
  BY <1>1 DEF Chronicle, InOrder, Own
<1>7. ASSUME NEW i \in Own'
      PROVE  /\ archives'[i].of \in 1 .. written'
             /\ \A n \in DOMAIN archives'[i].lines :
                  /\ archives'[i].lines[n] \in archives'[i].of .. written'
                  /\ archives'[i].lines[n] = archives'[i].lines[1] + n - 1
             /\ log' # <<>> => Precedes(archives'[i], log'[1])
             /\ \A j \in Own' \ {i} :
                  /\ archives'[i].sequence # archives'[j].sequence
                  /\ archives'[i].sequence < archives'[j].sequence => Precedes(archives'[i], archives'[j].of)
  <2>1. CASE i = slot
    <3>1. ASSUME NEW j \in Own' \ {i}
          PROVE  archives'[i].sequence # archives'[j].sequence /\ ~(archives'[i].sequence < archives'[j].sequence)
      BY <1>5, <2>1
    <3> QED BY <1>2, <1>4, <2>1, <3>1
  <2>2. CASE i # slot
    <3>1. ASSUME NEW j \in Own' \ {i}
          PROVE  /\ archives'[i].sequence # archives'[j].sequence
                 /\ archives'[i].sequence < archives'[j].sequence => Precedes(archives'[i], archives'[j].of)
      <4>1. CASE j = slot
        BY <1>5, <2>2, <4>1
      <4>2. CASE j # slot
        BY <1>6, <2>2, <4>2
      <4> QED BY <4>1, <4>2
    <3> QED BY <1>5, <2>2, <3>1
  <2> QED BY <2>1, <2>2
<1> QED BY <1>1, <1>3, <1>7 DEF Chronicle, InOrder

LEMMA MarkStep == ASSUME LogInv, NEW p \in Processes, Mark(p) PROVE LogInv'
<1> DEFINE slot == process[p].slot
           new == Archive(process[p].sequence, log[1], <<>>)
<1>1. /\ p \in Running /\ process[p].pc = "mark" /\ UNCHANGED <<log, ini, written, allowance>>
      /\ Holds(p) /\ LogTypeOK /\ Move(p, "copy") /\ archives' = [archives EXCEPT ![slot] = new]
  BY DEF Mark, At, Holds, Holding, LogInv
<1>2. /\ process \in [Processes -> States \cup {Nothing}] /\ process[p] \in States
      /\ archives \in [Paths -> Files \cup {Nothing}]
      /\ log' \in Seq(Nat) /\ written' \in Nat
  BY <1>1, Processing DEF LogTypeOK
<1>3. RotationOf(p) /\ Chronicle
  BY <1>1 DEF LogInv, RotationInv
<1>4. /\ slot \in Paths /\ Retained[p] # 0 /\ \A i \in Own : archives[i].sequence < process[p].sequence
      /\ archives[slot] = Blank /\ log # <<>>
  BY <1>1, <1>3 DEF RotationOf
<1>5. process[p].sequence \in 0 .. MaxSequence /\ <<>> \in Seq(Nat) /\ log[1] \in Nat /\ MaxSequence \in Nat
  <2>1. process[p].sequence \in 0 .. MaxSequence
    BY <1>2 DEF States
  <2>2. log[1] \in Nat
    BY <1>1, <1>3, <1>4, FirstLine
  <2> QED BY <2>1, <2>2, SlotsType
<1>6. /\ new \in Files /\ new.kind = "own" /\ new.lines = <<>> /\ new.sequence = process[p].sequence
      /\ new.of = log[1]
  BY <1>5 DEF Files, Archive
<1> HIDE DEF new
<1>7. /\ archives' \in [Paths -> Files \cup {Nothing}] /\ archives'[slot] = new
      /\ \A i \in Paths \ {slot} : archives'[i] = archives[i]
  BY <1>1, <1>2, <1>4, <1>6
<1>8. slot \in Own' /\ slot \notin Own
  BY <1>4, <1>6, <1>7, KindsOfFiles, LoggingAssumption DEF Own, Owned
<1>9. \A i \in Own' \ {slot} : i \in Own /\ archives'[i] = archives[i]
  BY <1>7 DEF Own, Owned
<1>10. /\ process'[p].pc = "copy" /\ process'[p].slot = slot
  BY <1>2, <1>1 DEF Move, States
<1>11. RotationOf(p)'
  <2>1. Uppermost(slot)'
    BY <1>4, <1>6, <1>7, <1>8, <1>9, <1>10 DEF Uppermost
  <2>2. NewestLines(p)' \in Seq(Nat) /\ Len(NewestLines(p)') \in Nat /\ Len(<<>>) = 0
        /\ SubSeq(NewestLines(p)', 1, 0) = <<>>
    <3>1. NewestLines(p) \in Seq(Nat) /\ NewestLines(p)' = NewestLines(p)
      BY <1>1, <1>4, Newest DEF NewestLines
    <3> QED BY <3>1, SubSeqEmpty
  <2>3. /\ archives'[slot].of = log'[1] /\ archives'[slot].lines = <<>>
        /\ Len(archives'[slot].lines) <= Len(NewestLines(p)')
        /\ archives'[slot].lines = SubSeq(NewestLines(p)', 1, Len(archives'[slot].lines))
    <3>1. archives'[slot].of = log'[1] /\ archives'[slot].lines = <<>>
      BY <1>1, <1>6, <1>7
    <3>2. Len(archives'[slot].lines) = 0
      BY <2>2, <3>1
    <3>3. 0 <= Len(NewestLines(p)')
      BY <2>2
    <3> QED BY <2>2, <3>1, <3>2, <3>3, Zenon
  <2>4. process'[p].slot = slot /\ Uppermost(process[p].slot)'
    BY <1>10, <2>1 DEF Uppermost
  <2> QED BY <1>1, <1>4, <1>10, <2>3, <2>4 DEF RotationOf
<1>12. Chronicle'
  <2>1. DOMAIN archives'[slot].lines = {}
    BY <1>6, <1>7, EmptyDomain
  <2> QED BY <1>1, <1>4, <1>5, <1>6, <1>7, <1>8, <1>9, <2>1, OnTop
<1> QED BY <1>1, <1>2, <1>7, <1>11, <1>12, WorkingOn DEF Holding

\* What is copied next.
LEMMA CopyStep == ASSUME LogInv, NEW p \in Processes, Copy(p) PROVE LogInv'
<1> DEFINE slot == process[p].slot
           newest == NewestLines(p)
           copied == Len(archives[slot].lines)
<1>1. /\ p \in Running /\ process[p].pc = "copy" /\ UNCHANGED <<log, ini, written, allowance>>
      /\ Holds(p) /\ LogTypeOK /\ Chronicle
  BY DEF Copy, At, Holds, Holding, LogInv
<1>2. /\ process \in [Processes -> States \cup {Nothing}] /\ process[p] \in States
      /\ archives \in [Paths -> Files \cup {Nothing}] /\ allowance' \in Budget
      /\ log' \in Seq(Nat) /\ written' \in Nat
  BY <1>1, Processing DEF LogTypeOK, Budget
<1>3. RotationOf(p)
  BY <1>1 DEF LogInv, RotationInv
<1>4. slot \in Paths /\ Retained[p] # 0 /\ Uppermost(slot) /\ log # <<>> /\ archives[slot].of = log[1]
  BY <1>1, <1>3 DEF RotationOf
<1>5. slot \in Own /\ archives[slot] \in Files /\ archives[slot].kind = "own" /\ archives[slot].sequence \in Nat
  BY <1>1, <1>4, FilesOfOwn DEF Uppermost
<1>6. CASE ~(copied < Len(newest))
  <2>1. Move(p, "truncate") /\ archives' = archives
    BY <1>6 DEF Copy
  <2>2. process'[p].pc = "truncate"
    BY <1>2, <2>1 DEF Move, States
  <2>3. RotationOf(p)'
    BY <2>2 DEF RotationOf
  <2>4. Chronicle'
    BY <1>1, <2>1 DEF Chronicle
  <2> QED BY <1>1, <1>2, <2>1, <2>3, <2>4, WorkingOn DEF Holding
<1>7. CASE copied < Len(newest)
  <2> DEFINE lines == SubSeq(newest, 1, copied + 1)
  <2>1. archives' = [archives EXCEPT ![slot].lines = lines] /\ process' = process
    BY <1>7 DEF Copy
  <2>2. newest \in Seq(Nat) /\ copied \in Nat /\ copied + 1 \in 0 .. Len(newest)
    <3>1. newest \in Seq(Nat) /\ archives[slot].lines \in Seq(Nat)
      BY <1>1, <1>4, <1>5, Newest, FilesOfOwn
    <3> HIDE DEF newest
    <3>2. Len(newest) \in Nat /\ copied \in Nat
      BY <3>1
    <3> QED BY <1>7, <3>1, <3>2
  <2>3. /\ lines \in Seq(Nat) /\ Len(lines) = copied + 1
        /\ \A n \in DOMAIN lines : lines[n] \in log[1] .. written /\ lines[n] = lines[1] + n - 1
    BY <1>1, <1>4, <2>2, Beginning
  <2>4. newest' = newest
    BY <1>1 DEF NewestLines
  <2> HIDE DEF newest, lines
  <2>5. /\ archives'[slot] = [archives[slot] EXCEPT !.lines = lines]
        /\ \A i \in Paths \ {slot} : archives'[i] = archives[i]
    BY <1>2, <1>4, <2>1
  <2>6. /\ archives'[slot] \in Files /\ archives'[slot].lines = lines /\ archives'[slot].kind = "own"
        /\ archives'[slot].sequence = archives[slot].sequence /\ archives'[slot].of = archives[slot].of
    BY <1>5, <2>3, <2>5 DEF Files
  <2>7. archives' \in [Paths -> Files \cup {Nothing}]
    BY <1>2, <1>4, <2>1, <2>5, <2>6
  <2>8. Own' = Own
    BY <1>5, <2>5, <2>6, LoggingAssumption DEF Own, Owned
  <2>9. \A i \in Own \ {slot} : archives'[i] = archives[i] /\ archives[i].sequence < archives[slot].sequence
    BY <1>4, <2>5 DEF Own, Owned, Uppermost
  <2>10. RotationOf(p)'
    <3>1. Uppermost(slot)'
      BY <1>5, <2>1, <2>6, <2>8, <2>9 DEF Uppermost
    <3>2. Len(lines) <= Len(newest) /\ lines = SubSeq(newest, 1, Len(lines))
      BY <2>2, <2>3 DEF lines
    <3> QED BY <1>1, <1>4, <2>1, <2>4, <2>6, <3>1, <3>2 DEF RotationOf, newest
  <2>11. Chronicle'
    BY <1>1, <1>4, <1>5, <2>3, <2>6, <2>8, <2>9, OnTop
  <2>12. LossOf(p)' /\ process' = [process EXCEPT ![p] = process[p]]
    BY <1>1, <1>2, <2>1 DEF LogInv, LossInv, LossOf
  <2> QED BY <1>1, <1>2, <2>7, <2>10, <2>11, <2>12, LogWorking
<1> QED BY <1>6, <1>7

LEMMA TruncateStep == ASSUME LogInv, NEW p \in Processes, Truncate(p) PROVE LogInv'
<1>1. /\ p \in Running /\ process[p].pc = "truncate" /\ UNCHANGED <<archives, ini, written, allowance>>
      /\ Holds(p) /\ LogTypeOK /\ Move(p, "append") /\ log' = <<>>
  BY DEF Truncate, At, Holds, Holding, LogInv
<1>2. /\ process \in [Processes -> States \cup {Nothing}] /\ process[p] \in States
      /\ archives' \in [Paths -> Files \cup {Nothing}]
      /\ log' \in Seq(Nat) /\ written' \in Nat
  BY <1>1, Processing DEF LogTypeOK
<1>3. process'[p].pc = "append"
  BY <1>1, <1>2 DEF Move, States
<1>4. RotationOf(p)'
  BY <1>3 DEF RotationOf
<1>5. Chronicle'
  <2>1. DOMAIN log' = {} /\ Len(log') = 0
    BY <1>1, EmptyDomain
  <2>2. Len(log') <= written'
    BY <1>2, <2>1
  <2> QED BY <1>1, <2>1, <2>2 DEF LogInv, Chronicle, InOrder
<1> QED BY <1>1, <1>2, <1>4, <1>5, WorkingOn DEF Holding

LEMMA WriteLineStep == ASSUME LogInv, NEW p \in Processes, WriteLine(p) PROVE LogInv'
<1> DEFINE s == process[p]
           more == [s EXCEPT !.kept = @ + 1]
           t == Finished(more)
<1>1. /\ p \in Running /\ s.pc = "append" /\ UNCHANGED <<archives, ini, allowance>>
      /\ Holds(p) /\ LogTypeOK /\ log' = Append(log, written + 1) /\ written' = written + 1
  BY DEF WriteLine, At, Holds, Holding, LogInv
<1>2. /\ process \in [Processes -> States \cup {Nothing}] /\ s \in States
      /\ archives' \in [Paths -> Files \cup {Nothing}] /\ allowance' \in Budget
      /\ log \in Seq(Nat) /\ written \in Nat /\ written' \in Nat
  BY <1>1, Processing DEF LogTypeOK, Budget
<1>3. /\ log' \in Seq(Nat) /\ Len(log') = Len(log) + 1 /\ DOMAIN log' = 1 .. (Len(log) + 1)
      /\ \A i \in 1 .. Len(log) : log'[i] = log[i]
      /\ log'[Len(log) + 1] = written + 1 /\ DOMAIN log = 1 .. Len(log) /\ Len(log) \in Nat
  BY <1>1, <1>2, Appending
<1>4. process' = [process EXCEPT ![p] = t]
  BY DEF WriteLine
<1>5. /\ t \in States /\ t.pc = "idle"
      /\ t.recorded = s.recorded /\ t.pending = s.pending /\ t.told = s.told
      /\ t.sent = s.sent /\ t.kept = s.kept + 1 /\ t.queue = s.queue
  <2>1. s.kept + 1 \in Nat /\ 0 \in 0 .. Slots /\ 0 \in 0 .. MaxSequence
    BY <1>2, LoggingAssumption DEF States
  <2>2. /\ more \in States /\ more.kept = s.kept + 1 /\ more.sent = s.sent /\ more.queue = s.queue
        /\ more.recorded = s.recorded /\ more.pending = s.pending /\ more.told = s.told
    BY <1>2, <2>1 DEF States
  <2> HIDE DEF more
  <2> QED BY <2>1, <2>2 DEF States, Finished
<1>6. Lost(t) <=> Lost(s)
  <2>1. s.sent \in Nat /\ s.kept \in Nat /\ s.queue \in Nat
    BY <1>2 DEF States
  <2> QED BY <1>1, <1>5, <2>1 DEF Lost
<1> HIDE DEF t
<1>7. process'[p] = t
  BY <1>1, <1>4, <1>5, Update
<1>8. RotationOf(p)'
  BY <1>5, <1>7 DEF RotationOf
<1>9. LossOf(p)'
  BY <1>1, <1>5, <1>6, <1>7 DEF LogInv, LossInv, LossOf
<1>10. Chronicle'
  <2>1. /\ Chronicle /\ Len(log) <= written /\ \A n \in 1 .. Len(log) : log[n] = written - Len(log) + n
        /\ archives' = archives /\ Owned(archives) = Own
    BY <1>1, <1>3 DEF LogInv, Chronicle, InOrder, Own
  <2>2. Len(log') <= written' /\ \A n \in DOMAIN log' : log'[n] = written' - Len(log') + n
    <3>1. Len(log') = Len(log) + 1 /\ written' = written + 1 /\ DOMAIN log' = 1 .. (Len(log) + 1)
      BY <1>1, <1>3
    <3>2. ASSUME NEW n \in 1 .. (Len(log) + 1) PROVE log'[n] = written' - Len(log') + n
      <4>1. CASE n \in 1 .. Len(log)
        BY <1>2, <1>3, <2>1, <3>1, <4>1
      <4>2. CASE n = Len(log) + 1
        BY <1>2, <1>3, <3>1, <4>2
      <4> QED BY <1>3, <4>1, <4>2
    <3> QED BY <1>2, <1>3, <2>1, <3>1, <3>2
  <2>3. ASSUME NEW i \in Own
        PROVE  /\ archives[i].of \in 1 .. written'
               /\ \A n \in DOMAIN archives[i].lines :
                    /\ archives[i].lines[n] \in archives[i].of .. written'
                    /\ archives[i].lines[n] = archives[i].lines[1] + n - 1
               /\ Precedes(archives[i], log'[1])
    <3>1. /\ archives[i].of \in 1 .. written
          /\ \A n \in DOMAIN archives[i].lines :
               /\ archives[i].lines[n] \in archives[i].of .. written
               /\ archives[i].lines[n] = archives[i].lines[1] + n - 1
          /\ log # <<>> => Precedes(archives[i], log[1])
      BY <2>1 DEF Chronicle, InOrder
    <3>2. CASE log = <<>>
      <4>1. Len(log) = 0
        BY <3>2
      <4>2. log'[1] = written + 1
        BY <1>3, <4>1
      <4> QED BY <1>1, <1>2, <3>1, <4>2 DEF Precedes
    <3>3. CASE log # <<>>
      <4>1. Len(log) # 0
        BY <1>2, <3>3
      <4>2. log'[1] = log[1]
        BY <1>3, <4>1
      <4> QED BY <1>1, <1>2, <3>1, <3>3, <4>2
    <3> QED BY <3>2, <3>3
  <2>4. \A i \in Own : \A j \in Own \ {i} :
          /\ archives[i].sequence # archives[j].sequence
          /\ archives[i].sequence < archives[j].sequence => Precedes(archives[i], archives[j].of)
    BY <2>1 DEF Chronicle, InOrder
  <2> QED BY <2>1, <2>2, <2>3, <2>4 DEF Chronicle, InOrder
<1> QED BY <1>1, <1>2, <1>3, <1>4, <1>5, <1>8, <1>9, <1>10, LogWorking

(***************************************************************************)
(* Every step.                                                             *)
(***************************************************************************)
LEMMA InvFirst == LogInit => LogInv
<1> SUFFICES ASSUME LogInit PROVE LogInv
  OBVIOUS
<1>1. PICK h \in Histories : log = h.log /\ archives = h.archives /\ written = h.written
  BY DEF LogInit
<1>2. /\ log \in Seq(Nat) /\ archives \in [Paths -> Files \cup {Nothing}] /\ written \in Nat
      /\ InOrder(log, archives, written)
  BY <1>1, LoggingAssumption
<1>3. Cardinality(Processes) + Kills \in Nat /\ {MaxLines, Kills, Faults, Intrusions} \subseteq Nat
  BY LoggingAssumption, FS_CardinalityType
<1>4. allowance \in Budget
  BY <1>3 DEF LogInit, Budget
<1>5. process \in [Processes -> States \cup {Nothing}] /\ Running = {}
  BY DEF LogInit, Running
<1>6. LogTypeOK
  BY <1>2, <1>4, <1>5 DEF LogInit, LogTypeOK, Budget
<1> QED BY <1>2, <1>5, <1>6 DEF LogInv, ExclusionInv, Holds, RotationInv, Chronicle, LossInv

LEMMA InvNext == LogInv /\ [LogNext]_logVars => LogInv'
<1> SUFFICES ASSUME LogInv, [LogNext]_logVars PROVE LogInv'
  OBVIOUS
<1>1. CASE User
  BY <1>1, ChangeIniStep, ReplaceStep DEF User
<1>2. ASSUME NEW p \in Processes, Threads(p) PROVE LogInv'
  BY <1>2, LogStep, TakeFailureStep, StopStep, EndProcessStep, StartStep DEF Threads
<1>3. ASSUME NEW p \in Processes, Work(p) PROVE LogInv'
  BY <1>3, ReceiveStep, BeginStep, BusyStep, InspectStep, RotateStep, CreateStep, MarkStep, CopyStep,
     TruncateStep, WriteLineStep, FailStep DEF Work
<1>4. CASE UNCHANGED logVars
  BY <1>4 DEF logVars, LogInv, LogTypeOK, ExclusionInv, RotationInv, RotationOf, Uppermost, Chronicle, LossInv, LossOf,
     Free, Holds, Running, Own, NewestLines
<1> QED BY <1>1, <1>2, <1>3, <1>4 DEF LogNext

\* The invariant holds in every state: one writer at a time, a rotation that
\* knows what it has done, ordered files, and no loss without a word on its way.
THEOREM InvAlways == LogSpec => []LogInv
BY InvFirst, InvNext, PTL DEF LogSpec

\* Every variable has its type, whatever fails and whoever ends.
THEOREM LogTypeCorrect == LogSpec => []LogTypeOK
<1>1. LogInv => LogTypeOK
  BY DEF LogInv
<1> QED BY <1>1, InvAlways, PTL

\* Whoever reads the archives by number and then the log reads the lines in
\* the order written: they follow one another in each, those of an archive come
\* before those of the later archives and of the log, and one is met again only
\* in copies of one log (config/logging/rotation.rs:161).
THEOREM TheChronicleIsInOrder == LogSpec => []Chronicle
<1>1. LogInv => Chronicle
  BY DEF LogInv
<1> QED BY <1>1, InvAlways, PTL

\* While the UI runs, a line that did not get into the log is on its way, or
\* the user has been told or the next tick of the UI's timer tells him
\* (config/logging/worker.rs:45).
THEOREM LossesAreTold == LogSpec => []LossIsTold
<1>1. LogInv => LossIsTold
  <2> SUFFICES ASSUME LogInv, NEW p \in Running, process[p].phase = "live",
                      process[p].sent # process[p].kept + (process[p].queue + IF process[p].pc = "idle" THEN 0 ELSE 1)
               PROVE  process[p].pending \/ process[p].told
    BY DEF LossIsTold
  <2>1. process[p].sent \in Nat /\ process[p].kept \in Nat /\ process[p].queue \in Nat
    BY Processing DEF LogInv, States
  <2>2. Lost(process[p])
    BY <2>1 DEF Lost
  <2> QED BY <2>2 DEF LogInv, LossInv, LossOf
<1> QED BY <1>1, InvAlways, PTL

\* The log is true: its lines are in the order written, and none is lost in
\* silence while there is somebody to tell (config/logging/rotation.rs:161,
\* config/logging/worker.rs:45).
THEOREM LogStaysTrue == LogSpec => []LogIsTrue
BY TheChronicleIsInOrder, LossesAreTold, PTL DEF LogIsTrue

(***************************************************************************)
(* What a step may never do.                                               *)
(***************************************************************************)
\* A process that moves is the only one that does, and does one thing.
LEMMA StepsOfLog ==
  ASSUME LogNext, log' # log
  PROVE  \E p \in Processes : Truncate(p) \/ WriteLine(p)
BY DEF LogNext, User, ChangeIni, Replace, Threads, Log, TakeFailure, Stop, EndProcess, Start,
   Work, Receive, Begin, Busy, Inspect, Rotate, Create, Mark, Copy, Fail

\* A log that is emptied is emptied by a worker that has come so far.
LEMMA StepEmpties ==
  ASSUME LogInv, [LogNext]_logVars, log # <<>>, log' = <<>>
  PROVE  \E p \in Processes : At(p, "truncate")
<1>1. PICK p \in Processes : Truncate(p) \/ WriteLine(p)
  BY StepsOfLog DEF logVars
<1>2. Truncate(p)
  <2> SUFFICES ASSUME WriteLine(p) PROVE FALSE
    BY <1>1
  <2>1. log \in Seq(Nat) /\ written + 1 \in Nat /\ log' = Append(log, written + 1)
    BY DEF WriteLine, LogInv, LogTypeOK
  <2> QED BY <2>1, Appending
<1> QED BY <1>2 DEF Truncate

\* An archive that comes after all others has the largest number.
LEMMA UppermostIsLast ==
  ASSUME LogTypeOK, NEW i \in Paths, Uppermost(i)
  PROVE  i \in Own /\ archives[i].sequence = Max(Sequences)
<1>1. i \in Own /\ \A j \in Own \ {i} : archives[j].sequence < archives[i].sequence
  BY DEF Uppermost
<1>2. Sequences \in SUBSET (0 .. MaxSequence) /\ Sequences # {} /\ archives[i].sequence \in Sequences
  BY <1>1, SequencesOfOwn DEF Sequences
<1>3. Max(Sequences) \in Sequences /\ \A y \in Sequences : y <= Max(Sequences)
  BY <1>2, Maximum, LoggingAssumption
<1>4. PICK j \in Own : archives[j].sequence = Max(Sequences)
  BY <1>3 DEF Sequences
<1>5. archives[i].sequence <= archives[j].sequence /\ archives[i].sequence \in Nat /\ archives[j].sequence \in Nat
  BY <1>1, <1>2, <1>3, <1>4, FilesOfOwn
<1>6. j = i
  BY <1>1, <1>5
<1> QED BY <1>1, <1>4, <1>6

\* A copy that is complete is the newest lines of the log.
LEMMA CopyComplete ==
  ASSUME LogInv, NEW p \in Running, At(p, "copy"), ~(Len(archives[process[p].slot].lines) < Len(NewestLines(p)))
  PROVE  Archived(p)
<1> DEFINE slot == process[p].slot
           lines == archives[slot].lines
<1>1. /\ p \in Processes /\ LogTypeOK /\ Chronicle /\ RotationOf(p) /\ process[p].pc = "copy"
  BY Processing DEF LogInv, RotationInv, At
<1>2. /\ slot \in Paths /\ Uppermost(slot) /\ log # <<>>
      /\ Len(lines) <= Len(NewestLines(p)) /\ lines = SubSeq(NewestLines(p), 1, Len(lines))
  BY <1>1 DEF RotationOf
<1>3. slot \in Own /\ archives[slot].sequence = Max(Sequences) /\ lines \in Seq(Nat)
  BY <1>1, <1>2, UppermostIsLast, FilesOfOwn
<1>4. Len(lines) = Len(NewestLines(p)) /\ Len(lines) \in 0 .. Len(NewestLines(p))
  <2>1. NewestLines(p) \in Seq(Nat)
    BY <1>1, <1>2, Newest
  <2>2. Len(NewestLines(p)) \in Nat /\ Len(lines) \in Nat
    BY <1>3, <2>1
  <2> QED BY <1>2, <2>2
<1>5. lines = NewestLines(p)
  BY <1>1, <1>2, <1>4, Beginning
<1> QED BY <1>3, <1>5 DEF Archived

\* What somebody else does to the files, or nobody, a worker does not do that
\* is about to empty the log.
LEMMA StepArchives ==
  ASSUME LogInv, [LogNext]_logVars, NEW p \in Processes, Unarchived(p)'
  PROVE  Unarchived(p) \/ User
<1> SUFFICES ASSUME ~User PROVE Unarchived(p)
  OBVIOUS
<1>1. /\ p \in Running' /\ process'[p].pc = "truncate" /\ ~Archived(p)' /\ LogTypeOK
      /\ process \in [Processes -> States \cup {Nothing}] /\ process'[p] # Nothing
  BY DEF Unarchived, At, LogInv, LogTypeOK, Running
<1>2. ASSUME UNCHANGED <<log, archives>>, process'[p] = process[p] PROVE Unarchived(p)
  BY <1>1, <1>2 DEF Unarchived, At, Running, Archived, Own, Owned, Sequences, NewestLines
<1>3. CASE UNCHANGED logVars
  BY <1>2, <1>3 DEF logVars
<1>4. ASSUME NEW q \in Processes, Threads(q) PROVE Unarchived(p)
  <2>1. UNCHANGED <<log, archives>>
    BY <1>4 DEF Threads, Log, TakeFailure, Stop, EndProcess, Start
  <2>2. p \in Running /\ process[p].pc = "truncate"
    <3>1. CASE q # p
      <4>1. process'[p] = process[p]
        BY <1>1, <1>4, <3>1 DEF Threads, Log, TakeFailure, Stop, EndProcess, Start
      <4> QED BY <1>1, <4>1 DEF Running
    <3>2. CASE q = p
      <4>1. ~EndProcess(p) /\ ~Start(p)
        BY <1>1 DEF EndProcess, Start, Started
      <4>2. p \in Running /\ process[p] \in States
        BY <1>4, <3>2, <4>1, <1>1, Processing DEF Threads, Log, TakeFailure, Stop
      <4>3. process'[p].pc = process[p].pc
        <5>1. CASE Log(p)
          <6> DEFINE sent == [process[p] EXCEPT !.sent = @ + 1]
                     t == IF sent.queue < QueueSize THEN [sent EXCEPT !.queue = @ + 1] ELSE Recorded(sent)
          <6>1. process' = [process EXCEPT ![p] = t]
            BY <5>1 DEF Log
          <6>2. sent \in States /\ sent.pc = process[p].pc
            BY <4>2 DEF States
          <6> HIDE DEF sent
          <6>3. t.pc = sent.pc
            BY <6>2 DEF States, Recorded
          <6> HIDE DEF t
          <6> QED BY <1>1, <6>1, <6>2, <6>3
        <5>2. CASE TakeFailure(p)
          BY <1>1, <4>2, <5>2 DEF TakeFailure, States
        <5>3. CASE Stop(p)
          BY <1>1, <4>2, <5>3 DEF Stop, States
        <5> QED BY <1>4, <3>2, <4>1, <5>1, <5>2, <5>3 DEF Threads
      <4> QED BY <1>1, <4>2, <4>3
    <3> QED BY <3>1, <3>2
  <2>3. ~Archived(p)
    BY <1>1, <2>1 DEF Archived, Own, Owned, Sequences, NewestLines
  <2> QED BY <2>2, <2>3 DEF Unarchived, At
<1>5. ASSUME NEW q \in Processes, Work(q) PROVE Unarchived(p)
  <2>1. CASE Receive(q) \/ Begin(q) \/ Busy(q)
    <3>1. UNCHANGED <<log, archives>> /\ q \in Running
      BY <2>1 DEF Receive, Begin, Busy, At
    <3>2. process[q] \in States
      BY <1>1, <3>1, Processing
    <3>3. p # q
      BY <1>1, <2>1, <3>2 DEF Receive, Begin, Busy, GiveUp, Move, Recorded, Finished, States
    <3>4. process'[p] = process[p]
      BY <1>1, <2>1, <3>3 DEF Receive, Begin, Busy, GiveUp, Move
    <3> QED BY <1>2, <3>1, <3>4
  <2>2. CASE ~(Receive(q) \/ Begin(q) \/ Busy(q))
    <3>1. Inspect(q) \/ Rotate(q) \/ Create(q) \/ Mark(q) \/ Copy(q) \/ Truncate(q) \/ WriteLine(q) \/ Fail(q)
      BY <1>5, <2>2 DEF Work
    <3>2. Holds(q) /\ q \in Running /\ process[q] \in States
      <4>1. Holds(q) /\ q \in Running
        BY <3>1 DEF Inspect, Rotate, Create, Mark, Copy, Truncate, WriteLine, Fail, At, Holds, Holding
      <4> QED BY <1>1, <4>1, Processing
    <3>3. p = q
      <4> SUFFICES ASSUME p # q PROVE FALSE
        OBVIOUS
      <4>1. process'[p] = process[p]
        BY <1>1, <3>1 DEF Inspect, Rotate, Create, Mark, Copy, Truncate, WriteLine, Fail, GiveUp, Move
      <4>2. Holds(p) /\ p \in Running
        BY <1>1, <4>1 DEF Holds, Holding, Running
      <4> QED BY <3>2, <4>2 DEF LogInv, ExclusionInv, Free
    <3>4. ~Inspect(p) /\ ~Create(p) /\ ~Mark(p) /\ ~Truncate(p) /\ ~WriteLine(p) /\ ~Fail(p)
      <4>1. ~GiveUp(p)
        BY <1>1, <3>2, <3>3, GivenUp
      <4>2. ~Inspect(p)
        <5> SUFFICES ASSUME Inspect(p) PROVE FALSE
          OBVIOUS
        <5>1. process[p].pc = "inspect"
          BY DEF Inspect, At
        <5> DEFINE i == process[p].slot + 1
                   after == IF Full(p) THEN "rotate" ELSE "append"
                   t == IF i < Slots THEN [process[p] EXCEPT !.slot = i]
                        ELSE [process[p] EXCEPT !.slot = 0, !.inspected = TRUE, !.pc = after]
        <5>2. process' = [process EXCEPT ![p] = t]
          BY <4>1 DEF Inspect
        <5>3. t.pc \in {"inspect", "rotate", "append"}
          <6>1. after \in {"rotate", "append"}
            OBVIOUS
          <6> HIDE DEF after
          <6> QED BY <3>2, <3>3, <5>1, <6>1 DEF States
        <5> HIDE DEF t
        <5> QED BY <1>1, <5>2, <5>3
      <4>3. ~Create(p) /\ ~Fail(p)
        BY <1>1, <3>2, <3>3, <4>1 DEF Create, Fail, Move, States
      <4>4. ~Mark(p) /\ ~Truncate(p)
        BY <1>1, <3>2, <3>3 DEF Mark, Truncate, Move, States
      <4>5. ~WriteLine(p)
        <5> DEFINE more == [process[p] EXCEPT !.kept = @ + 1]
                   t == Finished(more)
        <5>1. WriteLine(p) => process' = [process EXCEPT ![p] = t]
          BY DEF WriteLine
        <5>2. t.pc = "idle"
          <6>1. more \in States
            <7>1. process[p].kept + 1 \in Nat
              BY <3>2, <3>3 DEF States
            <7> QED BY <3>2, <3>3, <7>1 DEF States
          <6> HIDE DEF more
          <6> QED BY <6>1 DEF Finished, States
        <5> HIDE DEF t
        <5> QED BY <1>1, <5>1, <5>2
      <4> QED BY <4>2, <4>3, <4>4, <4>5
    <3>5. CASE Rotate(p)
      <4>1. Retained[p] = 0
        <5> SUFFICES ASSUME Retained[p] # 0 PROVE FALSE
          OBVIOUS
        <5>1. ~GiveUp(p)
          BY <1>1, <3>2, <3>3, GivenUp
        <5>2. PICK slot : process' = [process EXCEPT ![p].pc = "create", ![p].slot = slot, ![p].sequence = NextSequence]
          BY <3>5, <5>1 DEF Rotate
        <5> QED BY <1>1, <3>2, <3>3, <5>2 DEF States
      <4> QED BY <1>1, <4>1 DEF Archived
    <3>6. CASE Copy(p)
      <4>1. At(p, "copy") /\ ~(Len(archives[process[p].slot].lines) < Len(NewestLines(p))) /\ UNCHANGED <<log, archives>>
        BY <1>1, <3>6 DEF Copy, At
      <4>2. Archived(p)
        BY <3>2, <3>3, <4>1, CopyComplete
      <4> QED BY <1>1, <4>1, <4>2 DEF Archived, Own, Owned, Sequences, NewestLines
    <3> QED BY <3>1, <3>3, <3>4, <3>5, <3>6
  <2> QED BY <2>1, <2>2
<1> QED BY <1>3, <1>4, <1>5 DEF LogNext

LEMMA StepSparesOthers ==
  ASSUME LogInv, [LogNext]_logVars
  PROVE  /\ \A i \in Paths : archives[i] = ForeignFile /\ archives'[i] # ForeignFile => User
         /\ log' # log => ini # "alias"
<1>1. ASSUME log' # log PROVE ini # "alias"
  <2>1. PICK p \in Processes : Truncate(p) \/ WriteLine(p)
    BY <1>1, StepsOfLog DEF logVars
  <2>2. Holds(p)
    BY <2>1 DEF Truncate, WriteLine, At, Holds, Holding
  <2> QED BY <2>2 DEF LogInv, ExclusionInv
<1>2. ASSUME NEW i \in Paths, archives[i] = ForeignFile, archives'[i] # ForeignFile PROVE User
  <2>1. i \notin Own /\ archives' # archives /\ archives \in [Paths -> Files \cup {Nothing}] /\ LogTypeOK
        /\ archives[i] # Blank
    BY <1>2, KindsOfFiles DEF Own, Owned, LogInv, LogTypeOK
  <2>2. LogNext
    BY <2>1 DEF logVars
  <2>3. CASE User
    BY <2>3
  <2>4. ASSUME NEW p \in Processes, Threads(p) PROVE FALSE
    BY <2>1, <2>4 DEF Threads, Log, TakeFailure, Stop, EndProcess, Start
  <2>5. ASSUME NEW p \in Processes, Work(p) PROVE FALSE
    <3> DEFINE slot == process[p].slot
    <3>1. p \in Running => RotationOf(p)
      BY DEF LogInv, RotationInv
    <3>2. ~Receive(p) /\ ~Begin(p) /\ ~Busy(p) /\ ~Truncate(p) /\ ~WriteLine(p)
      BY <2>1 DEF Receive, Begin, Busy, Truncate, WriteLine
    <3>3. CASE Inspect(p)
      <4>1. archives'[i] = archives[i]
        BY <2>1, <3>3 DEF Inspect
      <4> QED BY <1>2, <4>1
    <3>4. CASE Rotate(p)
      <4> DEFINE mine == Own \cap (1 .. Retained[p])
                 free == (1 .. Retained[p]) \ mine
      <4>1. free = {} /\ archives' = [archives EXCEPT ![Oldest(mine)] = Nothing] /\ Retained[p] # 0
        BY <2>1, <3>4 DEF Rotate
      <4>2. Retained[p] \in Nat
        BY LoggingAssumption
      <4>3. mine # {} /\ mine \in SUBSET Own
        BY <4>1, <4>2
      <4>4. Oldest(mine) \in mine
        BY <2>1, <4>3, OldestOf
      <4>5. i # Oldest(mine)
        BY <2>1, <4>4
      <4> QED BY <1>2, <2>1, <4>1, <4>5
    <3>5. CASE Create(p)
      <4>1. archives' = [archives EXCEPT ![slot] = Blank] /\ archives[slot] = Nothing
        BY <2>1, <3>5 DEF Create, Vacant
      <4> QED BY <1>2, <2>1, <4>1, KindsOfFiles
    <3>6. CASE Mark(p)
      <4>1. archives[slot] = Blank /\ \A j \in Paths \ {slot} : archives'[j] = archives[j]
        BY <2>1, <3>1, <3>6 DEF Mark, At, RotationOf
      <4> QED BY <1>2, <2>1, <4>1
    <3>7. CASE Copy(p)
      <4>1. slot \in Own /\ \A j \in Paths \ {slot} : archives'[j] = archives[j]
        BY <2>1, <3>1, <3>7 DEF Copy, At, RotationOf, Uppermost
      <4> QED BY <1>2, <2>1, <4>1
    <3>8. CASE Fail(p)
      <4>1. /\ process[p].pc \in {"mark", "copy"} /\ p \in Running
            /\ \A j \in Paths \ {slot} : archives'[j] = archives[j]
        BY <2>1, <3>8 DEF Fail, Discard, Holds
      <4>2. archives[slot] = Blank \/ slot \in Own
        BY <3>1, <4>1 DEF RotationOf, Uppermost
      <4> QED BY <1>2, <2>1, <4>1, <4>2
    <3> QED BY <2>5, <3>2, <3>3, <3>4, <3>5, <3>6, <3>7, <3>8 DEF Work
  <2> QED BY <2>2, <2>3, <2>4, <2>5 DEF LogNext
<1> QED BY <1>1, <1>2

\* No step but the user's brings a worker to empty a log whose newest lines
\* are not in the newest archive, and only such a worker empties the log; and a
\* file that is not the program's, the INI among them, is touched by nobody but
\* the user (config/logging/rotation.rs:184, 208).
THEOREM FilesStayKept == LogSpec => FilesAreKept
<1>1. LogInv /\ [LogNext]_logVars =>
        /\ \A p \in Processes : Unarchived(p)' => Unarchived(p) \/ User
        /\ log # <<>> /\ log' = <<>> => \E p \in Processes : At(p, "truncate")
  BY StepArchives, StepEmpties
<1>2. LogInv /\ [LogNext]_logVars =>
        (\A i \in Paths : (archives[i] = ForeignFile /\ archives'[i] # ForeignFile => User)
          /\ (log' # log => ini # "alias"))
  BY StepSparesOthers
<1>3. LogSpec => NothingUnarchived
  BY <1>1, InvAlways, PTL DEF LogSpec, NothingUnarchived
<1>4. LogSpec => OthersFilesStay
  BY <1>2, InvAlways, PTL DEF LogSpec, OthersFilesStay
<1> QED BY <1>3, <1>4 DEF FilesAreKept

=============================================================================
