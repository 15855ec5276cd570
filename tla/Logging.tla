------------------------------ MODULE Logging ------------------------------
(***************************************************************************)
(* The log (config/logging.rs, config/logging/worker.rs,                   *)
(* config/logging/rotation.rs, config/file_identity.rs).  The threads of a *)
(* process hand their lines to a worker through a bounded queue, and the   *)
(* worker appends them to a file that the workers of an old and of a new   *)
(* instance share: a mutex of the system is held for each line, and the    *)
(* INI is held open so that nobody can make it the same file.  A file that *)
(* would grow too long is first copied to a numbered archive.  Processes   *)
(* are killed, operations fail, and the user puts files of his own where   *)
(* the archives go.                                                        *)
(***************************************************************************)
EXTENDS Naturals, Sequences, SequencesExt, FiniteSetsExt

CONSTANTS
  Processes,
  Retained,    \* what a process has as log.retained_files
  MaxLength,   \* and as log.max_file_mb, in lines
  Header,      \* HEADER_LIMIT, in lines
  Slots,       \* the paths of archives: MAX_ARCHIVES
  MaxSequence, \* the largest number an archive can have: u64::MAX
  QueueSize,   \* the lines a queue holds
  MaxLines, Kills, Faults, Intrusions,  \* bounds on what happens
  Histories,   \* what an earlier run left on disk
  Nothing

VARIABLES
  log,       \* the file: the numbers of its lines, in the order written
  archives,  \* what is at each archive path, or Nothing
  ini,       \* the INI: a file of its own, the log itself, or open elsewhere
  process,   \* the processes that run, or Nothing
  written,   \* how many lines were ever written
  allowance  \* what may still happen

logVars == <<log, archives, ini, process, written, allowance>>

Paths == 1 .. Slots
\* An archive, and (for the properties) the first line of the log it is a copy of.
Archive(sequence, of, lines) == [kind |-> "own", sequence |-> sequence, of |-> of, lines |-> lines]
Unknown(kind) == [kind |-> kind, sequence |-> 0, of |-> 0, lines |-> <<>>]
\* A file whose first line is not, or not yet, the mark of an archive of this log.
Blank == Unknown("blank")
ForeignFile == Unknown("foreign")

Owned(files) == {i \in Paths : files[i] # Nothing /\ files[i].kind = "own"}
Own == Owned(archives)
Unmarked == {i \in Paths : archives[i] # Nothing} \ Own
Sequences == {archives[i].sequence : i \in Own}
NewestLines(p) ==
  SubSeq(log, 1 + Len(log) - Min({Len(log), MaxLength[p] - Header}), Len(log))

Files == [kind : {"own", "blank", "foreign"}, sequence : 0 .. MaxSequence, of : Nat, lines : Seq(Nat)]

\* A file ends before that line, unless it is a copy of the log that begins there.
Precedes(file, first) ==
  /\ file.of <= first
  /\ file.of < first => \A n \in DOMAIN file.lines : file.lines[n] < first

\* The log holds the last lines written.  An archive holds lines that follow
\* one another, and those of an earlier log precede the later archives and the log.
InOrder(current, files, count) ==
  /\ Len(current) <= count /\ \A n \in DOMAIN current : current[n] = count - Len(current) + n
  /\ \A i \in Owned(files) :
       /\ files[i].of \in 1 .. count
       /\ \A n \in DOMAIN files[i].lines :
            files[i].lines[n] \in files[i].of .. count /\ files[i].lines[n] = files[i].lines[1] + n - 1
       /\ current # <<>> => Precedes(files[i], current[1])
       /\ \A j \in Owned(files) \ {i} :
            /\ files[i].sequence # files[j].sequence
            /\ files[i].sequence < files[j].sequence => Precedes(files[i], files[j].of)

\* A process that starts: its worker is idle and has not looked at the archives.
Started ==
  [queue |-> 0, pc |-> "idle", inspected |-> FALSE, slot |-> 0, sequence |-> 0, phase |-> "live",
   sent |-> 0, kept |-> 0, recorded |-> FALSE, pending |-> FALSE, told |-> FALSE]

Running == {p \in Processes : process[p] # Nothing}
At(p, pc) == p \in Running /\ process[p].pc = pc
Move(p, pc) == process' = [process EXCEPT ![p].pc = pc]

\* A worker that has the mutex holds the INI open as well.
Holding == {"inspect", "rotate", "create", "mark", "copy", "truncate", "append"}
States ==
  [queue : Nat, pc : Holding \cup {"idle", "try"}, inspected : BOOLEAN, slot : 0 .. Slots,
   sequence : 0 .. MaxSequence, phase : {"live", "closing", "stopping"}, sent : Nat, kept : Nat, recorded : BOOLEAN,
   pending : BOOLEAN, told : BOOLEAN]

ASSUME LoggingAssumption ==
  /\ Slots \in Nat /\ Retained \in [Processes -> 0 .. Slots]
  /\ MaxLength \in [Processes -> Nat] /\ Header \in Nat /\ \A p \in Processes : Header < MaxLength[p]
  /\ MaxSequence \in Nat /\ QueueSize \in Nat
  /\ {MaxLines, Kills, Faults, Intrusions} \subseteq Nat
  /\ IsFiniteSet(Processes) /\ Nothing \notin Files \cup States
  /\ \A h \in Histories :
       /\ h.log \in Seq(Nat) /\ h.archives \in [Paths -> Files \cup {Nothing}] /\ h.written \in Nat
       /\ InOrder(h.log, h.archives, h.written)

Holds(p) == p \in Running /\ process[p].pc \in Holding
\* It holds the archives it has looked at, and those it deletes no more.  The
\* new one it holds until that is complete, and no longer when the log is emptied.
Held(p) ==
  CASE At(p, "inspect") -> Own \cap (1 .. process[p].slot)
    [] At(p, "rotate") \/ At(p, "create") -> Own
    [] At(p, "mark") \/ At(p, "copy") -> Own \cup {process[p].slot}
    [] At(p, "truncate") -> Own \ {process[p].slot}
    [] OTHER -> {}
\* A mutant: the mutex is released once the archive is complete.
Released(p) == \A q \in Running \ {p} : Holds(q) => process[q].pc \in {"truncate", "append"}
\* The mutex of a process that was killed is free.
Free(p) == \A q \in Running \ {p} : ~Holds(q)

\* LogFailure::record: the first failure waits for the UI thread.
Recorded(state) ==
  IF state.recorded THEN state ELSE [state EXCEPT !.recorded = TRUE, !.pending = TRUE]
\* A mutant: nobody is told.
Finished(state) == [state EXCEPT !.pc = "idle", !.slot = 0, !.sequence = 0]
Forget(p) == process' = [process EXCEPT ![p] = Finished(@)]
\* The line is given up.
GiveUp(p) == process' = [process EXCEPT ![p] = Recorded(Finished(@))]
\* A new archive that is not complete goes away, unless that fails as well.
Discard(p) ==
  \/ UNCHANGED archives
  \/ process[p].pc \in {"mark", "copy"} /\ archives' = [archives EXCEPT ![process[p].slot] = Nothing]

Spend(what) == allowance[what] > 0 /\ allowance' = [allowance EXCEPT ![what] = @ - 1]

(***************************************************************************)
(* The threads of a process.                                               *)
(***************************************************************************)
\* A full queue drops the line.
Log(p) ==
  /\ p \in Running /\ process[p].phase # "stopping"
  /\ Spend("lines")
  /\ LET sent == [process[p] EXCEPT !.sent = @ + 1]
     IN process' = [process EXCEPT ![p] =
          IF sent.queue < QueueSize THEN [sent EXCEPT !.queue = @ + 1] ELSE Recorded(sent)]
  /\ UNCHANGED <<log, archives, ini, written>>

\* The UI thread tells the user of the first failure, once.
TakeFailure(p) ==
  /\ p \in Running /\ process[p].phase = "live" /\ process[p].pending
  /\ process' = [process EXCEPT ![p].pending = FALSE, ![p].told = TRUE]
  /\ UNCHANGED <<log, archives, ini, written, allowance>>

\* The UI ends first, and then nobody is told of anything; the other threads
\* still log, until the worker is told to stop.
Stop(p) ==
  /\ p \in Running
  /\ \/ process[p].phase = "live" /\ process' = [process EXCEPT ![p].phase = "closing"]
     \/ process[p].phase = "closing" /\ process' = [process EXCEPT ![p].phase = "stopping"]
  /\ UNCHANGED <<log, archives, ini, written, allowance>>

\* The process ends once the queue is empty, or two seconds later.
EndProcess(p) ==
  /\ p \in Running
  /\ process' = [process EXCEPT ![p] = Nothing]
  /\ IF process[p].phase = "stopping" /\ At(p, "idle") /\ process[p].queue = 0
     THEN UNCHANGED allowance ELSE Spend("kills")
  /\ UNCHANGED <<log, archives, ini, written>>

\* prepare_log_file: the INI can be held and is not the log.
Start(p) ==
  /\ p \notin Running /\ ini = "own"
  /\ Spend("starts")
  /\ process' = [process EXCEPT ![p] = Started]
  /\ UNCHANGED <<log, archives, ini, written>>

(***************************************************************************)
(* The worker.                                                             *)
(***************************************************************************)
Receive(p) ==
  /\ At(p, "idle") /\ process[p].queue > 0
  /\ process' = [process EXCEPT ![p].queue = @ - 1, ![p].pc = "try"]
  /\ UNCHANGED <<log, archives, ini, written, allowance>>

Full(p) == Len(log) + 1 > MaxLength[p]

IniSafe == ini = "own"

Begin(p) ==
  /\ At(p, "try") /\ Free(p)
  /\ IF ~IniSafe THEN GiveUp(p)
     ELSE Move(p, IF ~process[p].inspected \/ Full(p) THEN "inspect" ELSE "append")
  /\ UNCHANGED <<log, archives, ini, written, allowance>>

\* Another process has the mutex for a quarter of a second.
Busy(p) ==
  /\ At(p, "try") /\ ~Free(p)
  /\ GiveUp(p)
  /\ UNCHANGED <<log, archives, ini, written, allowance>>

\* The paths are looked at one after the other: an archive past the limit is
\* deleted, and a file that is no archive of this log ends the inspection.
Inspect(p) ==
  /\ At(p, "inspect")
  /\ LET i == process[p].slot + 1
         after == IF Full(p) THEN "rotate" ELSE "append"
     IN IF i \in Unmarked THEN GiveUp(p) /\ UNCHANGED archives
        ELSE /\ archives' = IF i \in Own /\ i > Retained[p] THEN [archives EXCEPT ![i] = Nothing] ELSE archives
             /\ process' = [process EXCEPT ![p] =
                  IF i < Slots THEN [@ EXCEPT !.slot = i]
                  ELSE [@ EXCEPT !.slot = 0, !.inspected = TRUE, !.pc = after]]
  /\ UNCHANGED <<log, ini, written, allowance>>

Oldest(paths) == CHOOSE i \in paths : \A j \in paths : archives[i].sequence <= archives[j].sequence

\* A mutant: the archives are counted.
Counted == 1 + Cardinality(Own)
NextSequence == 1 + Max(Sequences \cup {0})

\* A path that is free is used, else that of the oldest archive.
Rotate(p) ==
  /\ At(p, "rotate")
  /\ IF Retained[p] = 0 THEN Move(p, "truncate") /\ UNCHANGED archives
     ELSE IF NextSequence > MaxSequence THEN GiveUp(p) /\ UNCHANGED archives
     ELSE LET kept == Own \cap (1 .. Retained[p])
              free == (1 .. Retained[p]) \ kept
              slot == IF free # {} THEN Min(free) ELSE Oldest(kept)
          IN /\ process' = [process EXCEPT ![p].pc = "create", ![p].slot = slot, ![p].sequence = NextSequence]
             /\ archives' = IF free # {} THEN archives ELSE [archives EXCEPT ![slot] = Nothing]
  /\ UNCHANGED <<log, ini, written, allowance>>

\* A mutant: the file is created whatever is there.
Always(slot) == TRUE
Vacant(slot) == archives[slot] = Nothing

Create(p) ==
  /\ At(p, "create")
  /\ IF Vacant(process[p].slot)
     THEN Move(p, "mark") /\ archives' = [archives EXCEPT ![process[p].slot] = Blank]
     ELSE GiveUp(p) /\ UNCHANGED archives
  /\ UNCHANGED <<log, ini, written, allowance>>

Mark(p) ==
  /\ At(p, "mark")
  /\ archives' = [archives EXCEPT ![process[p].slot] = Archive(process[p].sequence, log[1], <<>>)]
  /\ Move(p, "copy")
  /\ UNCHANGED <<log, ini, written, allowance>>

\* Line by line, and a worker that ends leaves what it has copied.
Copy(p) ==
  /\ At(p, "copy")
  /\ LET slot == process[p].slot
         copied == Len(archives[slot].lines)
     IN IF copied < Len(NewestLines(p))
        THEN archives' = [archives EXCEPT ![slot].lines = SubSeq(NewestLines(p), 1, copied + 1)] /\ UNCHANGED process
        ELSE Move(p, "truncate") /\ UNCHANGED archives
  /\ UNCHANGED <<log, ini, written, allowance>>

Truncate(p) ==
  /\ At(p, "truncate")
  /\ log' = <<>>
  /\ Move(p, "append")
  /\ UNCHANGED <<archives, ini, written, allowance>>

WriteLine(p) ==
  /\ At(p, "append")
  /\ log' = Append(log, written + 1) /\ written' = written + 1
  /\ LET kept == [process[p] EXCEPT !.kept = @ + 1]
     IN process' = [process EXCEPT ![p] = Finished(kept)]
  /\ UNCHANGED <<archives, ini, allowance>>

\* Any operation on a file may fail.
Fail(p) ==
  /\ Holds(p)
  /\ Spend("faults")
  /\ Discard(p) /\ GiveUp(p)
  /\ UNCHANGED <<log, ini, written>>

Work(p) ==
  \/ Receive(p) \/ Begin(p) \/ Busy(p) \/ Inspect(p) \/ Rotate(p) \/ Create(p)
  \/ Mark(p) \/ Copy(p) \/ Truncate(p) \/ WriteLine(p) \/ Fail(p)

(***************************************************************************)
(* The user, who cannot replace a file that is held.                       *)
(***************************************************************************)
Replace(i) ==
  /\ \A p \in Processes : i \notin Held(p)
  /\ Spend("intrusions")
  /\ archives' \in {[archives EXCEPT ![i] = file] : file \in {ForeignFile, Nothing} \ {archives[i]}}
  /\ UNCHANGED <<log, ini, process, written>>

ChangeIni ==
  /\ ~\E p \in Processes : Holds(p)
  /\ Spend("intrusions")
  /\ ini' \in {"own", "alias", "open"} \ {ini}
  /\ UNCHANGED <<log, archives, process, written>>

User == ChangeIni \/ \E i \in Paths : Replace(i)

LogInit ==
  /\ \E h \in Histories : log = h.log /\ archives = h.archives /\ written = h.written
  /\ ini = "own"
  /\ process = [p \in Processes |-> Nothing]
  /\ allowance = [lines |-> MaxLines, kills |-> Kills, faults |-> Faults, intrusions |-> Intrusions,
               starts |-> Cardinality(Processes) + Kills]

Threads(p) == Log(p) \/ TakeFailure(p) \/ Stop(p) \/ EndProcess(p) \/ Start(p)
LogNext == User \/ \E p \in Processes : Threads(p) \/ Work(p)

LogSpec == LogInit /\ [][LogNext]_logVars

(***************************************************************************)
(* Properties.                                                             *)
(***************************************************************************)
\* Every variable has its type.
LogTypeOK ==
  /\ log \in Seq(Nat)
  /\ archives \in [Paths -> Files \cup {Nothing}]
  /\ ini \in {"own", "alias", "open"}
  /\ process \in [Processes -> States \cup {Nothing}]
  /\ written \in Nat
  /\ allowance \in [{"lines", "kills", "faults", "intrusions", "starts"} -> Nat]

\* Whoever reads the archives by number and then the log reads the lines in
\* the order written, and meets one again, or out of place, only in copies of
\* one log: a worker that ended between a copy and the emptying of the log
\* leaves the archive, a part of it or nothing, beside a log that is copied again.
Chronicle == InOrder(log, archives, written)

\* A worker is about to empty the log only when the newest lines are in the
\* newest archive.  Nothing but the user takes them away meanwhile, which he
\* can, and only such a worker empties the log.
Archived(p) ==
  Retained[p] = 0 \/ \E i \in Own : archives[i].lines = NewestLines(p) /\ archives[i].sequence = Max(Sequences)
Unarchived(p) == At(p, "truncate") /\ ~Archived(p)
NothingUnarchived ==
  [][ /\ \A p \in Processes : Unarchived(p)' => Unarchived(p) \/ User
      /\ log # <<>> /\ log' = <<>> => \E p \in Processes : At(p, "truncate") ]_logVars

\* A file that is not the program's is never overwritten or deleted but by the
\* user, and the INI is never written to as the log, whatever he puts where.
OthersFilesStay ==
  [][ \A i \in Paths : (archives[i] = ForeignFile /\ archives'[i] # ForeignFile => User)
        /\ (log' # log => ini # "alias") ]_logVars

\* While the UI of a process runs, a line that did not come to the log is still
\* on its way, or the user was told of a loss or the next tick of the UI's timer
\* tells him.  What is lost after the UI has ended nobody hears of.
LossIsTold ==
  \A p \in {q \in Running : process[q].phase = "live"} :
    LET s == process[p]
        pending == s.queue + IF s.pc = "idle" THEN 0 ELSE 1
    IN s.sent # s.kept + pending => s.pending \/ s.told

\* The archives and the log are in order, and a lost line is told of
\* (config/logging/rotation.rs:161, config/logging/worker.rs:45).
LogIsTrue == Chronicle /\ LossIsTold
\* Nothing leaves the log unarchived but by the user's hand, and files of others stay
\* (config/logging/rotation.rs:184, 208).
FilesAreKept == NothingUnarchived /\ OthersFilesStay
=============================================================================
