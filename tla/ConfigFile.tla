----------------------------- MODULE ConfigFile -----------------------------
(***************************************************************************)
(* Writing window-switcher.ini (config/storage.rs, config/settings.rs,     *)
(* config/transaction.rs).  Two writers of the program may meet: a job of  *)
(* the settings thread, and the launch that completes the file; anybody    *)
(* else may edit the file as well.  A writer moves the original away by    *)
(* its handle and publishes the new file under the name, never replacing   *)
(* what is there; what it has open, nobody else may open.                  *)
(***************************************************************************)
EXTENDS Documents

VARIABLES
  setup,     \* the setup
  ini,       \* window-switcher.ini: its document and who has it open
  recovery,  \* .window-switcher.ini.recovery
  writer,    \* the writers
  wanted,    \* the values the user wrote, and the settings changed for them
  budget     \* what may still happen

Writers == {"job", "launch"}
File(doc, lock) == [doc |-> doc, lock |-> lock]

\* What a writer is asked: a launch to complete the file; the job thread to
\* save one setting of the configuration expected, or to read the file.
Launch == [kind |-> "launch"]
Read == [kind |-> "read"]
Save(kind, entry, expected) == [kind |-> kind, entry |-> entry, expected |-> expected]
Resting == [pc |-> "idle", job |-> None, was |-> None, text |-> None, orphan |-> FALSE]

Goto(w, pc) == writer' = [writer EXCEPT ![w].pc = pc]
Begin(w, job) == writer' = [writer EXCEPT ![w] = [Resting EXCEPT !.pc = "check", !.job = job]]
\* The answer of an operation: the document it saved or read, or None.
Answered(w, doc) == [writer EXCEPT ![w].pc = "answered", ![w].text = doc]
Fail(w) == writer' = Answered(w, None)
Unlock(file, w) == IF file # None /\ file.lock = w THEN [file EXCEPT !.lock = None] ELSE file

\* An operation of the file system fails.
Fault == budget.faults > 0 /\ budget' = [budget EXCEPT !.faults = @ - 1]
Works == UNCHANGED budget

(***************************************************************************)
(* Before the transaction: what is there is read, validated and turned     *)
(* into the document to write.                                             *)
(***************************************************************************)
RequireNoRecovery(w) ==
  /\ writer[w].pc = "check"
  /\ IF recovery = None THEN Goto(w, "read") ELSE Fail(w)
  /\ UNCHANGED <<setup, ini, recovery, wanted, budget>>

\* load_at: the document to run with, or None.
Accepted(merged) == IF merged # None /\ Loads(merged) THEN merged ELSE None
Loaded(text, shipped) ==
  IF Parses(text) /\ (~shipped => ~Blank(text)) /\ Loads(text) THEN Accepted(Merge(text)) ELSE None
Prepared(original) ==
  IF original = None THEN Loaded(Template, TRUE) ELSE Loaded(original, FALSE)

\* What a save compares with the configuration the user saw.
Compared(job) ==
  IF job.kind = "pause" THEN {Paused, PauseKey, Tray} ELSE {job.entry}

\* save_value: the document to write, or None.
Revised(text) == IF text # None /\ Usable(text) THEN text ELSE None
Changed(original, job) ==
  IF /\ Loads(original)
     /\ \A e \in Compared(job) : Config(original)[e] = job.expected[e]
  THEN Revised(SetValue(original, job.entry, Opposite(job.expected[job.entry])))
  ELSE None

Planned(job, original) ==
  CASE job.kind = "launch" -> Prepared(original)
    [] job.kind = "read" -> IF Usable(original) THEN original ELSE None
    [] OTHER -> Changed(original, job)

\* What was read, and what is to be written instead.
Resolve(w, original, text) ==
  writer' = IF text = None \/ text = original THEN Answered(w, text)
            ELSE [writer EXCEPT ![w].pc = "prepare", ![w].was = original, ![w].text = text]

ReadBytes(w) ==
  /\ writer[w].pc = "read"
  /\ IF IF ini = None THEN writer[w].job.kind # "launch" ELSE ini.lock # None
     THEN Fail(w)
     ELSE LET original == IF ini = None THEN None ELSE ini.doc
          IN Resolve(w, original, Planned(writer[w].job, original))
  /\ UNCHANGED <<setup, ini, recovery, wanted, budget>>

(***************************************************************************)
(* The transaction.                                                        *)
(***************************************************************************)
\* A temporary file is created once no recovery file is found.
Prepare(w) ==
  /\ writer[w].pc = "prepare"
  /\ \/ /\ recovery = None /\ Works
        /\ Goto(w, IF writer[w].was = None THEN "absent" ELSE "lock")
     \/ recovery # None /\ Fail(w) /\ Works
     \/ recovery = None /\ Fail(w) /\ Fault
  /\ UNCHANGED <<setup, ini, recovery, wanted>>

AnyContents(w) == TRUE \* a mutant: the original is not compared under the lock
Unchanged(w) == ini.doc = writer[w].was

\* The original is opened for this writer alone and must be what was read.
Lock(w) ==
  /\ writer[w].pc = "lock"
  /\ \/ /\ ini # None /\ ini.lock = None /\ Unchanged(w)
        /\ ini' = [ini EXCEPT !.lock = w] /\ Goto(w, "stage")
     \/ /\ \/ ini = None
           \/ ini # None /\ (ini.lock # None \/ ~Unchanged(w))
        /\ Fail(w) /\ UNCHANGED ini
  /\ UNCHANGED <<setup, recovery, wanted, budget>>

\* Permissions are captured, the text written, applied and flushed.
Stage(w) ==
  /\ writer[w].pc = "stage"
  /\ \/ Goto(w, "move") /\ Works /\ UNCHANGED ini
     \/ Fail(w) /\ Fault /\ ini' = Unlock(ini, w)
  /\ UNCHANGED <<setup, recovery, wanted>>

\* The original becomes the recovery file, unless one is there.
Move(w) ==
  /\ writer[w].pc = "move"
  /\ \/ /\ recovery = None /\ Works
        /\ recovery' = ini /\ ini' = None /\ Goto(w, "publish")
     \/ recovery # None /\ Works /\ Fail(w) /\ ini' = Unlock(ini, w) /\ UNCHANGED recovery
     \/ recovery = None /\ Fault /\ Fail(w) /\ ini' = Unlock(ini, w) /\ UNCHANGED recovery
  /\ UNCHANGED <<setup, wanted>>

Wanted(doc) == [e \in Written(doc) |-> Values(doc, e)]

\* The settings the user changed through the program are wanted as they are saved.
Wish(w) ==
  LET job == writer[w].job
  IN IF /\ job.kind # "launch" /\ job.entry \in DOMAIN wanted
        /\ wanted[job.entry] = Values(writer[w].was, job.entry)
     THEN [wanted EXCEPT ![job.entry] = Values(writer[w].text, job.entry)]
     ELSE wanted

Publish(w) ==
  /\ writer[w].pc = "publish"
  /\ \/ /\ ini = None /\ Works
        /\ ini' = File(writer[w].text, w) /\ wanted' = Wish(w) /\ Goto(w, "clean")
     \/ ini # None /\ Works /\ Goto(w, "rollback") /\ UNCHANGED <<ini, wanted>>
     \/ ini = None /\ Fault /\ Goto(w, "rollback") /\ UNCHANGED <<ini, wanted>>
  /\ UNCHANGED <<setup, recovery>>

\* The original goes back, unless somebody has saved meanwhile.
Rollback(w) ==
  /\ writer[w].pc = "rollback"
  /\ \/ /\ ini = None /\ Works
        /\ ini' = Unlock(recovery, w) /\ recovery' = None
     \/ ini # None /\ Works /\ recovery' = Unlock(recovery, w) /\ UNCHANGED ini
     \/ ini = None /\ Fault /\ recovery' = Unlock(recovery, w) /\ UNCHANGED ini
  /\ Fail(w)
  /\ UNCHANGED <<setup, wanted>>

Clean(w) ==
  /\ writer[w].pc = "clean"
  /\ ini' = Unlock(ini, w)
  /\ \/ recovery' = None /\ Works /\ writer' = Answered(w, writer[w].text)
     \/ recovery' = Unlock(recovery, w) /\ Fault /\ Fail(w)
  /\ UNCHANGED <<setup, wanted>>

\* There was no file: once more no recovery file may be there, and the name
\* must still be free.
Absent(w) ==
  /\ writer[w].pc = "absent"
  /\ \/ recovery = None /\ Goto(w, "create") /\ Works
     \/ recovery # None /\ Fail(w) /\ Works
     \/ Fail(w) /\ Fault
  /\ UNCHANGED <<setup, ini, recovery, wanted>>

Create(w) ==
  /\ writer[w].pc = "create"
  /\ \/ /\ ini = None /\ Works
        /\ ini' = File(writer[w].text, w) /\ Goto(w, "close")
     \/ ini # None /\ Works /\ Fail(w) /\ UNCHANGED ini
     \/ ini = None /\ Fault /\ Fail(w) /\ UNCHANGED ini
  /\ UNCHANGED <<setup, recovery, wanted>>

Close(w) ==
  /\ writer[w].pc = "close"
  /\ ini' = Unlock(ini, w) /\ writer' = Answered(w, writer[w].text)
  /\ UNCHANGED <<setup, recovery, wanted, budget>>

Write(w) ==
  \/ RequireNoRecovery(w) \/ Prepare(w) \/ Lock(w) \/ Stage(w)
  \/ Move(w) \/ Publish(w) \/ Rollback(w) \/ Clean(w) \/ Absent(w) \/ Create(w) \/ Close(w)

(***************************************************************************)
(* Everybody else.                                                         *)
(***************************************************************************)
Free(file) == file # None => file.lock = None
Edits == budget.edits > 0 /\ budget' = [budget EXCEPT !.edits = @ - 1]

\* An editor saves, or takes the file away.
Edit ==
  /\ Edits /\ Free(ini)
  /\ \/ \E doc \in setup.edits : ini' = File(doc, None) /\ wanted' = Wanted(doc)
     \/ ini # None /\ setup.deletes /\ ini' = None /\ wanted' = <<>>
  /\ UNCHANGED <<setup, recovery, writer>>

\* The user ends an interrupted transaction: the original is put back, or the
\* file that is there is kept.
Recover ==
  /\ recovery # None /\ recovery.lock = None /\ Free(ini)
  /\ recovery' = None
  /\ \/ ini' = recovery /\ wanted' = Wanted(recovery.doc)
     \/ ini # None /\ UNCHANGED ini /\ wanted' = Wanted(ini.doc)
  /\ UNCHANGED <<setup, writer, budget>>

\* A writer's process ends; what it had open is closed.
Die(w) ==
  /\ writer' = [writer EXCEPT ![w] = Resting]
  /\ ini' = Unlock(ini, w) /\ recovery' = Unlock(recovery, w)
=============================================================================
