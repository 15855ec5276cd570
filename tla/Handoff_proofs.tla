---------------------------- MODULE Handoff_proofs ----------------------------
(***************************************************************************)
(* Two instances never take the same key, for every number of handoffs,    *)
(* elevated or not: by the mutex, not by the order of the messages.        *)
(***************************************************************************)
EXTENDS Handoff, SequenceFacts

InputTypes ==
  /\ requested \in [Instances -> Nat] /\ applied \in [Instances -> Nat]
  /\ posted \in [Instances -> BOOLEAN] /\ installed \in [Instances -> BOOLEAN]

\* an instance without the mutex has no hook, or one that neither takes keys nor
\* has been asked to: a late acknowledgement cannot turn it on
Quiet(p) == installed[p] = FALSE \/ (requested[p] % 2 = 0 /\ applied[p] % 2 = 0)

Inv == InputTypes /\ \A p \in Instances : mutex # p => Quiet(p)

\* The generation request(active) stores has the parity of active.
LEMMA ToggleParity ==
  ASSUME NEW g \in Nat, NEW on \in BOOLEAN
  PROVE  Toggle(g, on) \in Nat /\ ((Toggle(g, on) % 2 = 1) = on)
<1> DEFINE half == g \div 2 + 1
<1>1. half \in Nat OBVIOUS
<1>2. half * 2 + 1 \in Nat /\ (half * 2 + 1) % 2 = 1 BY <1>1
<1>3. half * 2 + 0 \in Nat /\ (half * 2 + 0) % 2 = 0 BY <1>1
<1> HIDE DEF half
<1>4. Toggle(g, on) = IF (g % 2 = 1) = on THEN g ELSE half * 2 + (IF on THEN 1 ELSE 0)
  BY DEF Toggle, half
<1>5. CASE (g % 2 = 1) = on
  BY <1>4, <1>5
<1>6. CASE ((g % 2 = 1) # on) /\ on = TRUE
  <2>1. Toggle(g, on) = half * 2 + 1 BY <1>4, <1>6
  <2> QED BY <1>2, <1>6, <2>1
<1>7. CASE ((g % 2 = 1) # on) /\ on = FALSE
  <2>1. Toggle(g, on) = half * 2 + 0 BY <1>4, <1>7
  <2> QED BY <1>3, <1>7, <2>1
<1> QED BY <1>5, <1>6, <1>7

\* Asking for silence keeps a quiet instance quiet, and asking for input is the
\* owner's: either keeps the invariant.
LEMMA RequestKeeps ==
  ASSUME Inv, NEW p \in Instances, NEW on \in BOOLEAN, NEW sent \in BOOLEAN,
         RequestInput(p, on, sent), UNCHANGED <<applied, installed>>,
         \A q \in Instances : mutex # q => mutex' # q \/ q = p,
         (on = FALSE /\ mutex' = mutex) \/ mutex' = p,
         \A q \in Instances : mutex' # q => mutex # q
  PROVE  Inv'
<1>1. Toggle(requested[p], on) \in Nat /\ ((Toggle(requested[p], on) % 2 = 1) = on)
  BY ToggleParity DEF Inv, InputTypes
<1>2. InputTypes' BY <1>1 DEF Inv, InputTypes, RequestInput
<1>3. ASSUME NEW q \in Instances, mutex' # q PROVE Quiet(q)'
  <2>1. Quiet(q) BY <1>3 DEF Inv
  <2>2. CASE q = p
    <3>1. on = FALSE BY <1>3, <2>2
    <3>2. Toggle(requested[p], on) % 2 = 0 BY <1>1, <3>1
    <3> QED BY <2>1, <2>2, <3>2 DEF Quiet, Inv, InputTypes, RequestInput
  <2>3. CASE q # p
    BY <2>1, <2>3 DEF Quiet, Inv, InputTypes, RequestInput
  <2> QED BY <2>2, <2>3
<1> QED BY <1>2, <1>3 DEF Inv

LEMMA Initially == Init => Inv
<1> SUFFICES ASSUME Init PROVE Inv
  OBVIOUS
<1>1. InputTypes BY DEF Init, InputTypes
<1>2. \A p \in Instances : mutex # p => Quiet(p) BY DEF Init, Instances, Quiet
<1> QED BY <1>1, <1>2 DEF Inv

LEMMA OldUiStep == Inv /\ (OldUiTurn \/ StartRestart \/ RequestExit \/ WindowDestroyed) => Inv'
<1> SUFFICES ASSUME Inv, OldUiTurn \/ StartRestart \/ RequestExit \/ WindowDestroyed PROVE Inv'
  OBVIOUS
<1>1. CASE OnReady \/ OnDone \/ OnComplete \/ OnFailed \/ OnEventWhileExiting
  BY <1>1 DEF OnReady, OnDone, OnComplete, OnFailed, OnEventWhileExiting, notOldUi,
     Inv, InputTypes, Quiet
<1>2. CASE StartRestart \/ WindowDestroyed
  BY <1>2 DEF StartRestart, WindowDestroyed, input, notOldUi, Inv, InputTypes, Quiet
<1>3. CASE OnSuspend
  <2>1. PICK sent \in BOOLEAN : RequestInput("old", FALSE, sent)
    BY <1>3 DEF OnSuspend
  <2> QED BY <1>3, <2>1, RequestKeeps DEF OnSuspend, notOldUi, Instances
<1>4. CASE RequestExit
  <2>1. PICK sent \in BOOLEAN : RequestInput("old", FALSE, sent)
    BY <1>4 DEF RequestExit
  <2> QED BY <1>4, <2>1, RequestKeeps DEF RequestExit, notOldUi, Instances
<1>5. CASE Restore
  <2>1. CASE Acknowledged("old", TRUE)
    BY <1>5, <2>1 DEF Restore, notOldUi, Inv, InputTypes, Quiet, Instances
  <2>2. CASE ~Acknowledged("old", TRUE)
    <3>1. PICK sent \in BOOLEAN : RequestInput("old", TRUE, sent)
      BY <1>5, <2>2 DEF Restore
    <3>2. mutex' = "old" /\ mutex \in {"none", "old"} /\ UNCHANGED <<applied, installed>>
      BY <1>5 DEF Restore, notOldUi
    <3>3. \A q \in Instances : mutex' # q => mutex # q BY <3>2 DEF Instances
    <3>4. \A q \in Instances : mutex # q => mutex' # q \/ q = "old" BY <3>2 DEF Instances
    <3> QED BY <3>1, <3>2, <3>3, <3>4, RequestKeeps DEF Instances
  <2> QED BY <2>1, <2>2
<1>6. CASE Suspended
  <2>1. requested["old"] % 2 = 0 /\ applied["old"] % 2 = 0
    BY <1>6 DEF Suspended, Acknowledged, Inv, InputTypes, Instances
  <2> QED BY <1>6, <2>1 DEF Suspended, notOldUi, Inv, InputTypes, Quiet, Instances
<1> QED BY <1>1, <1>2, <1>3, <1>4, <1>5, <1>6 DEF OldUiTurn

LEMMA ChildUiStep == Inv /\ (ChildUiTurn \/ ChildUserExits) => Inv'
<1> SUFFICES ASSUME Inv, ChildUiTurn \/ ChildUserExits PROVE Inv'
  OBVIOUS
<1>1. CASE ChildPrepared \/ ChildActive \/ ChildCommit \/ ChildAccept
  BY <1>1 DEF ChildPrepared, ChildActive, ChildCommit, ChildAccept, notChildUi,
     Inv, InputTypes, Quiet
<1>2. CASE ChildAborts \/ ChildUserExits
  <2>1. PICK sent \in BOOLEAN : RequestInput("new", FALSE, sent)
    BY <1>2 DEF ChildAborts, ChildUserExits, ChildStops
  <2>2. mutex' = mutex /\ UNCHANGED <<applied, installed>>
    BY <1>2 DEF ChildAborts, ChildUserExits, ChildStops, notChildUi
  <2> QED BY <2>1, <2>2, RequestKeeps DEF Instances
<1>3. CASE ChildActivate
  <2>1. UNCHANGED <<applied, installed>> BY <1>3 DEF ChildActivate, notChildUi
  <2>2. mutex' = mutex \/ (mutex = "none" /\ mutex' = "new") BY <1>3 DEF ChildActivate
  <2>3. CASE mutex' = "new" /\ RequestInput("new", TRUE, TRUE)
    <3>1. \A q \in Instances : mutex' # q => mutex # q BY <2>2 DEF Instances
    <3>2. \A q \in Instances : mutex # q => mutex' # q \/ q = "new" BY <2>2, <2>3 DEF Instances
    <3> QED BY <2>1, <2>3, <3>1, <3>2, RequestKeeps DEF Instances
  <2>4. CASE /\ requested' = IF mutex' = "new"
                 THEN [requested EXCEPT !["new"] = Toggle(Toggle(@, TRUE), FALSE)]
                 ELSE requested
             /\ posted' \in {posted, [posted EXCEPT !["new"] = TRUE]}
    <3>1. Toggle(Toggle(requested["new"], TRUE), FALSE) \in Nat
      BY ToggleParity DEF Inv, InputTypes, Instances
    <3>2. InputTypes' BY <2>1, <2>4, <3>1 DEF Inv, InputTypes, Instances
    <3>3. ASSUME NEW q \in Instances, mutex' # q PROVE Quiet(q)'
      <4>1. mutex # q /\ Quiet(q) BY <2>2, <3>3 DEF Inv, Instances
      <4> QED BY <2>1, <2>4, <3>3, <4>1 DEF Quiet, Inv, InputTypes, Instances
    <3> QED BY <3>2, <3>3 DEF Inv
  <2> QED BY <1>3, <2>3, <2>4 DEF ChildActivate
<1> QED BY <1>1, <1>2, <1>3 DEF ChildUiTurn

LEMMA ProcessStep ==
  Inv /\ (Teardown \/ OldExits \/ OldDies \/ ChildTeardown \/ ChildExits \/ ChildKilled \/ ChildDies)
    => Inv'
<1> SUFFICES ASSUME Inv, Teardown \/ OldExits \/ OldDies \/ ChildTeardown \/ ChildExits
                         \/ ChildKilled \/ ChildDies
    PROVE Inv'
  OBVIOUS
<1> USE DEF Inv, InputTypes, Quiet, Instances
<1>1. CASE Teardown BY <1>1 DEF Teardown
<1>2. CASE OldExits \/ OldDies BY <1>2 DEF OldExits, OldDies, OldEnds
<1>3. CASE ChildTeardown BY <1>3 DEF ChildTeardown
<1>4. CASE ChildExits \/ ChildKilled \/ ChildDies
  BY <1>4 DEF ChildExits, ChildKilled, ChildDies, ChildEnds
<1> QED BY <1>1, <1>2, <1>3, <1>4

LEMMA WorkersStep == Inv /\ (ParentStep \/ ChildWorkerStep) => Inv'
<1> SUFFICES ASSUME Inv, ParentStep \/ ChildWorkerStep PROVE Inv'
  OBVIOUS
<1> USE DEF Inv, InputTypes, Quiet
<1>1. CASE Spawn BY <1>1 DEF Spawn, Instances
<1>2. CASE Check \/ Receive \/ WaitUi \/ CheckCurrent \/ Notify \/ Send \/ Decide
           \/ ParentFails \/ Rollback
  BY <1>2 DEF Check, Receive, WaitUi, CheckCurrent, Notify, Send, Decide, ParentFails, Rollback,
     notParent, input
<1>3. CASE ChildWorkerStep
  BY <1>3 DEF ChildWorkerStep, WorkerCheck, Reply, Write, Command, Current, Post, WorkerFails,
     notWorker, input
<1> QED BY <1>1, <1>2, <1>3 DEF ParentStep

LEMMA ApplyStep == Inv /\ (\E p \in Instances : ApplyInput(p)) => Inv'
<1> SUFFICES ASSUME Inv, NEW p \in Instances, ApplyInput(p) PROVE Inv'
  OBVIOUS
<1> QED BY DEF ApplyInput, Inv, InputTypes, Quiet

\* The invariant holds in every state of a handoff.
THEOREM Invariance == Spec => []Inv
<1>1. Inv /\ [Next]_vars => Inv'
  <2> SUFFICES ASSUME Inv, [Next]_vars PROVE Inv'
    OBVIOUS
  <2>1. CASE UNCHANGED vars BY <2>1 DEF vars, input, Inv, InputTypes, Quiet
  <2> QED BY <2>1, OldUiStep, ChildUiStep, ProcessStep, WorkersStep, ApplyStep DEF Next
<1> QED BY <1>1, Initially, PTL DEF Spec

\* A hook that takes keys belongs to the instance that owns the mutex, in every
\* interleaving of the two user interfaces, their hook threads and the workers.
THEOREM OneInput == Spec => []InputNeedsMutex
<1>1. Inv => InputNeedsMutex
  BY DEF Inv, InputTypes, Quiet, InputNeedsMutex, Active
<1> QED BY <1>1, Invariance, PTL

-------------------------------------------------------------------------------
(* The old instance resumes alone: the worker says so only when the child  *)
(* has ended, and nothing spawns a child after it said so.                 *)

HandoffOver == parent = 0 /\ rollback = "none" /\ ~ChildAlive

EventTypes == events \in Seq(ParentEvents) /\ parent \in 0..Len(Script)

Confirmed == \A i \in 1..Len(events) : events[i] = "FailedSafe" => HandoffOver

Resumed == phase = "Restoring" => HandoffOver

CleaningUp == rollback # "none" => parent = 0

SafeInv == EventTypes /\ Confirmed /\ Resumed /\ CleaningUp

\* An event taken off the queue was confirmed, and so is what is left.
LEMMA ReceivedConfirmed ==
  ASSUME EventTypes, Confirmed, NEW e, Received(e)
  PROVE  /\ events' \in Seq(ParentEvents)
         /\ e = "FailedSafe" => HandoffOver
         /\ \A i \in 1..Len(events') : events'[i] = "FailedSafe" => HandoffOver
<1>1. events # <<>> /\ e = events[1] /\ events' = Tail(events) BY DEF Received
<1>2. Len(events) \in Nat /\ Len(events) >= 1 BY <1>1 DEF EventTypes
<1>3. \A i \in 1..Len(Tail(events)) : Tail(events)[i] = events[i + 1] /\ i + 1 \in 1..Len(events)
  BY <1>1, <1>2 DEF EventTypes
<1>4. e = "FailedSafe" => HandoffOver
  <2>1. 1 \in 1..Len(events) BY <1>2
  <2> QED BY <1>1, <2>1 DEF Confirmed
<1>5. events' \in Seq(ParentEvents) BY <1>1 DEF EventTypes
<1> QED BY <1>1, <1>3, <1>4, <1>5 DEF Confirmed

\* What matters of the script here: its length, and that it announces no failure.
LEMMA ScriptLength == Len(Script) = 19
  BY DEF Script

LEMMA ScriptEvents ==
  ASSUME NEW i \in 1..19, Script[i].do = "Event"
  PROVE  Script[i].what \in ParentEvents \ {"FailedSafe", "FailedUnsafe"}
<1>1. \A do, what : Step(do, what).do = do /\ Step(do, what).what = what
  BY DEF Step
<1>2. /\ Script[1].do = "Spawn" /\ Script[2].do = "Wait" /\ Script[3].do = "CheckCurrent"
      /\ Script[5].do = "WaitUi" /\ Script[6].do = "CheckCurrent" /\ Script[7].do = "Send"
  BY <1>1 DEF Script
<1>3. /\ Script[8].do = "Wait" /\ Script[9].do = "CheckCurrent" /\ Script[11].do = "WaitUi"
      /\ Script[12].do = "CheckCurrent" /\ Script[13].do = "Send"
  BY <1>1 DEF Script
<1>4. /\ Script[14].do = "Wait" /\ Script[16].do = "Decide" /\ Script[17].do = "Send"
      /\ Script[18].do = "Wait"
  BY <1>1 DEF Script
<1>5. i \in {4, 10, 15, 19} BY <1>2, <1>3, <1>4
<1>6. /\ Script[4].what = "Suspend" /\ Script[10].what = "Ready"
      /\ Script[15].what = "Done" /\ Script[19].what = "Complete"
  BY <1>1 DEF Script
<1> QED BY <1>5, <1>6 DEF ParentEvents

LEMMA SafeInitially == Init => SafeInv
<1> SUFFICES ASSUME Init PROVE SafeInv
  OBVIOUS
<1>1. Len(events) = 0 BY DEF Init
<1> QED BY <1>1, ScriptLength
        DEF Init, SafeInv, EventTypes, Confirmed, Resumed, CleaningUp, ParentEvents

LEMMA SafeOldUi == SafeInv /\ OldUiTurn => SafeInv'
<1> SUFFICES ASSUME SafeInv, OldUiTurn PROVE SafeInv'
  OBVIOUS
<1> USE DEF SafeInv
<1>1. CASE OnSuspend \/ OnReady \/ OnDone \/ OnComplete \/ OnEventWhileExiting
  <2>1. PICK e : Received(e)
    BY <1>1 DEF OnSuspend, OnReady, OnDone, OnComplete, OnEventWhileExiting
  <2>2. UNCHANGED <<parent, rollback, child>> /\ (phase' = phase \/ phase' = "Pausing")
    BY <1>1 DEF OnSuspend, OnReady, OnDone, OnComplete, OnEventWhileExiting,
       notOldUi, parentVars, process
  <2> QED BY <2>1, <2>2, ReceivedConfirmed
          DEF EventTypes, Confirmed, Resumed, CleaningUp, HandoffOver, ChildAlive
<1>2. CASE OnFailed
  <2>1. PICK e : /\ Received(e)
                 /\ e = "FailedSafe" \/ phase' = phase
    BY <1>2 DEF OnFailed
  <2>2. UNCHANGED <<parent, rollback, child>>
    BY <1>2 DEF OnFailed, notOldUi, parentVars, process
  <2> QED BY <2>1, <2>2, ReceivedConfirmed
          DEF EventTypes, Confirmed, Resumed, CleaningUp, HandoffOver, ChildAlive
<1>3. CASE Suspended \/ Restore
  BY <1>3 DEF Suspended, Restore, notOldUi, parentVars, process,
     EventTypes, Confirmed, Resumed, CleaningUp, HandoffOver, ChildAlive
<1> QED BY <1>1, <1>2, <1>3 DEF OldUiTurn

LEMMA SafeParent == SafeInv /\ ParentStep => SafeInv'
<1> SUFFICES ASSUME SafeInv, ParentStep PROVE SafeInv'
  OBVIOUS
<1> USE DEF SafeInv
<1>1. CASE Spawn \/ Check \/ Receive \/ WaitUi \/ CheckCurrent \/ Send \/ Decide
  <2>1. parent # 0
    BY <1>1 DEF Spawn, Check, Receive, WaitUi, CheckCurrent, Send, Decide, ParentAt
  <2>2. UNCHANGED <<events, phase, rollback>>
    BY <1>1 DEF Spawn, Check, Receive, WaitUi, CheckCurrent, Send, Decide, ui, notParent
  <2>3. parent' = parent \/ NextStep
    BY <1>1 DEF Spawn, Check, Receive, WaitUi, CheckCurrent, Send, Decide
  <2>4. parent' \in 0..Len(Script)
    BY SMTT(30), <2>3, ScriptLength DEF NextStep, EventTypes
  <2> QED BY <2>1, <2>2, <2>4 DEF EventTypes, Confirmed, Resumed, CleaningUp, HandoffOver
<1>2. CASE Notify
  <2>1. parent # 0 /\ What \in ParentEvents \ {"FailedSafe", "FailedUnsafe"}
    <3>1. parent \in 1..19 /\ Script[parent].do = "Event"
      BY <1>2, ScriptLength DEF Notify, ParentAt, EventTypes
    <3> QED BY <3>1, ScriptEvents DEF What
  <2>2. events' = Append(events, What) /\ UNCHANGED <<phase, rollback>>
        /\ parent' \in 0..Len(Script)
    BY <1>2, <2>1, ScriptLength DEF Notify, NextStep, notParent, EventTypes
  <2>3. \A i \in 1..Len(events) : events[i] # "FailedSafe"
    BY <2>1 DEF Confirmed, HandoffOver
  <2>4. \A i \in 1..Len(events') : events'[i] # "FailedSafe"
    BY <2>1, <2>2, <2>3 DEF EventTypes
  <2> QED BY <2>1, <2>2, <2>4 DEF EventTypes, Confirmed, Resumed, CleaningUp, HandoffOver
<1>3. CASE ParentFails
  <2>1. parent # 0
    BY <1>3 DEF ParentFails, ParentAt
  <2>2. UNCHANGED <<events, phase>> /\ parent' = 0
    BY <1>3 DEF ParentFails, notParent
  <2> QED BY <2>1, <2>2, ScriptLength DEF EventTypes, Confirmed, Resumed, CleaningUp, HandoffOver
<1>4. CASE Rollback
  <2>1. rollback # "none" /\ UNCHANGED <<phase, parent, child>> /\ parent = 0
    BY <1>4 DEF Rollback, notParent, process, CleaningUp
  <2>2. \A i \in 1..Len(events) : events[i] # "FailedSafe"
    BY <2>1 DEF Confirmed, HandoffOver
  <2>3. CASE ~ChildAlive /\ events' = Append(events, "FailedSafe") /\ rollback' = "none"
    BY <2>1, <2>3 DEF EventTypes, Confirmed, Resumed, CleaningUp, HandoffOver, ChildAlive,
       ParentEvents
  <2>4. CASE events' = Append(events, "FailedUnsafe") /\ rollback' = "await"
    <3>1. \A i \in 1..Len(events') : events'[i] # "FailedSafe"
      BY <2>2, <2>4 DEF EventTypes
    <3> QED BY <2>1, <2>4, <3>1 DEF EventTypes, Confirmed, Resumed, CleaningUp, HandoffOver,
         ParentEvents
  <2>5. CASE events' = events /\ rollback' = "none"
    BY <2>1, <2>2, <2>5 DEF EventTypes, Confirmed, Resumed, CleaningUp, HandoffOver
  <2> QED BY <1>4, <2>3, <2>4, <2>5 DEF Rollback
<1> QED BY <1>1, <1>2, <1>3, <1>4 DEF ParentStep

LEMMA SafeOthers ==
  ASSUME SafeInv, UNCHANGED <<events, phase>>,
         UNCHANGED <<parent, rollback>> \/ (parent' = 0 /\ rollback' = "none"),
         ChildAlive' => ChildAlive
  PROVE  SafeInv'
  BY ScriptLength DEF SafeInv, EventTypes, Confirmed, Resumed, CleaningUp, HandoffOver

LEMMA SafeStep == SafeInv /\ [Next]_vars => SafeInv'
<1> SUFFICES ASSUME SafeInv, [Next]_vars PROVE SafeInv'
  OBVIOUS
<1> USE DEF ui, parentVars, process, childUi
<1>1. CASE StartRestart
  BY <1>1, ScriptLength DEF StartRestart, SafeInv, EventTypes, Confirmed, Resumed, CleaningUp,
     HandoffOver, ParentEvents
<1>2. CASE RequestExit \/ WindowDestroyed
  BY <1>2, SafeOthers DEF RequestExit, WindowDestroyed, notOldUi, ChildAlive
<1>3. CASE Teardown \/ OldExits \/ OldDies
  BY <1>3, SafeOthers DEF Teardown, OldExits, OldDies, OldEnds, ChildAlive
<1>4. CASE ChildWorkerStep
  BY <1>4, SafeOthers DEF ChildWorkerStep, WorkerCheck, Reply, Write, Command, Current, Post,
     WorkerFails, notWorker, ChildAlive
<1>5. CASE ChildUiTurn \/ ChildUserExits
  BY <1>5, SafeOthers DEF ChildUiTurn, ChildUserExits, ChildPrepared, ChildActivate, ChildActive,
     ChildCommit, ChildAccept, ChildAborts, ChildStops, ChildReceived, notChildUi, ChildAlive
<1>6. CASE ChildTeardown \/ ChildExits \/ ChildKilled \/ ChildDies
  BY <1>6, SafeOthers DEF ChildTeardown, ChildExits, ChildKilled, ChildDies, ChildEnds, ChildAlive
<1>7. CASE \E p \in Instances : ApplyInput(p)
  BY <1>7, SafeOthers DEF ApplyInput, ChildAlive
<1>8. CASE UNCHANGED vars
  BY <1>8, SafeOthers DEF vars, ChildAlive
<1> QED BY <1>1, <1>2, <1>3, <1>4, <1>5, <1>6, <1>7, <1>8, SafeOldUi, SafeParent DEF Next

\* The old instance resumes only when the child process has ended, in every
\* order of the failure, the clean-up and the messages about them.
THEOREM NeverResumesBesideChild == Spec => []ResumesAlone
<1>1. SafeInv => ResumesAlone BY DEF SafeInv, Resumed, HandoffOver, ResumesAlone
<1> QED BY <1>1, SafeInitially, SafeStep, PTL DEF Spec

\* Two instances never do the work of one, for every kind of launch and every
\* number of handoffs.
THEOREM Exclusion == Spec => []OneInstance
BY OneInput, NeverResumesBesideChild, PTL DEF OneInstance

-------------------------------------------------------------------------------
(* A handoff goes by its script: each event and each command is taken      *)
(* before the next is due, and only an acknowledged child is left to serve. *)

\* The steps after which the worker waits for what its UI makes of an event.
Asked == {5, 11, 16}

Paced ==
  parent # 0 =>
    /\ rollback = "none"
    /\ events # <<>> =>
         /\ parent \in Asked /\ Len(events) = 1 /\ events[1] = Script[parent - 1].what
         /\ commands = <<>> /\ phase # "Pausing" /\ decision # "accepted"
    /\ commands # <<>> => parent \in {5, 11} /\ phase # "Pausing"
    /\ phase = "Pausing" => parent = 5
    /\ decision = "accepted" => parent >= 16
    /\ parent >= 17 => decision = "accepted"

\* A worker that has ended has at most told of its failure, twice if the child
\* did not end at once, and its UI commands nothing any more.
Ended ==
  parent = 0 =>
    /\ Len(events) <= (IF rollback = "abort" THEN 1 ELSE IF rollback = "await" THEN 2 ELSE 3)
    /\ old = "up" /\ restart => decision # "undecided"

Commanded ==
  /\ commands \in Seq({"Suspended", "Commit"}) /\ Len(commands) <= 1
  /\ old = "up" /\ phase = "Pausing" => restart

\* What was sent and posted, by how far the scripts are.
Sent ==
  /\ down \in Seq({"Activate", "Commit", "Accepted"})
  /\ Len(down) <= (IF parent \in 2 .. 7 THEN 0 ELSE IF parent \in 8 .. 13 THEN 1
                   ELSE IF parent \in 14 .. 17 THEN 2 ELSE 3)
Posted ==
  /\ worker \in 0 .. Kept /\ childEvents \in Seq({"Activate", "Commit", "Accept"})
  /\ Len(childEvents) <= (IF worker \in 1 .. 5 THEN 0 ELSE IF worker \in 6 .. 11 THEN 1
                          ELSE IF worker \in 12 .. 16 THEN 2 ELSE 3)
Answered ==
  /\ childPhase \in {"Preparing", "Prepared", "Activating", "Active", "Committed", "Running"}
  /\ replies \in Seq({"Prepared", "Active", "Committed", "AcceptedAck"})
  /\ Len(replies) <= (IF childPhase = "Preparing" THEN 0 ELSE IF childPhase \in {"Prepared", "Activating"} THEN 1
                      ELSE IF childPhase = "Active" THEN 2 ELSE IF childPhase = "Committed" THEN 3 ELSE 4)

\* Whoever hears of the acknowledgement hears of a child that stays.
Keeper ==
  /\ up \in Seq({"Prepared", "Active", "Committed", "AcceptedAck"})
  /\ parent >= 2 => \A i \in 1 .. Len(up) : up[i] = "AcceptedAck" => worker = Kept
  /\ parent = 19 => worker = Kept
  /\ \A i \in 1 .. Len(events) : events[i] = "Complete" => worker = Kept
  /\ old = "stopping" /\ ~exiting => worker = Kept /\ parent = 0

ScriptInv == EventTypes /\ Paced /\ Ended /\ Commanded /\ Sent /\ Posted /\ Answered /\ Keeper

LEMMA ScriptSteps ==
  ASSUME NEW i \in 1 .. 19
  PROVE  /\ Script[i].do = "Spawn" => i = 1
         /\ Script[i].do = "Wait" => i \in {2, 8, 14, 18}
         /\ Script[i].do = "CheckCurrent" => i \in {3, 6, 9, 12}
         /\ Script[i].do = "Event" => i \in {4, 10, 15, 19}
         /\ Script[i].do = "WaitUi" => i \in {5, 11}
         /\ Script[i].do = "Send" => i \in {7, 13, 17}
         /\ Script[i].do = "Decide" => i = 16
<1>1. \A do, what : Step(do, what).do = do /\ Step(do, what).what = what
  BY DEF Step
<1>2. /\ Script[1].do = "Spawn" /\ Script[2].do = "Wait" /\ Script[3].do = "CheckCurrent"
      /\ Script[4].do = "Event" /\ Script[5].do = "WaitUi" /\ Script[6].do = "CheckCurrent"
      /\ Script[7].do = "Send"
  BY <1>1 DEF Script
<1>3. /\ Script[8].do = "Wait" /\ Script[9].do = "CheckCurrent" /\ Script[10].do = "Event"
      /\ Script[11].do = "WaitUi" /\ Script[12].do = "CheckCurrent" /\ Script[13].do = "Send"
  BY <1>1 DEF Script
<1>4. /\ Script[14].do = "Wait" /\ Script[15].do = "Event" /\ Script[16].do = "Decide"
      /\ Script[17].do = "Send" /\ Script[18].do = "Wait" /\ Script[19].do = "Event"
  BY <1>1 DEF Script
<1>5. i \in {1, 2, 3, 4, 5, 6, 7} \cup {8, 9, 10, 11, 12, 13} \cup {14, 15, 16, 17, 18, 19}
  OBVIOUS
<1> QED BY <1>2, <1>3, <1>4, <1>5

LEMMA ScriptMessages ==
  /\ Script[4].what = "Suspend" /\ Script[10].what = "Ready" /\ Script[15].what = "Done"
  /\ Script[19].what = "Complete" /\ Script[18].what = "AcceptedAck"
  /\ Script[7].what = "Activate" /\ Script[13].what = "Commit" /\ Script[17].what = "Accepted"
<1>1. \A do, what : Step(do, what).do = do /\ Step(do, what).what = what
  BY DEF Step
<1> QED BY <1>1 DEF Script

LEMMA ScriptSends ==
  Script[1].do = "Spawn" /\ Script[7].do = "Send" /\ Script[13].do = "Send" /\ Script[17].do = "Send"
<1>1. \A do, what : Step(do, what).do = do
  BY DEF Step
<1> QED BY <1>1 DEF Script

LEMMA ChildScriptSteps ==
  ASSUME NEW i \in 1 .. 18
  PROVE  /\ ChildScript[i].do = "Reply" => i \in {1, 6, 12, 17}
         /\ ChildScript[i].do = "Write" => i \in {2, 8, 13, 18}
         /\ ChildScript[i].do = "Command" => i \in {3, 9, 14}
         /\ ChildScript[i].do = "Current" => i \in {4, 7, 10, 15}
         /\ ChildScript[i].do = "Post" => i \in {5, 11, 16}
         /\ ChildScript[i].do = "Write" /\ i # 18 => ChildScript[i].what \in {"Prepared", "Active", "Committed"}
         /\ ChildScript[i].do = "Post" => ChildScript[i].what \in {"Activate", "Commit", "Accept"}
<1>1. \A do, what : Step(do, what).do = do /\ Step(do, what).what = what
  BY DEF Step
<1>2. /\ ChildScript[1].do = "Reply" /\ ChildScript[2].do = "Write" /\ ChildScript[3].do = "Command"
      /\ ChildScript[4].do = "Current" /\ ChildScript[5].do = "Post" /\ ChildScript[6].do = "Reply"
  BY <1>1 DEF ChildScript
<1>3. /\ ChildScript[7].do = "Current" /\ ChildScript[8].do = "Write" /\ ChildScript[9].do = "Command"
      /\ ChildScript[10].do = "Current" /\ ChildScript[11].do = "Post" /\ ChildScript[12].do = "Reply"
  BY <1>1 DEF ChildScript
<1>4. /\ ChildScript[13].do = "Write" /\ ChildScript[14].do = "Command" /\ ChildScript[15].do = "Current"
      /\ ChildScript[16].do = "Post" /\ ChildScript[17].do = "Reply" /\ ChildScript[18].do = "Write"
  BY <1>1 DEF ChildScript
<1>5. /\ ChildScript[2].what = "Prepared" /\ ChildScript[8].what = "Active" /\ ChildScript[13].what = "Committed"
      /\ ChildScript[5].what = "Activate" /\ ChildScript[11].what = "Commit" /\ ChildScript[16].what = "Accept"
  BY <1>1 DEF ChildScript
<1>6. i \in {1, 2, 3, 4, 5, 6} \cup {7, 8, 9, 10, 11, 12} \cup {13, 14, 15, 16, 17, 18}
  OBVIOUS
<1> QED BY <1>2, <1>3, <1>4, <1>5, <1>6

LEMMA ChildScriptPosts ==
  ChildScript[5].do = "Post" /\ ChildScript[11].do = "Post" /\ ChildScript[16].do = "Post"
<1>1. \A do, what : Step(do, what).do = do
  BY DEF Step
<1> QED BY <1>1 DEF ChildScript

LEMMA ChildScriptEnd == Kept = 19 /\ Len(ChildScript) = 18 /\ ChildScript[18].what = "AcceptedAck"
<1>1. Len(ChildScript) = 18
  BY DEF ChildScript
<1>2. \A do, what : Step(do, what).what = what
  BY DEF Step
<1> QED BY <1>1, <1>2 DEF Kept, ChildScript

PacedInv == EventTypes /\ Paced /\ Ended /\ Commanded

\* Of a queue that holds one event, nothing is left once it is received.
LEMMA Taken ==
  ASSUME PacedInv, NEW e, Received(e)
  PROVE  /\ events' \in Seq(ParentEvents) /\ Len(events') = Len(events) - 1 /\ Len(events) \in Nat \ {0}
         /\ old = "up" /\ restart
         /\ parent # 0 =>
              /\ events' = <<>> /\ parent \in Asked /\ e = Script[parent - 1].what
              /\ commands = <<>> /\ phase # "Pausing" /\ decision # "accepted" /\ rollback = "none"
<1>1. events \in Seq(ParentEvents) /\ events # <<>> /\ Head(events) = e /\ events' = Tail(events)
      /\ old = "up" /\ restart
  BY DEF PacedInv, EventTypes, Received
<1>2. /\ Len(events) \in Nat \ {0} /\ Tail(events) \in Seq(ParentEvents) /\ Len(Tail(events)) = Len(events) - 1
      /\ Head(events) = events[1]
  BY <1>1, DroppingFirst
<1>3. ASSUME parent # 0
      PROVE  /\ events' = <<>> /\ parent \in Asked /\ e = Script[parent - 1].what
             /\ commands = <<>> /\ phase # "Pausing" /\ decision # "accepted" /\ rollback = "none"
  <2>1. /\ parent \in Asked /\ Len(events) = 1 /\ events[1] = Script[parent - 1].what
        /\ commands = <<>> /\ phase # "Pausing" /\ decision # "accepted" /\ rollback = "none"
    BY <1>1, <1>3 DEF PacedInv, Paced
  <2>2. Tail(events) = <<>>
    <3>1. Tail(events) \in Seq(ParentEvents) /\ Len(Tail(events)) = 0
      BY <1>2, <2>1
    <3> QED BY <3>1, NoneLeft
  <2> QED BY <1>1, <1>2, <2>1, <2>2
<1> QED BY <1>1, <1>2, <1>3

LEMMA OneCommand ==
  ASSUME commands = <<>>, NEW c \in {"Suspended", "Commit"}
  PROVE  Append(commands, c) \in Seq({"Suspended", "Commit"}) /\ Len(Append(commands, c)) = 1 /\ Append(commands, c) # <<>>
<1>1. commands \in Seq({"Suspended", "Commit"}) /\ Len(commands) = 0
  OBVIOUS
<1> QED BY <1>1, Appending

LEMMA PacedUi == PacedInv /\ OldUiTurn => PacedInv'
<1> SUFFICES ASSUME PacedInv, OldUiTurn PROVE PacedInv'
  OBVIOUS
<1>0. /\ parent \in 0 .. 19 /\ commands \in Seq({"Suspended", "Commit"}) /\ Len(commands) <= 1
      /\ parent = 0 /\ old = "up" /\ restart => decision # "undecided"
  BY ScriptLength DEF PacedInv, EventTypes, Ended, Commanded
<1>1. CASE OnSuspend
  <2>1. /\ Received("Suspend") /\ UNCHANGED <<parent, rollback, commands, old, restart>>
        /\ \/ phase' = "Pausing" /\ decision' = decision
           \/ phase' = phase /\ decision' = Canceled
    BY <1>1 DEF OnSuspend, notOldUi, parentVars
  <2>2. parent # 0 => parent = 5
    BY <2>1, Taken, ScriptMessages DEF Asked
  <2>3. decision' = "accepted" => decision = "accepted"
    BY <2>1 DEF Canceled
  <2> QED BY <1>0, <2>1, <2>2, <2>3, Taken DEF PacedInv, EventTypes, Paced, Ended, Commanded, Canceled
<1>2. CASE OnReady
  <2>1. /\ Received("Ready") /\ UNCHANGED <<parent, rollback, decision, phase, old, restart>>
        /\ commands' = IF decision = "undecided" THEN Append(commands, "Commit") ELSE commands
    BY <1>2 DEF OnReady, notOldUi, parentVars
  <2>2. parent # 0 => parent = 11
    BY <2>1, Taken, ScriptMessages DEF Asked
  <2>3. CASE parent = 0
    BY <1>0, <2>1, <2>3, Taken DEF PacedInv, EventTypes, Paced, Ended, Commanded
  <2>4. CASE parent # 0
    BY <1>0, <2>1, <2>2, <2>4, Taken, OneCommand DEF PacedInv, EventTypes, Paced, Ended, Commanded
  <2> QED BY <2>3, <2>4
<1>3. CASE OnDone
  <2>1. /\ Received("Done") /\ UNCHANGED <<parent, rollback, commands, phase, old, restart>>
        /\ decision' = IF decision = "undecided" THEN "accepted" ELSE decision
    BY <1>3 DEF OnDone, notOldUi, parentVars
  <2>2. parent # 0 => parent = 16
    BY <2>1, Taken, ScriptMessages DEF Asked
  <2> QED BY <1>0, <2>1, <2>2, Taken DEF PacedInv, EventTypes, Paced, Ended, Commanded
<1>4. CASE OnComplete
  <2>1. /\ Received("Complete") /\ UNCHANGED <<parent, rollback, commands, phase, decision>>
        /\ old' = "stopping"
    BY <1>4 DEF OnComplete, notOldUi, parentVars
  <2>2. parent = 0
    BY <2>1, Taken, ScriptMessages DEF Asked
  <2> QED BY <1>0, <2>1, <2>2, Taken DEF PacedInv, EventTypes, Paced, Ended, Commanded
<1>5. CASE OnFailed
  <2>1. PICK e \in {"FailedSafe", "FailedUnsafe"} : Received(e)
    BY <1>5 DEF OnFailed
  <2>2. /\ UNCHANGED <<parent, rollback, commands, decision>>
        /\ \/ phase' = "Restoring" \/ old' = "stopping" \/ UNCHANGED <<old, phase, restart>>
        /\ old' # "up" \/ restart' => UNCHANGED <<restart, phase>> \/ old' # "up"
    BY <1>5 DEF OnFailed, notOldUi, parentVars
  <2>3. parent = 0
    BY <2>1, Taken, ScriptMessages DEF Asked
  <2>4. old' = "up" /\ restart' => old = "up" /\ restart
    BY <2>1, Taken
  <2> QED BY <1>0, <2>1, <2>2, <2>3, <2>4, Taken DEF PacedInv, EventTypes, Paced, Ended, Commanded
<1>6. CASE OnEventWhileExiting
  <2>1. PICK e \in {"Suspend", "Ready", "Done"} : Received(e)
    BY <1>6 DEF OnEventWhileExiting
  <2>2. UNCHANGED <<parent, rollback, commands, phase, old, restart>> /\ decision' = Canceled
    BY <1>6 DEF OnEventWhileExiting, notOldUi, parentVars
  <2>3. decision' = "accepted" => decision = "accepted"
    BY <2>2 DEF Canceled
  <2>4. decision' # "undecided"
    BY <2>2 DEF Canceled
  <2>5. parent # 0 => parent < 17
    BY <2>1, Taken DEF Asked
  <2> QED BY <1>0, <2>1, <2>2, <2>3, <2>4, <2>5, Taken DEF PacedInv, EventTypes, Paced, Ended, Commanded
<1>7. CASE Suspended
  <2>1. /\ old = "up" /\ phase = "Pausing" /\ phase' = "Suspended"
        /\ UNCHANGED <<parent, rollback, decision, events, old, restart>>
        /\ commands' = IF decision = "undecided" THEN Append(commands, "Suspended") ELSE commands
    BY <1>7 DEF Suspended, notOldUi, parentVars
  <2>2. CASE parent = 0
    <3>1. commands' = commands
      BY <1>0, <2>1, <2>2 DEF PacedInv, Commanded
    <3> QED BY <1>0, <2>1, <2>2, <3>1 DEF PacedInv, EventTypes, Paced, Ended, Commanded
  <2>3. CASE parent # 0
    <3>1. commands = <<>> /\ events = <<>> /\ parent = 5 /\ rollback = "none" /\ decision # "accepted"
      BY <2>1, <2>3 DEF PacedInv, Paced
    <3>2. commands' \in Seq({"Suspended", "Commit"}) /\ Len(commands') <= 1
      <4>1. /\ Append(commands, "Suspended") \in Seq({"Suspended", "Commit"})
            /\ Len(Append(commands, "Suspended")) = 1
        BY <3>1, OneCommand
      <4>2. CASE commands' = commands
        BY <1>0, <4>2
      <4>3. CASE commands' = Append(commands, "Suspended")
        BY <4>1, <4>3
      <4> QED BY <2>1, <4>2, <4>3
    <3>3. Paced'
      BY <2>1, <3>1 DEF Paced
    <3> QED BY <2>1, <3>1, <3>2, <3>3 DEF PacedInv, EventTypes, Ended, Commanded
  <2> QED BY <2>2, <2>3
<1>8. CASE Restore
  BY <1>0, <1>8 DEF Restore, notOldUi, parentVars, PacedInv, EventTypes, Paced, Ended, Commanded
<1> QED BY <1>1, <1>2, <1>3, <1>4, <1>5, <1>6, <1>7, <1>8 DEF OldUiTurn

LEMMA PacedParent == PacedInv /\ ParentStep => PacedInv'
<1> SUFFICES ASSUME PacedInv, ParentStep PROVE PacedInv'
  OBVIOUS
<1>0. /\ parent \in 0 .. 19 /\ commands \in Seq({"Suspended", "Commit"}) /\ Len(commands) <= 1
      /\ events \in Seq(ParentEvents) /\ Len(Script) = 19
  BY ScriptLength DEF PacedInv, EventTypes, Commanded
<1>1. CASE Spawn \/ Receive \/ CheckCurrent \/ Send \/ Decide
  <2>1. UNCHANGED <<events, rollback, commands, phase, decision, old, restart>> /\ NextStep
    BY <1>1 DEF Spawn, Receive, CheckCurrent, Send, Decide, ui, notParent
  <2> DEFINE do == Script[parent].do
  <2>a. /\ parent # 0 /\ do \in {"Spawn", "Wait", "CheckCurrent", "Send", "Decide"}
        /\ do = "Decide" => decision = "accepted"
    BY <1>1 DEF Spawn, Receive, CheckCurrent, Send, Decide, ParentAt
  <2>b. parent \in 1 .. 19
    BY <1>0, <2>a
  <2>2. parent \in {1, 2, 8, 14, 18, 3, 6, 9, 12, 7, 13, 17, 16}
    BY <2>a, <2>b, ScriptSteps
  <2>3. parent = 16 => decision = "accepted"
    <3>1. do = "Spawn" => parent # 16
      BY <2>b, ScriptSteps
    <3>2. do = "Wait" => parent # 16
      BY <2>b, ScriptSteps
    <3>3. do = "CheckCurrent" => parent # 16
      BY <2>b, ScriptSteps
    <3>4. do = "Send" => parent # 16
      BY <2>b, ScriptSteps
    <3> QED BY <2>a, <3>1, <3>2, <3>3, <3>4
  <2>4. parent' = parent + 1
    BY <1>0, <2>1, <2>2 DEF NextStep
  <2>5. events = <<>> /\ commands = <<>> /\ phase # "Pausing"
    BY <2>2, <2>3 DEF PacedInv, Paced, Asked
  <2>6. EventTypes' /\ Ended' /\ Commanded'
    BY <1>0, <2>1, <2>2, <2>4 DEF PacedInv, EventTypes, Ended, Commanded
  <2>7. Paced'
    BY <2>1, <2>2, <2>3, <2>4, <2>5 DEF PacedInv, Paced, Asked
  <2> QED BY <2>6, <2>7 DEF PacedInv
<1>2. CASE Check
  BY <1>2 DEF Check, notParent, PacedInv, EventTypes, Paced, Ended, Commanded
<1>3. CASE WaitUi
  <2>1. /\ UNCHANGED <<events, rollback, phase, decision, old, restart>> /\ NextStep
        /\ commands # <<>> /\ commands' = Tail(commands)
    BY <1>3 DEF WaitUi, notParent
  <2>2. parent \in {5, 11}
    <3>1. parent \in 1 .. 19 /\ Script[parent].do = "WaitUi"
      BY <1>0, <1>3 DEF WaitUi, ParentAt
    <3> QED BY <3>1, ScriptSteps
  <2>3. parent' = parent + 1
    BY <1>0, <2>1, <2>2 DEF NextStep
  <2>4. commands' \in Seq({"Suspended", "Commit"}) /\ Len(commands') = 0
    <3>1. /\ Len(commands) \in Nat \ {0} /\ Tail(commands) \in Seq({"Suspended", "Commit"})
          /\ Len(Tail(commands)) = Len(commands) - 1
      BY <1>0, <2>1, DroppingFirst
    <3> QED BY <1>0, <2>1, <3>1
  <2>5. commands' = <<>>
    BY <2>4
  <2>6. events = <<>> /\ phase # "Pausing" /\ decision # "accepted" /\ rollback = "none"
    BY <2>1, <2>2 DEF PacedInv, Paced
  <2>7. Paced'
    BY <2>1, <2>2, <2>3, <2>5, <2>6 DEF Paced
  <2> QED BY <1>0, <2>1, <2>2, <2>3, <2>4, <2>7 DEF PacedInv, EventTypes, Ended, Commanded
<1>4. CASE Notify
  <2>1. /\ UNCHANGED <<rollback, phase, decision, old, restart, commands>> /\ NextStep
        /\ events' = Append(events, What) /\ What = Script[parent].what
    BY <1>4 DEF Notify, notParent, What
  <2>2. parent \in {4, 10, 15, 19}
    <3>1. parent \in 1 .. 19 /\ Script[parent].do = "Event"
      BY <1>0, <1>4 DEF Notify, ParentAt
    <3> QED BY <3>1, ScriptSteps
  <2>3. events = <<>> /\ commands = <<>> /\ phase # "Pausing" /\ rollback = "none"
        /\ (decision = "accepted" => parent >= 16) /\ (parent = 19 => decision = "accepted")
    BY <2>2 DEF PacedInv, Paced, Asked
  <2>4. What \in ParentEvents
    BY <2>1, <2>2, ScriptMessages DEF ParentEvents
  <2>5. events' \in Seq(ParentEvents) /\ Len(events') = 1 /\ events'[1] = What
    <3>1. Len(events) = 0
      BY <2>3
    <3> QED BY <1>0, <2>1, <2>4, <3>1, Appending
  <2>6. parent' = IF parent = 19 THEN 0 ELSE parent + 1
    BY <1>0, <2>1 DEF NextStep
  <2>7. CASE parent = 19
    BY <1>0, <2>1, <2>3, <2>5, <2>6, <2>7 DEF PacedInv, EventTypes, Paced, Ended, Commanded
  <2>8. CASE parent # 19
    <3>1. parent' \in Asked /\ parent' - 1 = parent /\ parent' < 17 /\ parent' \in 0 .. 19
      BY <2>2, <2>6, <2>8 DEF Asked
    <3>2. decision' # "accepted"
      BY <2>1, <2>2, <2>3, <2>8
    <3>3. Paced'
      BY <2>1, <2>3, <2>5, <3>1, <3>2 DEF Paced
    <3> QED BY <1>0, <2>1, <2>5, <3>1, <3>3 DEF PacedInv, EventTypes, Ended, Commanded
  <2> QED BY <2>7, <2>8
<1>5. CASE ParentFails
  <2>1. parent # 0 /\ parent' = 0 /\ rollback' = "abort" /\ decision' = Canceled
        /\ UNCHANGED <<events, phase, old, restart, commands>>
    BY <1>5 DEF ParentFails, ParentAt, notParent
  <2>2. Len(events) <= 1
    <3>1. CASE events = <<>>
      BY <3>1
    <3>2. CASE events # <<>>
      <4>1. Len(events) = 1
        BY <2>1, <3>2 DEF PacedInv, Paced
      <4> QED BY <4>1
    <3> QED BY <3>1, <3>2
  <2> QED BY <1>0, <2>1, <2>2 DEF PacedInv, EventTypes, Paced, Ended, Commanded, Canceled
<1>6. CASE Rollback
  <2>1. rollback # "none" /\ UNCHANGED <<parent, phase, old, restart, commands, decision>>
    BY <1>6 DEF Rollback, notParent
  <2>2. parent = 0
    BY <2>1 DEF PacedInv, Paced
  <2>3. Len(events) \in Nat /\ Len(events) <= (IF rollback = "abort" THEN 1 ELSE IF rollback = "await" THEN 2 ELSE 3)
    BY <1>0, <2>2 DEF PacedInv, Ended
  <2>4. \A e \in ParentEvents : Append(events, e) \in Seq(ParentEvents) /\ Len(Append(events, e)) = Len(events) + 1
    BY <1>0, Appending
  <2>5. "FailedSafe" \in ParentEvents /\ "FailedUnsafe" \in ParentEvents
    BY DEF ParentEvents
  <2>6. CASE rollback = "abort"
    <3>1. \E e \in {"FailedSafe", "FailedUnsafe"} : events' = Append(events, e) /\ rollback' \in {"none", "await"}
      BY <1>6, <2>6 DEF Rollback
    <3>2. events' \in Seq(ParentEvents) /\ Len(events') <= 2 /\ rollback' \in {"none", "await"}
      BY <2>3, <2>4, <2>5, <2>6, <3>1
    <3> QED BY <1>0, <2>1, <2>2, <3>2 DEF PacedInv, EventTypes, Paced, Ended, Commanded
  <2>7. CASE rollback # "abort"
    <3>1. rollback = "await" /\ rollback' = "none" /\ events' \in {events, Append(events, "FailedSafe")}
      BY <1>6, <2>7 DEF Rollback
    <3>2. events' \in Seq(ParentEvents) /\ Len(events') <= 3
      <4>1. Len(events) <= 2
        BY <2>3, <3>1
      <4>2. CASE events' = events
        BY <1>0, <2>3, <4>1, <4>2
      <4>3. CASE events' = Append(events, "FailedSafe")
        BY <2>3, <2>4, <2>5, <4>1, <4>3
      <4> QED BY <3>1, <4>2, <4>3
    <3> QED BY <1>0, <2>1, <2>2, <3>1, <3>2 DEF PacedInv, EventTypes, Paced, Ended, Commanded
  <2> QED BY <2>6, <2>7
<1> QED BY <1>1, <1>2, <1>3, <1>4, <1>5, <1>6 DEF ParentStep

LEMMA PacedOthers ==
  ASSUME PacedInv, [Next]_vars, ~OldUiTurn, ~ParentStep
  PROVE  PacedInv'
<1> USE DEF ui, parentVars
<1>1. CASE StartRestart
  <2>1. /\ phase' = "Running" /\ events' = <<>> /\ commands' = <<>> /\ decision' = "undecided" /\ parent' = 1
        /\ rollback' = "none"
    BY <1>1 DEF StartRestart
  <2>2. <<>> \in Seq({"Suspended", "Commit"}) /\ <<>> \in Seq(ParentEvents) /\ Len(<<>>) = 0
    OBVIOUS
  <2> QED BY <2>1, <2>2, ScriptLength DEF PacedInv, EventTypes, Paced, Ended, Commanded
<1>2. CASE RequestExit
  <2>1. /\ UNCHANGED <<events, parent, rollback, commands, phase, restart>> /\ old = "up"
        /\ IF restart THEN old' = old /\ decision' = Canceled ELSE old' = "stopping" /\ decision' = decision
    BY <1>2 DEF RequestExit, notOldUi
  <2>2. /\ decision' = "accepted" <=> decision = "accepted"
        /\ decision # "undecided" => decision' # "undecided"
    BY <2>1 DEF Canceled
  <2> QED BY <2>1, <2>2 DEF PacedInv, EventTypes, Paced, Ended, Commanded
<1>3. CASE WindowDestroyed \/ Teardown
  <2>1. UNCHANGED <<events, parent, rollback, commands, phase, decision, restart>> /\ old' # "up"
    BY <1>3 DEF WindowDestroyed, Teardown, notOldUi
  <2> QED BY <2>1 DEF PacedInv, EventTypes, Paced, Ended, Commanded
<1>4. CASE OldExits \/ OldDies
  <2>1. UNCHANGED <<events, commands, phase, decision, restart>> /\ old' # "up" /\ parent' = 0 /\ rollback' = "none"
    BY <1>4 DEF OldExits, OldDies, OldEnds
  <2>2. Len(events) <= 3
    <3>1. Len(events) \in Nat
      BY DEF PacedInv, EventTypes
    <3>2. CASE parent = 0
      BY <3>1, <3>2 DEF PacedInv, Ended
    <3>3. CASE events = <<>>
      BY <3>3
    <3>4. CASE parent # 0 /\ events # <<>>
      <4>1. Len(events) = 1
        BY <3>4 DEF PacedInv, Paced
      <4> QED BY <4>1
    <3> QED BY <3>2, <3>3, <3>4
  <2> QED BY <2>1, <2>2, ScriptLength DEF PacedInv, EventTypes, Paced, Ended, Commanded
<1>5. ASSUME UNCHANGED <<events, parent, rollback, commands, phase, decision, old, restart>> PROVE PacedInv'
  BY <1>5 DEF PacedInv, EventTypes, Paced, Ended, Commanded
<1>6. CASE ChildWorkerStep
  BY <1>5, <1>6 DEF ChildWorkerStep, WorkerCheck, Reply, Write, Command, Current, Post, WorkerFails, notWorker
<1>7. CASE ChildUiTurn \/ ChildUserExits
  BY <1>5, <1>7 DEF ChildUiTurn, ChildUserExits, ChildPrepared, ChildActivate, ChildActive,
     ChildCommit, ChildAccept, ChildAborts, ChildStops, ChildReceived, notChildUi
<1>8. CASE ChildTeardown \/ ChildExits \/ ChildKilled \/ ChildDies
  BY <1>5, <1>8 DEF ChildTeardown, ChildExits, ChildKilled, ChildDies, ChildEnds
<1>9. CASE \E p \in Instances : ApplyInput(p)
  BY <1>5, <1>9 DEF ApplyInput
<1>10. CASE UNCHANGED vars
  BY <1>5, <1>10 DEF vars
<1> QED BY <1>1, <1>2, <1>3, <1>4, <1>6, <1>7, <1>8, <1>9, <1>10 DEF Next

LEMMA PacedStep == PacedInv /\ [Next]_vars => PacedInv'
BY PacedUi, PacedParent, PacedOthers

\* Only its own steps take the worker of the old instance on.
LEMMA ParentMoves ==
  ASSUME PacedInv, [Next]_vars
  PROVE  \/ parent' = parent /\ ~Spawn /\ ~Send
         \/ parent' \in {0, 1} /\ ~Spawn /\ ~Send
         \/ parent \in 1 .. 18 /\ parent' = parent + 1 /\ ParentStep
<1> USE DEF ui, parentVars
<1>0. parent \in 0 .. 19 /\ Len(Script) = 19
  BY ScriptLength DEF PacedInv, EventTypes
<1>1. ASSUME Spawn \/ Send PROVE parent \in {1, 7, 13, 17} /\ parent' = parent + 1
  <2>1. parent \in 1 .. 19 /\ Script[parent].do \in {"Spawn", "Send"} /\ NextStep
    BY <1>0, <1>1 DEF Spawn, Send, ParentAt
  <2>2. parent \in {1, 7, 13, 17}
    BY <2>1, ScriptSteps
  <2> QED BY <1>0, <2>1, <2>2 DEF NextStep
<1>2. CASE ParentStep
  <2>1. parent' = parent \/ parent' = 0 \/ (parent # 0 /\ NextStep)
    BY <1>2 DEF ParentStep, Spawn, Check, Receive, WaitUi, CheckCurrent, Notify, Send, Decide,
       ParentFails, Rollback, ParentAt
  <2> QED BY <1>0, <1>1, <1>2, <2>1 DEF NextStep
<1>3. CASE ~ParentStep
  <2> SUFFICES parent' = parent \/ parent' \in {0, 1}
    BY <1>3 DEF ParentStep
  <2>1. CASE StartRestart
    BY <2>1 DEF StartRestart
  <2>2. CASE OldUiTurn \/ RequestExit \/ WindowDestroyed \/ Teardown
    BY <2>2 DEF OldUiTurn, OnSuspend, OnReady, OnDone, OnComplete, OnFailed, OnEventWhileExiting,
       Suspended, Restore, RequestExit, WindowDestroyed, Teardown, notOldUi
  <2>3. CASE OldExits \/ OldDies
    BY <2>3 DEF OldExits, OldDies, OldEnds
  <2>4. CASE ChildWorkerStep
    BY <2>4 DEF ChildWorkerStep, WorkerCheck, Reply, Write, Command, Current, Post, WorkerFails, notWorker
  <2>5. CASE ChildUiTurn \/ ChildUserExits
    BY <2>5 DEF ChildUiTurn, ChildUserExits, ChildPrepared, ChildActivate, ChildActive,
       ChildCommit, ChildAccept, ChildAborts, ChildStops, ChildReceived, notChildUi
  <2>6. CASE ChildTeardown \/ ChildExits \/ ChildKilled \/ ChildDies \/ (\E p \in Instances : ApplyInput(p))
             \/ UNCHANGED vars
    BY <2>6 DEF ChildTeardown, ChildExits, ChildKilled, ChildDies, ChildEnds, ApplyInput, vars
  <2> QED BY <1>3, <2>1, <2>2, <2>3, <2>4, <2>5, <2>6 DEF Next
<1> QED BY <1>2, <1>3

\* A message goes down where the script says so, and nowhere else.
LEMMA DownMoves ==
  ASSUME PacedInv, [Next]_vars, ~Spawn, ~Send
  PROVE  \/ down' = down
         \/ parent' = parent /\ down # <<>> /\ down' = Tail(down)
         \/ parent' = 0 /\ down' = <<>>
<1> USE DEF ui, parentVars, pipes
<1>1. CASE ParentStep
  BY <1>1 DEF ParentStep, Check, Receive, WaitUi, CheckCurrent, Notify, Decide, ParentFails, Rollback, notParent
<1>2. CASE StartRestart \/ OldUiTurn \/ RequestExit \/ WindowDestroyed \/ Teardown
  BY <1>2 DEF StartRestart, OldUiTurn, OnSuspend, OnReady, OnDone, OnComplete, OnFailed, OnEventWhileExiting,
     Suspended, Restore, RequestExit, WindowDestroyed, Teardown, notOldUi
<1>3. CASE OldExits \/ OldDies
  BY <1>3 DEF OldExits, OldDies, OldEnds
<1>4. CASE ChildWorkerStep
  BY <1>4 DEF ChildWorkerStep, WorkerCheck, Reply, Write, Command, Current, Post, WorkerFails, notWorker
<1>5. CASE ChildUiTurn \/ ChildUserExits
  BY <1>5 DEF ChildUiTurn, ChildUserExits, ChildPrepared, ChildActivate, ChildActive,
     ChildCommit, ChildAccept, ChildAborts, ChildStops, ChildReceived, notChildUi
<1>6. CASE ChildTeardown \/ ChildExits \/ ChildKilled \/ ChildDies \/ (\E p \in Instances : ApplyInput(p))
           \/ UNCHANGED vars
  BY <1>6 DEF ChildTeardown, ChildExits, ChildKilled, ChildDies, ChildEnds, ApplyInput, vars
<1> QED BY <1>1, <1>2, <1>3, <1>4, <1>5, <1>6 DEF Next

LEMMA SentStep == PacedInv /\ Sent /\ [Next]_vars => Sent'
<1> SUFFICES ASSUME PacedInv, Sent, [Next]_vars PROVE Sent'
  OBVIOUS
<1> DEFINE Messages == {"Activate", "Commit", "Accepted"}
<1>0. down \in Seq(Messages) /\ Len(down) \in Nat /\ Len(down) <= 3 /\ parent \in 0 .. 19
  BY ScriptLength DEF Sent, PacedInv, EventTypes
<1>1. <<>> \in Seq(Messages) /\ Len(<<>>) = 0
  OBVIOUS
<1>2. CASE Send
  <2>1. parent \in 1 .. 19 /\ Script[parent].do = "Send" /\ NextStep /\ down' = Append(down, Script[parent].what)
    BY <1>0, <1>2 DEF Send, ParentAt, What
  <2>2. parent \in {7, 13, 17}
    BY <2>1, ScriptSteps
  <2>3. parent' = parent + 1
    BY <2>1, <2>2, ScriptLength DEF NextStep
  <2>4. Script[parent].what \in Messages
    BY <2>2, ScriptMessages
  <2>5. down' \in Seq(Messages) /\ Len(down') = Len(down) + 1
    BY <1>0, <2>1, <2>4, Appending
  <2> QED BY <1>0, <2>2, <2>3, <2>5 DEF Sent
<1>3. CASE Spawn
  <2>1. parent \in 1 .. 19 /\ Script[parent].do = "Spawn" /\ NextStep /\ down' = <<>>
    BY <1>0, <1>3 DEF Spawn, ParentAt
  <2>2. parent = 1
    BY <2>1, ScriptSteps
  <2>3. parent' = 2
    BY <2>1, <2>2, ScriptLength DEF NextStep
  <2> QED BY <1>1, <2>1, <2>3 DEF Sent
<1>4. CASE ~Spawn /\ ~Send
  <2>1. down # <<>> => Tail(down) \in Seq(Messages) /\ Len(Tail(down)) = Len(down) - 1
    BY <1>0, DroppingFirst
  <2>2. \/ parent' = parent \/ parent' \in {0, 1}
        \/ parent \in (1 .. 18) \ {1, 7, 13, 17} /\ parent' = parent + 1
    <3>1. ASSUME parent \in {1, 7, 13, 17}, parent' = parent + 1, ParentStep PROVE FALSE
      <4>1. Script[parent].do \in {"Spawn", "Send"}
        BY <3>1, ScriptSends
      <4>2. ~Receive /\ ~WaitUi /\ ~CheckCurrent /\ ~Notify /\ ~Decide
        BY <4>1 DEF Receive, WaitUi, CheckCurrent, Notify, Decide, ParentAt
      <4>3. CASE Check
        BY <3>1, <4>3 DEF Check
      <4>4. CASE ParentFails
        BY <3>1, <4>4 DEF ParentFails
      <4>5. CASE Rollback
        BY <3>1, <4>5 DEF Rollback
      <4> QED BY <1>4, <3>1, <4>2, <4>3, <4>4, <4>5 DEF ParentStep
    <3> QED BY <3>1, ParentMoves
  <2>3. \/ down' = down
        \/ parent' = parent /\ down # <<>> /\ down' = Tail(down)
        \/ parent' = 0 /\ down' = <<>>
    BY <1>4, DownMoves
  <2>4. CASE down' = down
    <3>1. CASE parent' = parent
      BY <2>4, <3>1 DEF Sent
    <3>2. CASE parent' \in {0, 1}
      BY <1>0, <2>4, <3>2 DEF Sent
    <3>3. CASE parent \in (1 .. 18) \ {1, 7, 13, 17} /\ parent' = parent + 1
      BY <1>0, <2>4, <3>3 DEF Sent
    <3> QED BY <2>2, <3>1, <3>2, <3>3
  <2>5. CASE parent' = parent /\ down # <<>> /\ down' = Tail(down)
    BY <1>0, <2>1, <2>5 DEF Sent
  <2>6. CASE parent' = 0 /\ down' = <<>>
    BY <1>1, <2>6 DEF Sent
  <2> QED BY <2>3, <2>4, <2>5, <2>6
<1> QED BY <1>2, <1>3, <1>4

\* The control worker of the child and what it posts, whatever else happens.
LEMMA WorkerMoves ==
  ASSUME [Next]_vars, ~Spawn, ~(ChildWorkerStep /\ Post)
  PROVE  \/ UNCHANGED <<worker, childEvents>>
         \/ worker' = 0 /\ childEvents' = childEvents
         \/ worker' = worker /\ childEvents # <<>> /\ childEvents' = Tail(childEvents)
         \/ worker \in (1 .. 18) \ {5, 11, 16} /\ worker' = worker + 1 /\ childEvents' = childEvents
<1> USE DEF childUi, childWorker
<1>1. CASE ParentStep
  BY <1>1 DEF ParentStep, Check, Receive, WaitUi, CheckCurrent, Notify, Send, Decide, ParentFails, Rollback, notParent
<1>2. CASE StartRestart \/ OldUiTurn \/ RequestExit \/ WindowDestroyed \/ Teardown
  BY <1>2 DEF StartRestart, OldUiTurn, OnSuspend, OnReady, OnDone, OnComplete, OnFailed, OnEventWhileExiting,
     Suspended, Restore, RequestExit, WindowDestroyed, Teardown, notOldUi
<1>3. CASE OldExits \/ OldDies
  BY <1>3 DEF OldExits, OldDies, OldEnds
<1>4. CASE ChildWorkerStep
  <2>1. CASE WorkerCheck \/ WorkerFails
    BY <2>1 DEF WorkerCheck, WorkerFails
  <2>2. CASE Reply \/ Write \/ Command \/ Current
    <3>1. /\ worker \in 1 .. 18 /\ ChildScript[worker].do # "Post"
          /\ worker' = worker + 1 /\ childEvents' = childEvents
      BY <2>2, ChildScriptEnd DEF Reply, Write, Command, Current, WorkerAt, NextWorkerStep, Kept
    <3>2. worker \notin {5, 11, 16}
      BY <3>1, ChildScriptPosts
    <3> QED BY <3>1, <3>2
  <2> QED BY <1>4, <2>1, <2>2 DEF ChildWorkerStep
<1>5. CASE ChildUiTurn \/ ChildUserExits
  BY <1>5 DEF ChildUiTurn, ChildUserExits, ChildPrepared, ChildActivate, ChildActive,
     ChildCommit, ChildAccept, ChildAborts, ChildStops, ChildReceived, notChildUi
<1>6. CASE ChildTeardown \/ ChildExits \/ ChildKilled \/ ChildDies \/ (\E p \in Instances : ApplyInput(p))
           \/ UNCHANGED vars
  BY <1>6 DEF ChildTeardown, ChildExits, ChildKilled, ChildDies, ChildEnds, ApplyInput, vars
<1> QED BY <1>1, <1>2, <1>3, <1>4, <1>5, <1>6 DEF Next

LEMMA PostedStep == Posted /\ [Next]_vars => Posted'
<1> SUFFICES ASSUME Posted, [Next]_vars PROVE Posted'
  OBVIOUS
<1> DEFINE Messages == {"Activate", "Commit", "Accept"}
<1>0. /\ childEvents \in Seq(Messages) /\ Len(childEvents) \in Nat /\ Len(childEvents) <= 3
      /\ Kept = 19 /\ worker \in 0 .. 19
  BY ChildScriptEnd DEF Posted
<1>1. CASE Spawn
  <2>1. worker' = 1 /\ childEvents' = <<>>
    BY <1>1 DEF Spawn
  <2>2. <<>> \in Seq(Messages) /\ Len(<<>>) = 0
    OBVIOUS
  <2> QED BY <1>0, <2>1, <2>2 DEF Posted
<1>2. CASE ChildWorkerStep /\ Post
  <2>1. /\ worker \in 1 .. 18 /\ ChildScript[worker].do = "Post" /\ worker' = worker + 1
        /\ childEvents' = Append(childEvents, ChildScript[worker].what)
    BY <1>0, <1>2 DEF Post, WorkerAt, Signal, NextWorkerStep, Kept
  <2>2. worker \in {5, 11, 16} /\ ChildScript[worker].what \in Messages
    BY <2>1, ChildScriptSteps
  <2>3. childEvents' \in Seq(Messages) /\ Len(childEvents') = Len(childEvents) + 1
    BY <1>0, <2>1, <2>2, Appending
  <2> QED BY SMTT(30), <1>0, <2>1, <2>2, <2>3 DEF Posted
<1>3. CASE ~Spawn /\ ~(ChildWorkerStep /\ Post)
  <2>1. \/ UNCHANGED <<worker, childEvents>>
        \/ worker' = 0 /\ childEvents' = childEvents
        \/ worker' = worker /\ childEvents # <<>> /\ childEvents' = Tail(childEvents)
        \/ worker \in (1 .. 18) \ {5, 11, 16} /\ worker' = worker + 1 /\ childEvents' = childEvents
    BY <1>3, WorkerMoves
  <2>2. CASE UNCHANGED <<worker, childEvents>>
    BY <2>2 DEF Posted
  <2>3. CASE worker' = 0 /\ childEvents' = childEvents
    BY <1>0, <2>3 DEF Posted
  <2>4. CASE worker' = worker /\ childEvents # <<>> /\ childEvents' = Tail(childEvents)
    <3>1. Tail(childEvents) \in Seq(Messages) /\ Len(Tail(childEvents)) = Len(childEvents) - 1
      BY <1>0, <2>4, DroppingFirst
    <3> QED BY <1>0, <2>4, <3>1 DEF Posted
  <2>5. CASE worker \in (1 .. 18) \ {5, 11, 16} /\ worker' = worker + 1 /\ childEvents' = childEvents
    BY <1>0, <2>5 DEF Posted
  <2> QED BY <2>1, <2>2, <2>3, <2>4, <2>5
<1> QED BY <1>1, <1>2, <1>3

\* The child answers once in each of its phases.
LEMMA AnsweredStep == Answered /\ [Next]_vars => Answered'
<1> SUFFICES ASSUME Answered, [Next]_vars PROVE Answered'
  OBVIOUS
<1> USE DEF childUi, childWorker
<1> DEFINE Replies == {"Prepared", "Active", "Committed", "AcceptedAck"}
<1>0. replies \in Seq(Replies) /\ Len(replies) \in Nat
  BY DEF Answered
<1>1. \A r \in Replies : Append(replies, r) \in Seq(Replies) /\ Len(Append(replies, r)) = Len(replies) + 1
  BY <1>0, Appending
<1>2. CASE UNCHANGED <<childPhase, replies>>
  BY <1>2 DEF Answered
<1>3. CASE Spawn
  <2>1. childPhase' = "Preparing" /\ replies' = <<>>
    BY <1>3 DEF Spawn
  <2>2. <<>> \in Seq(Replies) /\ Len(<<>>) = 0
    OBVIOUS
  <2> QED BY <2>1, <2>2 DEF Answered
<1>4. CASE ChildWorkerStep /\ Reply
  <2>1. childPhase' = childPhase /\ replies # <<>> /\ replies' = Tail(replies)
    BY <1>4 DEF Reply, notWorker
  <2>2. replies' \in Seq(Replies) /\ Len(replies') = Len(replies) - 1
    BY <1>0, <2>1, DroppingFirst
  <2> QED BY <1>0, <2>1, <2>2 DEF Answered
<1>5. CASE ChildPrepared \/ ChildActive \/ ChildCommit \/ ChildAccept
  <2>1. \/ childPhase = "Preparing" /\ childPhase' = "Prepared" /\ replies' = Append(replies, "Prepared")
        \/ childPhase = "Activating" /\ childPhase' = "Active" /\ replies' = Append(replies, "Active")
        \/ childPhase = "Active" /\ childPhase' = "Committed" /\ replies' = Append(replies, "Committed")
        \/ childPhase = "Committed" /\ childPhase' = "Running" /\ replies' = Append(replies, "AcceptedAck")
    BY <1>5 DEF ChildPrepared, ChildActive, ChildCommit, ChildAccept
  <2>2. replies' \in Seq(Replies) /\ Len(replies') = Len(replies) + 1
    BY <1>1, <2>1
  <2> QED BY <1>0, <2>1, <2>2 DEF Answered
<1>6. CASE ChildActivate
  <2>1. /\ replies' = replies
        /\ childPhase' = childPhase \/ (childPhase = "Prepared" /\ childPhase' = "Activating")
    BY <1>6 DEF ChildActivate
  <2> QED BY <2>1 DEF Answered
<1>7. CASE ChildAborts \/ ChildUserExits
  BY <1>2, <1>7 DEF ChildAborts, ChildUserExits, ChildStops
<1>8. CASE ParentStep
  BY <1>2, <1>3, <1>8 DEF ParentStep, Check, Receive, WaitUi, CheckCurrent, Notify, Send, Decide, ParentFails,
     Rollback, notParent
<1>9. CASE StartRestart \/ OldUiTurn \/ RequestExit \/ WindowDestroyed \/ Teardown
  BY <1>2, <1>9 DEF StartRestart, OldUiTurn, OnSuspend, OnReady, OnDone, OnComplete, OnFailed,
     OnEventWhileExiting, Suspended, Restore, RequestExit, WindowDestroyed, Teardown, notOldUi
<1>10. CASE OldExits \/ OldDies
  BY <1>2, <1>10 DEF OldExits, OldDies, OldEnds
<1>11. CASE ChildWorkerStep /\ ~Reply
  BY <1>2, <1>11 DEF ChildWorkerStep, WorkerCheck, Write, Command, Current, Post, WorkerFails, notWorker
<1>12. CASE ChildTeardown \/ ChildExits \/ ChildKilled \/ ChildDies \/ (\E p \in Instances : ApplyInput(p))
            \/ UNCHANGED vars
  BY <1>2, <1>12 DEF ChildTeardown, ChildExits, ChildKilled, ChildDies, ChildEnds, ApplyInput, vars
<1> QED BY <1>3, <1>4, <1>5, <1>6, <1>7, <1>8, <1>9, <1>10, <1>11, <1>12 DEF Next, ChildUiTurn

Signals == {"Prepared", "Active", "Committed", "AcceptedAck"}

\* What the old instance's restart worker does keeps the keeper's promise.
LEMMA KeeperParent == PacedInv /\ Keeper /\ ParentStep => Keeper'
<1> SUFFICES ASSUME PacedInv, Keeper, ParentStep PROVE Keeper'
  OBVIOUS
<1> USE DEF pipes, childWorker, notParent
<1>0. /\ parent \in 0 .. 19 /\ events \in Seq(ParentEvents) /\ Len(Script) = 19
      /\ up \in Seq(Signals) /\ old' = old /\ exiting' = exiting
  BY ScriptLength DEF PacedInv, EventTypes, Keeper, Signals, ParentStep, Spawn, Check, Receive, WaitUi,
     CheckCurrent, Notify, Send, Decide, ParentFails, Rollback, ui
<1>1. CASE Spawn
  <2>1. /\ parent \in 1 .. 19 /\ Script[parent].do = "Spawn" /\ NextStep /\ up' = <<>> /\ UNCHANGED events
    BY <1>0, <1>1 DEF Spawn, ParentAt, ui
  <2>2. parent = 1
    BY <2>1, ScriptSteps
  <2>3. parent' = 2 /\ events = <<>>
    BY <1>0, <2>1, <2>2 DEF NextStep, PacedInv, Paced, Asked
  <2>4. <<>> \in Seq(Signals) /\ Len(<<>>) = 0
    OBVIOUS
  <2>5. ~(old = "stopping" /\ ~exiting)
    BY <2>2 DEF Keeper
  <2> QED BY <1>0, <2>1, <2>3, <2>4, <2>5 DEF Keeper, Signals
<1>2. CASE Receive
  <2>1. /\ parent \in 1 .. 19 /\ Script[parent].do = "Wait" /\ NextStep /\ UNCHANGED <<events, worker>>
        /\ up # <<>> /\ Head(up) = Script[parent].what /\ up' = Tail(up)
    BY <1>0, <1>2 DEF Receive, ParentAt, What
  <2>2. parent \in {2, 8, 14, 18} /\ parent' = parent + 1
    <3>1. parent \in {2, 8, 14, 18}
      BY <2>1, ScriptSteps
    <3> QED BY <1>0, <2>1, <3>1 DEF NextStep
  <2>3. /\ Len(up) \in Nat \ {0} /\ Tail(up) \in Seq(Signals) /\ Len(Tail(up)) = Len(up) - 1 /\ Head(up) = up[1]
        /\ \A i \in 1 .. (Len(up) - 1) : Tail(up)[i] = up[i + 1]
    BY <1>0, <2>1, DroppingFirst
  <2>4. \A i \in 1 .. Len(up) : up[i] = "AcceptedAck" => worker = Kept
    BY <2>2 DEF Keeper
  <2>5. parent' = 19 => worker = Kept
    <3>1. ASSUME parent' = 19 PROVE parent = 18
      BY <2>2, <3>1
    <3>2. parent = 18 => up[1] = "AcceptedAck"
      BY <2>1, <2>3, ScriptMessages
    <3> QED BY <2>3, <2>4, <3>1, <3>2
  <2>6. \A i \in 1 .. Len(up') : up'[i] = "AcceptedAck" => worker = Kept
    <3>1. ASSUME NEW i \in 1 .. Len(up'), up'[i] = "AcceptedAck" PROVE worker = Kept
      <4>1. i + 1 \in 1 .. Len(up) /\ up[i + 1] = "AcceptedAck"
        BY <2>1, <2>3, <3>1
      <4> QED BY <2>4, <4>1
    <3> QED BY <3>1
  <2>7. ~(old = "stopping" /\ ~exiting)
    BY <2>2 DEF Keeper
  <2>8. up' \in Seq(Signals)
    BY <2>1, <2>3
  <2> QED BY <1>0, <2>1, <2>5, <2>6, <2>7, <2>8 DEF Keeper, Signals
<1>3. CASE Notify
  <2>1. /\ parent \in 1 .. 19 /\ Script[parent].do = "Event" /\ NextStep /\ UNCHANGED <<up, worker>>
        /\ events' = Append(events, Script[parent].what)
    BY <1>0, <1>3 DEF Notify, ParentAt, What
  <2>2. parent \in {4, 10, 15, 19}
    BY <2>1, ScriptSteps
  <2>3. parent' = IF parent = 19 THEN 0 ELSE parent + 1
    BY <1>0, <2>1 DEF NextStep
  <2>4. events = <<>>
    BY <2>2 DEF PacedInv, Paced, Asked
  <2>5. Script[parent].what \in ParentEvents /\ (parent # 19 => Script[parent].what # "Complete")
    BY <2>2, ScriptMessages DEF ParentEvents
  <2>6. Len(events') = 1 /\ events'[1] = Script[parent].what
    <3>1. Len(events) = 0
      BY <2>4
    <3> QED BY <1>0, <2>1, <2>5, <3>1, Appending
  <2>7. parent = 19 => worker = Kept
    BY DEF Keeper
  <2>8. ~(old = "stopping" /\ ~exiting)
    BY <2>2 DEF Keeper
  <2>9. parent' # 19 /\ (parent' >= 2 => parent >= 2)
    BY <2>2, <2>3
  <2>10. \A i \in 1 .. Len(events') : events'[i] = "Complete" => worker = Kept
    BY <2>5, <2>6, <2>7
  <2> QED BY <1>0, <2>1, <2>8, <2>9, <2>10 DEF Keeper
<1>4. CASE WaitUi \/ CheckCurrent \/ Send \/ Decide
  <2>1. /\ parent \in 1 .. 19 /\ Script[parent].do \in {"WaitUi", "CheckCurrent", "Send", "Decide"} /\ NextStep
        /\ UNCHANGED <<up, worker, events>>
    BY <1>0, <1>4 DEF WaitUi, CheckCurrent, Send, Decide, ParentAt
  <2>2. parent \in {5, 11} \cup {3, 6, 9, 12} \cup {7, 13, 17, 16}
    BY <2>1, ScriptSteps
  <2>3. parent' # 19 /\ parent >= 2 /\ parent # 0
    BY <1>0, <2>1, <2>2 DEF NextStep
  <2> QED BY <1>0, <2>1, <2>3 DEF Keeper
<1>5. CASE Check
  BY <1>0, <1>5 DEF Check, Keeper
<1>6. CASE ParentFails
  <2>1. parent' = 0 /\ UNCHANGED <<up, worker, events>>
    BY <1>6 DEF ParentFails
  <2> QED BY <1>0, <2>1 DEF Keeper
<1>7. CASE Rollback
  <2>1. /\ UNCHANGED <<parent, up, worker>>
        /\ \E e \in {"FailedSafe", "FailedUnsafe"} : events' \in {events, Append(events, e)}
    BY <1>7 DEF Rollback
  <2>2. PICK e \in {"FailedSafe", "FailedUnsafe"} : events' \in {events, Append(events, e)}
    BY <2>1
  <2>3. e \in ParentEvents
    BY DEF ParentEvents
  <2>4. /\ Len(Append(events, e)) = Len(events) + 1 /\ Len(events) \in Nat
        /\ \A i \in 1 .. Len(events) : Append(events, e)[i] = events[i]
        /\ Append(events, e)[Len(events) + 1] = e
    BY <1>0, <2>3, Appending
  <2>5. \A i \in 1 .. Len(events) : events[i] = "Complete" => worker = Kept
    BY DEF Keeper
  <2>6. \A i \in 1 .. Len(events') : events'[i] = "Complete" => worker = Kept
    <3>1. CASE events' = events
      BY <2>5, <3>1
    <3>2. CASE events' = Append(events, e)
      <4>1. ASSUME NEW i \in 1 .. Len(events'), events'[i] = "Complete" PROVE i \in 1 .. Len(events)
        BY <2>4, <3>2, <4>1
      <4> QED BY <2>4, <2>5, <3>2, <4>1
    <3> QED BY <2>2, <3>1, <3>2
  <2> QED BY <1>0, <2>1, <2>6 DEF Keeper
<1> QED BY <1>1, <1>2, <1>3, <1>4, <1>5, <1>6, <1>7 DEF ParentStep

\* And so does everything else: only the step that makes it true writes the acknowledgement.
LEMMA KeeperOthers ==
  ASSUME PacedInv, Keeper, Posted, [Next]_vars, ~ParentStep
  PROVE  Keeper'
<1> USE DEF pipes, childWorker, ui, parentVars
<1>0. /\ parent \in 0 .. 19 /\ events \in Seq(ParentEvents) /\ up \in Seq(Signals)
      /\ worker \in 0 .. 19 /\ Kept = 19
  BY ScriptLength, ChildScriptEnd DEF PacedInv, EventTypes, Keeper, Signals, Posted
<1>1. CASE StartRestart
  <2>1. /\ up' = up /\ parent' = 1 /\ events' = <<>> /\ old = "up" /\ old' = old
    BY <1>1 DEF StartRestart
  <2> QED BY <1>0, <2>1 DEF Keeper, Signals
<1>2. CASE OldUiTurn
  <2>1. UNCHANGED <<up, parent, worker, exiting>>
    <3>1. CASE OnSuspend \/ OnReady \/ OnDone \/ OnComplete
      BY <3>1 DEF OnSuspend, OnReady, OnDone, OnComplete, notOldUi
    <3>2. CASE OnFailed \/ OnEventWhileExiting
      BY <3>2 DEF OnFailed, OnEventWhileExiting, notOldUi
    <3>3. CASE Suspended \/ Restore
      BY <3>3 DEF Suspended, Restore, notOldUi
    <3> QED BY <1>2, <3>1, <3>2, <3>3 DEF OldUiTurn
  <2>2. events' = events \/ (events # <<>> /\ events' = Tail(events))
    <3>1. CASE OnSuspend \/ OnReady \/ OnDone \/ OnComplete
      BY <3>1 DEF OnSuspend, OnReady, OnDone, OnComplete, Received
    <3>2. CASE OnFailed \/ OnEventWhileExiting
      BY <3>2 DEF OnFailed, OnEventWhileExiting, Received
    <3>3. CASE Suspended \/ Restore
      BY <3>3 DEF Suspended, Restore
    <3> QED BY <1>2, <3>1, <3>2, <3>3 DEF OldUiTurn
  <2>3. \A i \in 1 .. Len(events) : events[i] = "Complete" => worker = Kept
    BY DEF Keeper
  <2>4. \A i \in 1 .. Len(events') : events'[i] = "Complete" => worker = Kept
    <3>1. CASE events' = events
      BY <2>3, <3>1
    <3>2. CASE events # <<>> /\ events' = Tail(events)
      <4>1. /\ Len(events) \in Nat \ {0} /\ Len(events') = Len(events) - 1
            /\ \A i \in 1 .. (Len(events) - 1) : events'[i] = events[i + 1]
        BY <1>0, <3>2, DroppingFirst
      <4>2. \A i \in 1 .. Len(events') : i + 1 \in 1 .. Len(events) /\ events'[i] = events[i + 1]
        BY <4>1
      <4> QED BY <2>3, <4>2
    <3> QED BY <2>2, <3>1, <3>2
  <2>5. ASSUME old' = "stopping", ~exiting PROVE worker = Kept /\ parent = 0
    <3>1. CASE OnComplete
      <4>1. Received("Complete")
        BY <3>1 DEF OnComplete
      <4>2. parent = 0
        BY <4>1, Taken, ScriptMessages DEF Asked
      <4>3. events # <<>> /\ Head(events) = "Complete"
        BY <4>1 DEF Received
      <4>4. 1 \in 1 .. Len(events) /\ events[1] = "Complete"
        BY <1>0, <4>3, DroppingFirst
      <4> QED BY <2>3, <4>2, <4>4
    <3>2. CASE ~OnComplete
      <4>1. old = "stopping"
        BY <1>2, <2>5, <3>2 DEF OldUiTurn, OnSuspend, OnReady, OnDone, OnFailed, OnEventWhileExiting,
           Suspended, Restore, Received
      <4> QED BY <2>5, <4>1 DEF Keeper
    <3> QED BY <3>1, <3>2
  <2> QED BY <1>0, <2>1, <2>4, <2>5 DEF Keeper
<1>3. CASE RequestExit
  <2>1. exiting' /\ UNCHANGED <<up, parent, worker, events>>
    BY <1>3 DEF RequestExit, notOldUi
  <2> QED BY <1>0, <2>1 DEF Keeper
<1>4. CASE WindowDestroyed \/ Teardown
  <2>1. old' # "stopping" /\ UNCHANGED <<up, parent, worker, events>>
    BY <1>4 DEF WindowDestroyed, Teardown, notOldUi
  <2> QED BY <1>0, <2>1 DEF Keeper
<1>5. CASE OldExits \/ OldDies
  <2>1. old' # "stopping" /\ parent' = 0 /\ UNCHANGED <<up, worker, events>>
    BY <1>5 DEF OldExits, OldDies, OldEnds
  <2> QED BY <1>0, <2>1 DEF Keeper
<1>6. CASE ChildWorkerStep
  <2>1. /\ UNCHANGED <<old, exiting, parent, events>>
        /\ Write \/ up' = up
    BY <1>6 DEF ChildWorkerStep, WorkerCheck, Reply, Command, Current, Post, WorkerFails, Write, notWorker
  <2>2. worker # Kept
    <3>1. worker \in 1 .. 18
      <4>1. \A do : WorkerAt(do) => worker \in 1 .. 18
        BY ChildScriptEnd DEF WorkerAt
      <4>2. CASE WorkerCheck \/ Reply \/ Command \/ Current \/ Post \/ Write
        BY <4>1, <4>2 DEF WorkerCheck, Reply, Command, Current, Post, Write
      <4>3. CASE WorkerFails
        BY <4>1, <4>3 DEF WorkerFails
      <4> QED BY <1>6, <4>2, <4>3 DEF ChildWorkerStep
    <3> QED BY <1>0, <3>1
  <2>3. /\ parent >= 2 => \A i \in 1 .. Len(up) : up[i] # "AcceptedAck"
        /\ parent # 19 /\ \A i \in 1 .. Len(events) : events[i] # "Complete"
        /\ ~(old = "stopping" /\ ~exiting)
    BY <2>2 DEF Keeper
  <2>4. CASE up' = up
    BY <1>0, <2>1, <2>3, <2>4 DEF Keeper, Signals
  <2>5. CASE Write
    <3>1. /\ worker \in 1 .. 18 /\ ChildScript[worker].do = "Write" /\ worker' = worker + 1
          /\ up' = Append(up, ChildScript[worker].what)
      BY <1>0, <2>5 DEF Write, WorkerAt, Signal, NextWorkerStep, Kept
    <3>2. ChildScript[worker].what \in Signals /\ (worker # 18 => ChildScript[worker].what # "AcceptedAck")
      BY <3>1, ChildScriptSteps, ChildScriptEnd DEF Signals
    <3>3. /\ up' \in Seq(Signals) /\ Len(up') = Len(up) + 1 /\ Len(up) \in Nat
          /\ \A i \in 1 .. Len(up) : up'[i] = up[i]
          /\ up'[Len(up) + 1] = ChildScript[worker].what
      BY <1>0, <3>1, <3>2, Appending
    <3>4. ASSUME parent >= 2, NEW i \in 1 .. Len(up'), up'[i] = "AcceptedAck" PROVE worker' = Kept
      <4>1. CASE i = Len(up) + 1
        <5>1. worker = 18
          BY <3>2, <3>3, <3>4, <4>1
        <5> QED BY <1>0, <3>1, <5>1
      <4>2. CASE i # Len(up) + 1
        <5>1. i \in 1 .. Len(up)
          BY <3>3, <4>2
        <5> QED BY <2>3, <3>3, <3>4, <5>1
      <4> QED BY <4>1, <4>2
    <3> QED BY <1>0, <2>1, <2>3, <3>3, <3>4 DEF Keeper, Signals
  <2> QED BY <2>1, <2>4, <2>5
<1>7. ASSUME UNCHANGED <<old, exiting, parent, events, up>>, worker = Kept => worker' = Kept PROVE Keeper'
  BY <1>0, <1>7 DEF Keeper, Signals

<1>9. CASE ChildUiTurn \/ ChildUserExits
  <2>1. UNCHANGED <<old, exiting, parent, events, up, worker>>
    BY <1>9 DEF ChildUiTurn, ChildUserExits, ChildPrepared, ChildActivate, ChildActive,
       ChildCommit, ChildAccept, ChildAborts, ChildStops, ChildReceived, notChildUi
  <2> QED BY <1>7, <2>1
<1>10. CASE ChildTeardown \/ ChildExits \/ ChildKilled \/ ChildDies \/ (\E p \in Instances : ApplyInput(p))
            \/ UNCHANGED vars
  <2>1. UNCHANGED <<old, exiting, parent, events, up>> /\ (worker = Kept => worker' = Kept)
    BY <1>10 DEF ChildTeardown, ChildExits, ChildKilled, ChildDies, ChildEnds, ApplyInput, vars
  <2> QED BY <1>7, <2>1
<1> QED BY <1>1, <1>2, <1>3, <1>4, <1>5, <1>6, <1>9, <1>10 DEF Next

LEMMA ScriptInitially == Init => ScriptInv
<1> SUFFICES ASSUME Init PROVE ScriptInv
  OBVIOUS
<1>1. /\ old = "up" /\ phase = "Running" /\ events = <<>> /\ commands = <<>> /\ parent = 0
      /\ ~restart /\ childPhase = "Preparing" /\ childEvents = <<>> /\ replies = <<>> /\ worker = 0
      /\ down = <<>> /\ up = <<>> /\ rollback = "none"
  BY DEF Init
<1>2. \A S : <<>> \in Seq(S)
  OBVIOUS
<1>3. Len(<<>>) = 0
  OBVIOUS
<1>4. EventTypes /\ Paced /\ Ended /\ Commanded
  BY <1>1, <1>2, <1>3, ScriptLength DEF EventTypes, Paced, Ended, Commanded
<1>5. Sent /\ Posted /\ Answered /\ Keeper
  BY <1>1, <1>2, <1>3, ChildScriptEnd DEF Sent, Posted, Answered, Keeper
<1> QED BY <1>4, <1>5 DEF ScriptInv

LEMMA ScriptStep == ScriptInv /\ [Next]_vars => ScriptInv'
<1> SUFFICES ASSUME ScriptInv, [Next]_vars PROVE ScriptInv'
  OBVIOUS
<1>1. PacedInv /\ Sent /\ Posted /\ Answered /\ Keeper
  BY DEF ScriptInv, PacedInv
<1>2. PacedInv' /\ Sent' /\ Posted' /\ Answered'
  BY <1>1, PacedStep, SentStep, PostedStep, AnsweredStep
<1>3. Keeper'
  BY <1>1, KeeperParent, KeeperOthers
<1> QED BY <1>2, <1>3 DEF ScriptInv, PacedInv

LEMMA ScriptKeeps == ScriptInv => GoesByScript
<1> SUFFICES ASSUME ScriptInv PROVE GoesByScript
  OBVIOUS
<1>1. /\ Len(events) \in Nat /\ Len(commands) \in Nat /\ Len(childEvents) \in Nat /\ Len(replies) \in Nat
      /\ Len(down) \in Nat
  BY DEF ScriptInv, EventTypes, Commanded, Sent, Posted, Answered
<1>2. Len(events) <= 3
  <2>1. CASE parent = 0
    BY <1>1, <2>1 DEF ScriptInv, Ended
  <2>2. CASE events = <<>>
    BY <2>2
  <2>3. CASE parent # 0 /\ events # <<>>
    <3>1. Len(events) = 1
      BY <2>3 DEF ScriptInv, Paced
    <3> QED BY <3>1
  <2> QED BY <2>1, <2>2, <2>3
<1>3. Len(commands) <= 2 /\ Len(childEvents) <= 4 /\ Len(replies) <= 4 /\ Len(down) <= 8
  <2>1. Len(commands) <= 2
    BY <1>1 DEF ScriptInv, Commanded
  <2>2. Len(childEvents) <= 4
    BY <1>1 DEF ScriptInv, Posted
  <2>3. Len(replies) <= 4
    BY <1>1 DEF ScriptInv, Answered
  <2>4. Len(down) <= 8
    BY <1>1 DEF ScriptInv, Sent
  <2> QED BY <2>1, <2>2, <2>3, <2>4
<1>4. LeavesToKeeper
  BY DEF ScriptInv, Keeper, LeavesToKeeper
<1> QED BY <1>1, <1>2, <1>3, <1>4 DEF GoesByScript, ChannelsFit

\* The handoff goes by its script, however the user, the failures and the four
\* threads interleave: no bounded channel of restart/parent.rs or restart/child.rs
\* is ever asked for more room than it has, and the old instance leaves only to a
\* child that has written its acknowledgement of the acceptance.
THEOREM ScriptIsKept == Spec => []GoesByScript
<1>1. Init => ScriptInv
  BY ScriptInitially
<1>2. ScriptInv /\ [Next]_vars => ScriptInv'
  BY ScriptStep
<1> QED BY <1>1, <1>2, ScriptKeeps, PTL DEF Spec

================================================================================
