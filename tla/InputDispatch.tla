---------------------------- MODULE InputDispatch ----------------------------
(***************************************************************************)
(* The bounded queue between the keyboard hook thread and the UI thread    *)
(* (src/keyboard/dispatch.rs) with the UI turn that drains it              *)
(* (App::drain_input and complete_switch in src/app/input.rs, toggle_pause *)
(* and poll_pause in src/app/pause.rs).  The two threads share only        *)
(* atomics and the channel, so each shared access is a step of its own.    *)
(*                                                                         *)
(* The hook thread runs submit(event); what it submits is left open here   *)
(* and fixed by KeyboardHook, which implements this module.                *)
(***************************************************************************)
EXTENDS InputEvents, Integers, Sequences

CONSTANT Capacity      \* INPUT_QUEUE_CAPACITY, 64 in the program

ASSUME CapacityAssumption == Capacity \in Nat \ {0, 1}

VARIABLES
  channel,         \* the contents of the sync_channel
  queued,          \* the counter reserved before an event is published
  notified,        \* a WM_INPUT_READY is believed to be on its way
  acknowledged,    \* highest session the UI has completed
  revoked,         \* highest session whose cancellation was delivered
  paused,
  pause_requested, \* the slot of TogglePause, beside the queue
  live,            \* WindowTarget.live
  next_session,    \* the last session the hook thread opened
  hook,            \* control point of the hook thread inside submit
  event,           \* the event being submitted
  ui,              \* control point of the UI thread inside drain_input
  input_session,   \* App.input_session, 0 when no gesture is shown
  finishing,       \* the session's Finish has been applied
  batch,           \* events taken by take_timed, not yet applied
  resume,          \* where the turn goes on once the batch is dealt with
  saving           \* PauseControl: the settings worker is saving

shared == <<channel, queued, notified>>
marks  == <<acknowledged, revoked, paused, pause_requested, live>>
hookVars == <<hook, event, next_session>>
uiVars == <<ui, input_session, finishing, batch, resume, saving>>
vars == <<shared, marks, hookVars, uiVars>>

Larger(a, b) == IF a > b THEN a ELSE b

Permits(s) == ~paused /\ live /\ s > revoked /\ s > acknowledged

Init ==
  /\ channel = <<>> /\ queued = 0 /\ notified = FALSE
  /\ acknowledged = 0 /\ revoked = 0 /\ paused \in BOOLEAN
  /\ pause_requested = FALSE /\ live = TRUE
  /\ hook = "idle" /\ event = NoEvent /\ next_session = 0
  /\ ui = "idle" /\ input_session = 0 /\ finishing = FALSE
  /\ batch = <<>> /\ resume = "background" /\ saving = FALSE

-------------------------------------------------------------------------------
(* The hook thread: InputDispatch::submit, one shared access at a time.    *)

Submit(e) ==
  /\ hook = "idle"
  /\ hook' = "submit" /\ event' = e
  /\ next_session' = Larger(next_session, e.session)
  /\ UNCHANGED <<shared, marks, uiVars>>

SubmitPause ==
  /\ hook = "submit" /\ event.action = TogglePause
  /\ hook' = IF live THEN "accepted" ELSE "rejected"
  /\ pause_requested' = (pause_requested \/ live)
  /\ UNCHANGED <<shared, acknowledged, revoked, paused, live, event, next_session, uiVars>>

SubmitCancel ==
  /\ hook = "submit" /\ event.action = Cancel /\ Permits(event.session)
  /\ hook' = "accepted"
  /\ revoked' = Larger(revoked, event.session)
  /\ UNCHANGED <<shared, acknowledged, paused, pause_requested, live, event, next_session, uiVars>>

SubmitQueued ==
  /\ hook = "submit" /\ event.action # TogglePause
  /\ event.action = Cancel => ~Permits(event.session)
  /\ hook' = "check"
  /\ UNCHANGED <<shared, marks, event, next_session, uiVars>>

EnqueueCheck ==
  /\ hook = "check"
  /\ hook' = IF Permits(event.session) THEN "reserve" ELSE "cancel"
  /\ UNCHANGED <<shared, marks, event, next_session, uiVars>>

\* Mutants of Limit: no slot kept back for a terminal event; one slot too many.
LimitKeepsNoSlot(e) == Capacity
Limit(e) == IF e.action.type = "Cycle" THEN Capacity - 1 ELSE Capacity

Reserve ==
  /\ hook = "reserve"
  /\ IF queued < Limit(event)
       THEN queued' = queued + 1 /\ hook' = "send"
       ELSE queued' = queued /\ hook' = "cancel"
  /\ UNCHANGED <<channel, notified, marks, event, next_session, uiVars>>

Send ==
  /\ hook = "send"
  /\ IF Len(channel) < Capacity
       THEN channel' = Append(channel, event) /\ queued' = queued /\ hook' = "notify"
       ELSE channel' = channel /\ queued' = queued - 1 /\ hook' = "cancel"
  /\ UNCHANGED <<notified, marks, event, next_session, uiVars>>

\* The mutant gives the slot back when the notification fails on a closed
\* target, although the event stays in the channel.
NotifyReleases ==
  /\ hook = "notify"
  /\ \/ /\ notified \/ live
        /\ notified' \in {notified, TRUE} /\ hook' = "accepted" /\ queued' = queued
     \/ /\ ~notified /\ ~live
        /\ notified' = FALSE /\ hook' = "cancel" /\ queued' = queued - 1
  /\ UNCHANGED <<channel, marks, event, next_session, uiVars>>

\* PostMessageW may fail and the posting lock may be busy while the target is
\* live; once it is closed every post fails.
Notify ==
  /\ hook = "notify"
  /\ \/ /\ notified
        /\ notified' = TRUE /\ hook' = "accepted"
     \/ /\ ~notified /\ live
        /\ notified' \in BOOLEAN /\ hook' = "accepted"
     \/ /\ ~notified /\ ~live
        /\ notified' = FALSE /\ hook' = "cancel"
  /\ UNCHANGED <<channel, queued, marks, event, next_session, uiVars>>

CancelRejected ==
  /\ hook = "cancel"
  /\ revoked' = Larger(revoked, event.session)
  /\ hook' = "rejected"
  /\ UNCHANGED <<shared, acknowledged, paused, pause_requested, live, event, next_session, uiVars>>

Return ==
  /\ hook \in {"accepted", "rejected"}
  /\ hook' = "idle" /\ event' = NoEvent
  /\ UNCHANGED <<shared, marks, next_session, uiVars>>

\* HookContext::process sees a gesture's own events only; a Cycle may open the
\* next session, and no session is opened past MaxSession (checked_add).
HookSubmits(e) ==
  /\ \/ e.session = next_session
     \/ e.session = next_session + 1 /\ e.action.type = "Cycle"
     \/ e.action = TogglePause
  /\ Submit(e)

\* The reset of an activation change cancels the open gesture, outside submit.
ResetCancels ==
  /\ hook = "idle" /\ next_session > 0
  /\ revoked' = Larger(revoked, next_session)
  /\ UNCHANGED <<shared, acknowledged, paused, pause_requested, live, hookVars, uiVars>>

HookStep ==
  \/ SubmitPause \/ SubmitCancel \/ SubmitQueued \/ EnqueueCheck
  \/ Reserve \/ Send \/ Notify \/ CancelRejected \/ Return

-------------------------------------------------------------------------------
(* The UI thread: one turn of drain_input, run for every WM_INPUT_READY    *)
(* and for the 50 ms INPUT_POLL_TIMER, so a lost notification only delays. *)

CompleteSwitch ==
  /\ acknowledged' = Larger(acknowledged, input_session)
  /\ input_session' = 0 /\ finishing' = FALSE

KeepSession == UNCHANGED <<acknowledged, input_session, finishing>>

\* poll_lifecycle, once the hook thread has acknowledged that input is off.
DrainQueue ==
  /\ ui = "idle" /\ live
  /\ input_session' = 0 /\ finishing' = FALSE
  /\ resume' = "idle" /\ ui' = "take"
  /\ UNCHANGED <<shared, marks, hookVars, batch, saving>>

\* The Finish of session s is applied, or on its way.
FinishUnderway(s) ==
  \/ finishing /\ input_session = s
  \/ \E i \in 1 .. Len(channel) :
       channel[i].session = s /\ channel[i].action.type = "Finish"

\* By then no callback is inside submit, and the reset of the recogniser has
\* ended every session it opened.  Only the last one there is, which had not
\* finished, may have been dropped without an end: for a gesture that replaces
\* it no number is left (state.rs:261).
SuspendDrain ==
  /\ hook = "idle"
  /\ \/ next_session <= Larger(acknowledged, revoked)
     \/ /\ next_session = MaxSession
        /\ \A s \in Sessions : FinishUnderway(s) => s <= Larger(acknowledged, revoked)
  /\ DrainQueue

\* take_pause_request, then toggle_pause unless a save is already running; the
\* settings worker may fail to start after the gesture was completed.
PollPauseRequest ==
  /\ ui = "idle" /\ live
  /\ pause_requested' = FALSE
  /\ \/ pause_requested /\ ~saving /\ CompleteSwitch /\ saving' \in BOOLEAN
     \/ (saving \/ ~pause_requested) /\ KeepSession /\ saving' = saving
     \* the lifecycle or another settings worker refuses the change
     \/ pause_requested /\ KeepSession /\ saving' = saving
  /\ ui' = "pause"
  /\ UNCHANGED <<shared, revoked, paused, live, hookVars, batch, resume>>

\* PauseControl::poll: not finished, failed, or saved and applied to the input.
PollPause ==
  /\ ui = "pause"
  /\ \/ /\ ui' = "session"
        /\ saving' \in {saving, FALSE}
        /\ KeepSession
        /\ UNCHANGED <<paused, resume>>
     \/ /\ saving
        /\ paused' = ~paused
        /\ CompleteSwitch
        /\ saving' = FALSE /\ resume' = "session" /\ ui' = "take"
  /\ UNCHANGED <<shared, revoked, pause_requested, live, hookVars, batch>>

\* The mutant drops the poll of the revocation at the start of a turn.
PollSessionIgnoresRevocation ==
  /\ ui = "session"
  /\ KeepSession
  /\ ui' = "take"
  /\ UNCHANGED <<shared, revoked, paused, pause_requested, live, hookVars, batch, resume, saving>>

PollSession ==
  /\ ui = "session"
  /\ \/ input_session # 0 /\ ~Permits(input_session) /\ CompleteSwitch
     \/ input_session # 0 /\ CompleteSwitch   \* a sticky view lost the foreground
     \/ (input_session = 0 \/ Permits(input_session)) /\ KeepSession
  /\ ui' = "take"
  /\ UNCHANGED <<shared, revoked, paused, pause_requested, live, hookVars, batch, resume, saving>>

Take ==
  /\ ui = "take"
  /\ notified' = FALSE /\ ui' = "recv"
  /\ UNCHANGED <<channel, queued, marks, hookVars, input_session, finishing, batch, resume, saving>>

Recv ==
  /\ ui = "recv" /\ channel # <<>> /\ Len(batch) < Capacity
  /\ batch' = Append(batch, Head(channel))
  /\ channel' = Tail(channel)
  /\ ui' = "release"
  /\ UNCHANGED <<queued, notified, marks, hookVars, input_session, finishing, resume, saving>>

Release ==
  /\ ui = "release"
  /\ queued' = queued - 1 /\ ui' = "recv"
  /\ UNCHANGED <<channel, notified, marks, hookVars, input_session, finishing, batch, resume, saving>>

RecvDone ==
  /\ ui = "recv" /\ (channel = <<>> \/ Len(batch) = Capacity)
  /\ ui' = "apply"
  /\ UNCHANGED <<shared, marks, hookVars, input_session, finishing, batch, resume, saving>>

\* After a pause change or a suspension a take only acknowledges.
Discarding == resume # "background"

\* The mutant forgets that the session may have been completed meanwhile.
MayApply(e) == Permits(e.session)

ApplySkipped ==
  /\ ui = "apply" /\ batch # <<>>
  /\ Discarding \/ ~MayApply(Head(batch))
  /\ acknowledged' = Larger(acknowledged, Head(batch).session)
  /\ batch' = Tail(batch)
  /\ UNCHANGED <<shared, revoked, paused, pause_requested, live, hookVars,
                 ui, input_session, finishing, resume, saving>>

\* The mutant lets a later event of the session clear the flag.
FinishingOfLastEvent(e) == e.action.type = "Finish"

FinishingAfter(e) ==
  e.action.type = "Finish" \/ (finishing /\ input_session = e.session)

\* A new session discards what is left of the previous one.  A Cancel that
\* reached the queue completes; an error cancels the session and completes.
ApplyInput ==
  /\ ui = "apply" /\ batch # <<>> /\ ~Discarding
  /\ LET e == Head(batch) IN
     /\ MayApply(e)
     /\ \/ /\ e.action # Cancel
           /\ input_session' = e.session
           /\ finishing' = FinishingAfter(e)
           /\ UNCHANGED <<acknowledged, revoked>>
        \/ /\ acknowledged' = Larger(acknowledged, e.session)
           /\ revoked' \in IF e.action = Cancel THEN {revoked, Larger(revoked, e.session)}
                                                ELSE {Larger(revoked, e.session)}
           /\ input_session' = 0 /\ finishing' = FALSE
        \* pump_switches inside apply_input: nothing left to wait for
        \/ /\ e.action.type = "Finish"
           /\ acknowledged' = Larger(acknowledged, e.session)
           /\ input_session' = 0 /\ finishing' = FALSE
           /\ UNCHANGED revoked
  /\ batch' = Tail(batch)
  /\ UNCHANGED <<shared, paused, pause_requested, live, hookVars, ui, resume, saving>>

ApplyDone ==
  /\ ui = "apply" /\ batch = <<>>
  /\ ui' = resume /\ resume' = "background"
  /\ UNCHANGED <<shared, marks, hookVars, input_session, finishing, batch, saving>>

\* poll_switching .. flush_panel: still waiting, or the gesture is over (its
\* Finish was carried out, its list was empty, its search was closed).
BackgroundWaits ==
  /\ ui = "background"
  /\ ui' = "idle"
  /\ UNCHANGED <<shared, marks, hookVars, input_session, finishing, batch, resume, saving>>

BackgroundCompletes ==
  /\ ui = "background" /\ input_session # 0
  /\ CompleteSwitch
  /\ ui' = "idle"
  /\ UNCHANGED <<shared, revoked, paused, pause_requested, live, hookVars, batch, resume, saving>>

\* a worker failed or the 3 s safety timeout of a snapshot expired
BackgroundFails ==
  /\ ui = "background" /\ input_session # 0
  /\ revoked' = Larger(revoked, input_session)
  /\ CompleteSwitch
  /\ ui' = "idle"
  /\ UNCHANGED <<shared, paused, pause_requested, live, hookVars, batch, resume, saving>>

\* The target closes on the UI thread, when the event loop ends or a full
\* deferred-message queue closes it from inside a turn.
Close ==
  /\ live /\ live' = FALSE
  /\ UNCHANGED <<shared, acknowledged, revoked, paused, pause_requested, hookVars, uiVars>>

UITurn ==
  \/ PollPauseRequest \/ PollPause \/ PollSession \/ Take \/ Recv \/ Release \/ RecvDone
  \/ ApplySkipped \/ ApplyInput \/ ApplyDone
  \/ BackgroundWaits \/ BackgroundCompletes \/ BackgroundFails

Next ==
  \/ \E e \in InputEvent : HookSubmits(e)
  \/ HookStep \/ ResetCancels \/ UITurn \/ SuspendDrain \/ Close

Spec == Init /\ [][Next]_vars

\* Both threads keep running: the timer starts a UI turn every 50 ms, and a
\* gesture whose Finish was applied waits at most for the 3 s snapshot timeout.
FairSpec ==
  /\ Spec
  /\ WF_vars(UITurn) /\ WF_vars(HookStep)
  /\ SF_vars(finishing /\ (BackgroundCompletes \/ BackgroundFails))

-------------------------------------------------------------------------------
(* Properties.                                                             *)

HookPoints == {"idle", "submit", "check", "reserve", "send", "notify",
               "cancel", "accepted", "rejected"}
UIPoints == {"idle", "pause", "session", "take", "recv", "release", "apply", "background"}

TypeOK ==
  /\ channel \in Seq(InputEvent) /\ batch \in Seq(InputEvent)
  /\ queued \in Nat /\ notified \in BOOLEAN
  /\ acknowledged \in Nat /\ revoked \in Nat
  /\ paused \in BOOLEAN /\ pause_requested \in BOOLEAN /\ live \in BOOLEAN
  /\ next_session \in 0 .. MaxSession
  /\ hook \in HookPoints /\ event \in InputEvent \cup {NoEvent}
  /\ ui \in UIPoints /\ input_session \in 0 .. MaxSession
  /\ finishing \in BOOLEAN /\ resume \in {"idle", "session", "background"} /\ saving \in BOOLEAN

One(condition) == IF condition THEN 1 ELSE 0

\* The counter always covers what is in the channel: an event is counted before
\* it is published and released after it is taken, whatever the two threads do.
QueueAccounting ==
  queued = Len(channel) + One(hook = "send") + One(ui = "release")

\* A reservation is a slot: the channel never refuses an event that was counted,
\* so the Full branch of try_send is dead code.
ReservationFits ==
  /\ hook = "send" => Len(channel) < Capacity
  /\ queued <= Capacity

\* The queue is what its counter says: typed, exact, and with room for what was
\* counted (keyboard/dispatch.rs:109).
QueueIsSound == TypeOK /\ QueueAccounting /\ ReservationFits

IsCycle(e) == e.action.type = "Cycle"

\* Ordinary cycles leave the final slot for a terminal event: the queue is full
\* only while an event other than a Cycle is reserved, queued or being taken.
TerminalSlotReserved ==
  queued = Capacity =>
    \/ \E i \in 1 .. Len(channel) : ~IsCycle(channel[i])
    \/ hook = "send" /\ ~IsCycle(event)
    \/ ui = "release" /\ ~IsCycle(batch[Len(batch)])

\* The UI never goes back to an earlier gesture, and a session it completed
\* never comes back, however late its events are delivered.
SessionsOnlyAdvance ==
  [][input_session' # input_session /\ input_session' # 0 =>
       input_session' > input_session /\ input_session' > acknowledged]_vars

\* A cancelled gesture is taken off the screen even if its notification is lost
\* and no further key arrives: the timer's poll of the revocation ends it.
RevocationObserved ==
  \A s \in Sessions :
    (input_session = s /\ s <= revoked) ~> (input_session # s \/ ~live)

\* What was ended stays ended: a revoked session leaves the screen, and neither
\* it nor a completed one comes back (keyboard/dispatch.rs:180, app/input.rs:45).
RevocationHolds == SessionsOnlyAdvance /\ RevocationObserved

\* An accepted Finish is never lost: its session is completed, revoked, or
\* replaced by a newer gesture.
FinishCompletes ==
  \A s \in Sessions :
    (\E i \in 1 .. Len(channel) : channel[i].session = s /\ channel[i].action.type = "Finish")
      ~> (s <= acknowledged \/ s <= revoked \/ input_session > s \/ ~live)
===============================================================================
