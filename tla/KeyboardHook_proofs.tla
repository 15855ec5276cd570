-------------------------- MODULE KeyboardHook_proofs --------------------------
(***************************************************************************)
(* Proofs about the input queue and about the hook that drives it, for     *)
(* every capacity, every binding and every number of sessions.             *)
(***************************************************************************)
EXTENDS KeyboardHook, SequenceFacts

-------------------------------------------------------------------------------
(* The input queue.  The inductive invariant Inv is the type invariant in  *)
(* four parts, with the exact counter, its bound, and that an event is at  *)
(* hand while the hook thread is inside submit.                            *)

Flags ==
  /\ notified \in BOOLEAN /\ paused \in BOOLEAN /\ pause_requested \in BOOLEAN
  /\ live \in BOOLEAN /\ finishing \in BOOLEAN /\ saving \in BOOLEAN

Counters ==
  /\ acknowledged \in Nat /\ revoked \in Nat
  /\ next_session \in 0 .. MaxSession /\ input_session \in 0 .. MaxSession

Control ==
  /\ hook \in HookPoints /\ ui \in UIPoints
  /\ resume \in {"idle", "session", "background"}
  /\ event \in InputEvent \cup {NoEvent}
  /\ hook # "idle" => event \in InputEvent

Queue ==
  /\ channel \in Seq(InputEvent) /\ batch \in Seq(InputEvent) /\ queued \in Nat
  /\ QueueAccounting /\ queued <= Capacity

Inv == Flags /\ Counters /\ Control /\ Queue

USE CapacityAssumption, SessionAssumption

\* The session of any event the model holds is a number up to MaxSession.
LEMMA EventSession ==
  ASSUME NEW e \in InputEvent \cup {NoEvent}
  PROVE  e.session \in 0 .. MaxSession
BY DEF InputEvent, NoEvent, Sessions

\* The program starts with an empty queue and no gesture.
LEMMA InitInv == Init => Inv
<1> SUFFICES ASSUME Init PROVE Inv OBVIOUS
<1>1. Flags
  BY DEF Init, Flags
<1>2. Counters
  BY DEF Init, Counters
<1>3. Control
  BY DEF Init, Control, HookPoints, UIPoints
<1>4. Queue
  BY DEF Init, Queue, QueueAccounting, One
<1> QED BY <1>1, <1>2, <1>3, <1>4 DEF Inv

\* Every step leaves the flags Boolean.
LEMMA FlagsStep == Flags /\ [Next]_vars => Flags'
<1> SUFFICES ASSUME Flags, [Next]_vars PROVE Flags' OBVIOUS
<1> USE DEF Flags, shared, marks, hookVars, uiVars, CompleteSwitch, KeepSession
<1>1. CASE \E e \in InputEvent : HookSubmits(e)
  BY <1>1 DEF HookSubmits, Submit
<1>2. CASE HookStep
  BY <1>2 DEF HookStep, SubmitPause, SubmitCancel, SubmitQueued, EnqueueCheck, Reserve,
              Send, Notify, CancelRejected, Return
<1>3. CASE PollPauseRequest \/ PollPause \/ PollSession
  BY <1>3 DEF PollPauseRequest, PollPause, PollSession
<1>4. CASE Take \/ Recv \/ Release \/ RecvDone
  BY <1>4 DEF Take, Recv, Release, RecvDone
<1>5. CASE ApplySkipped \/ ApplyInput \/ ApplyDone
  BY <1>5 DEF ApplySkipped, ApplyInput, ApplyDone, FinishingAfter
<1>6. CASE BackgroundWaits \/ BackgroundCompletes \/ BackgroundFails
  BY <1>6 DEF BackgroundWaits, BackgroundCompletes, BackgroundFails
<1>7. CASE SuspendDrain \/ Close \/ ResetCancels
  BY <1>7 DEF SuspendDrain, DrainQueue, Close, ResetCancels
<1>8. CASE UNCHANGED vars
  BY <1>8 DEF vars
<1> QED BY <1>1, <1>2, <1>3, <1>4, <1>5, <1>6, <1>7, <1>8 DEF Next, UITurn

\* Every step keeps the control points, and an event at hand inside submit.
LEMMA ControlStep == Control /\ [Next]_vars => Control'
<1> SUFFICES ASSUME Control, [Next]_vars PROVE Control' OBVIOUS
<1> USE DEF Control, HookPoints, UIPoints, shared, marks, hookVars, uiVars
<1>1. CASE \E e \in InputEvent : HookSubmits(e)
  BY <1>1 DEF HookSubmits, Submit
<1>2. CASE HookStep
  BY <1>2 DEF HookStep, SubmitPause, SubmitCancel, SubmitQueued, EnqueueCheck, Reserve,
              Send, Notify, CancelRejected, Return
<1>3. CASE PollPauseRequest \/ PollPause \/ PollSession
  BY <1>3 DEF PollPauseRequest, PollPause, PollSession
<1>4. CASE Take \/ Recv \/ Release \/ RecvDone
  BY <1>4 DEF Take, Recv, Release, RecvDone
<1>5. CASE ApplySkipped \/ ApplyInput \/ ApplyDone
  BY <1>5 DEF ApplySkipped, ApplyInput, ApplyDone
<1>6. CASE BackgroundWaits \/ BackgroundCompletes \/ BackgroundFails
  BY <1>6 DEF BackgroundWaits, BackgroundCompletes, BackgroundFails
<1>7. CASE SuspendDrain \/ Close \/ ResetCancels
  BY <1>7 DEF SuspendDrain, DrainQueue, Close, ResetCancels
<1>8. CASE UNCHANGED vars
  BY <1>8 DEF vars
<1> QED BY <1>1, <1>2, <1>3, <1>4, <1>5, <1>6, <1>7, <1>8 DEF Next, UITurn

\* Every step keeps the session counters in range.
LEMMA CountersStep == Counters /\ Control /\ Queue /\ [Next]_vars => Counters'
<1> SUFFICES ASSUME Counters, Control, Queue, [Next]_vars PROVE Counters' OBVIOUS
<1> USE DEF Counters, shared, marks, hookVars, uiVars
<1>a. /\ Larger(acknowledged, input_session) \in Nat /\ Larger(revoked, input_session) \in Nat
      /\ Larger(revoked, next_session) \in Nat
  BY DEF Larger
<1>e. Larger(revoked, event.session) \in Nat
  BY EventSession DEF Control, Larger
<1>1. CASE \E e \in InputEvent : HookSubmits(e)
  <2>1. PICK e \in InputEvent : HookSubmits(e)
    BY <1>1
  <2>2. Larger(next_session, e.session) \in 0 .. MaxSession
    BY EventSession DEF Larger
  <2> QED BY <2>1, <2>2 DEF HookSubmits, Submit
<1>2. CASE HookStep
  BY <1>2, <1>e DEF HookStep, SubmitPause, SubmitCancel, SubmitQueued, EnqueueCheck, Reserve,
                    Send, Notify, CancelRejected, Return
<1>3. CASE PollPauseRequest \/ PollPause \/ PollSession
  <2>1. /\ revoked' = revoked /\ next_session' = next_session
        /\ CompleteSwitch \/ KeepSession
    BY <1>3 DEF PollPauseRequest, PollPause, PollSession
  <2> QED BY <1>a, <2>1 DEF CompleteSwitch, KeepSession
<1>4. CASE Take \/ Recv \/ Release \/ RecvDone
  BY <1>4 DEF Take, Recv, Release, RecvDone
<1>5. CASE ApplySkipped \/ ApplyInput
  <2>1. Head(batch) \in InputEvent
    BY <1>5 DEF ApplySkipped, ApplyInput, Queue
  <2>2. Head(batch).session \in 0 .. MaxSession
    BY <2>1, EventSession
  <2>3. /\ Larger(acknowledged, Head(batch).session) \in Nat
        /\ Larger(revoked, Head(batch).session) \in Nat
    BY <2>2 DEF Larger
  <2> QED BY <1>5, <2>2, <2>3 DEF ApplySkipped, ApplyInput
<1>6. CASE ApplyDone \/ BackgroundWaits \/ BackgroundCompletes \/ BackgroundFails
  BY <1>6, <1>a DEF ApplyDone, BackgroundWaits, BackgroundCompletes, BackgroundFails, CompleteSwitch
<1>7. CASE SuspendDrain \/ Close \/ ResetCancels
  BY <1>7, <1>a DEF SuspendDrain, DrainQueue, Close, ResetCancels
<1>8. CASE UNCHANGED vars
  BY <1>8 DEF vars
<1> QED BY <1>1, <1>2, <1>3, <1>4, <1>5, <1>6, <1>7, <1>8 DEF Next, UITurn

\* Every step keeps the counter exact and within the capacity: it is raised
\* before an event is published and lowered after the event was taken.
LEMMA QueueStep == Control /\ Queue /\ [Next]_vars => Queue'
<1> SUFFICES ASSUME Control, Queue, [Next]_vars PROVE Queue' OBVIOUS
<1> USE DEF Queue, QueueAccounting, One, shared, marks, hookVars, uiVars
<1>1. CASE \E e \in InputEvent : HookSubmits(e)
  BY <1>1 DEF HookSubmits, Submit
<1>2. CASE Reserve
  <2>1. Limit(event) \in Int /\ Limit(event) <= Capacity
    BY DEF Limit
  <2>2. CASE queued < Limit(event)
    <3>1. queued' = queued + 1 /\ hook' = "send" /\ hook = "reserve"
      BY <1>2, <2>2 DEF Reserve
    <3> QED BY <1>2, <2>1, <2>2, <3>1 DEF Reserve
  <2>3. CASE ~(queued < Limit(event))
    <3>1. queued' = queued /\ hook' = "cancel" /\ hook = "reserve"
      BY <1>2, <2>3 DEF Reserve
    <3> QED BY <1>2, <3>1 DEF Reserve
  <2> QED BY <2>2, <2>3
<1>3. CASE Send
  <2>1. CASE Len(channel) < Capacity
    <3>1. /\ channel' = Append(channel, event) /\ hook' = "notify" /\ queued' = queued
          /\ batch' = batch /\ ui' = ui /\ hook = "send"
      BY <1>3, <2>1 DEF Send
    <3>2. channel' \in Seq(InputEvent) /\ Len(channel') = Len(channel) + 1
      BY <3>1 DEF Control
    <3> QED BY <3>1, <3>2
  <2>2. CASE ~(Len(channel) < Capacity)
    <3>1. /\ channel' = channel /\ hook' = "cancel" /\ queued' = queued - 1
          /\ batch' = batch /\ ui' = ui /\ hook = "send"
      BY <1>3, <2>2 DEF Send
    <3> QED BY <3>1
  <2> QED BY <2>1, <2>2
<1>4. CASE SubmitPause \/ SubmitCancel \/ SubmitQueued \/ EnqueueCheck
  BY <1>4 DEF SubmitPause, SubmitCancel, SubmitQueued, EnqueueCheck
<1>5. CASE Notify \/ CancelRejected \/ Return
  BY <1>5 DEF Notify, CancelRejected, Return
<1>6. CASE PollPauseRequest \/ PollPause \/ PollSession
  BY <1>6 DEF PollPauseRequest, PollPause, PollSession
<1>7. CASE Take \/ RecvDone
  BY <1>7 DEF Take, RecvDone
<1>8. CASE Recv
  BY <1>8 DEF Recv
<1>9. CASE Release
  BY <1>9 DEF Release
<1>10. CASE ApplySkipped \/ ApplyInput
  <2>1. /\ channel' = channel /\ queued' = queued /\ hook' = hook
        /\ ui' = ui /\ batch # <<>> /\ batch' = Tail(batch)
    BY <1>10 DEF ApplySkipped, ApplyInput
  <2>2. batch' \in Seq(InputEvent)
    BY <2>1
  <2> QED BY <2>1, <2>2
<1>11. CASE ApplyDone \/ BackgroundWaits \/ BackgroundCompletes \/ BackgroundFails
  <2>1. ui # "release" /\ ui' # "release" /\ UNCHANGED <<channel, queued, batch, hook>>
    BY <1>11 DEF ApplyDone, BackgroundWaits, BackgroundCompletes, BackgroundFails, Control
  <2> QED BY <2>1
<1>12. CASE SuspendDrain \/ Close \/ ResetCancels
  BY <1>12 DEF SuspendDrain, DrainQueue, Close, ResetCancels
<1>13. CASE UNCHANGED vars
  BY <1>13 DEF vars
<1> QED BY <1>1, <1>2, <1>3, <1>4, <1>5, <1>6, <1>7, <1>8, <1>9, <1>10, <1>11, <1>12,
           <1>13 DEF Next, HookStep, UITurn

\* Inv holds in every reachable state.
THEOREM Invariance == Spec => []Inv
<1>1. Inv /\ [Next]_vars => Inv'
  BY FlagsStep, CountersStep, ControlStep, QueueStep DEF Inv
<1> QED BY InitInv, <1>1, PTL DEF Spec

\* The counter queued (a usize) never wraps below zero, and every other variable
\* keeps its type.
THEOREM TypeCorrect == Spec => []TypeOK
<1>1. Inv => TypeOK
  BY DEF Inv, Flags, Counters, Control, Queue, TypeOK
<1> QED BY Invariance, <1>1, PTL

\* The counter is exact in every state, whatever the two threads interleave.
THEOREM CounterExact == Spec => []QueueAccounting
<1>1. Inv => QueueAccounting
  BY DEF Inv, Queue
<1> QED BY Invariance, <1>1, PTL

\* A counted event always finds room in the channel: try_send never fails.
THEOREM SendNeverFails == Spec => []ReservationFits
<1>1. ASSUME Inv PROVE ReservationFits
  <2>1. /\ queued \in Nat /\ queued <= Capacity /\ Len(channel) \in Nat
        /\ queued = Len(channel) + One(hook = "send") + One(ui = "release")
    BY <1>1 DEF Inv, Queue, QueueAccounting
  <2>2. One(ui = "release") \in {0, 1} /\ (hook = "send" => One(hook = "send") = 1)
    BY DEF One
  <2>3. hook = "send" => Len(channel) < Capacity
    BY <2>1, <2>2
  <2> QED BY <2>1, <2>3 DEF ReservationFits
<1> QED BY Invariance, <1>1, PTL

-------------------------------------------------------------------------------
\* The slot kept back for a terminal event is taken by no cycle: while every slot
\* is counted, one of the counted events is another one.
LEMMA TerminalSlotStep ==
  Control /\ Queue /\ TerminalSlotReserved /\ [Next]_vars => TerminalSlotReserved'
<1> SUFFICES ASSUME Control, Queue, TerminalSlotReserved, [Next]_vars, queued' = Capacity
             PROVE  \/ \E i \in 1 .. Len(channel') : ~IsCycle(channel'[i])
                    \/ hook' = "send" /\ ~IsCycle(event')
                    \/ ui' = "release" /\ ~IsCycle(batch'[Len(batch')])
  BY DEF TerminalSlotReserved
<1> USE DEF Queue, shared, marks, hookVars, uiVars
<1>s. queued = Capacity => \/ \E i \in 1 .. Len(channel) : ~IsCycle(channel[i])
                           \/ hook = "send" /\ ~IsCycle(event)
                           \/ ui = "release" /\ ~IsCycle(batch[Len(batch)])
  BY DEF TerminalSlotReserved
<1>k. SUFFICES ASSUME ~(/\ channel' = channel /\ queued' = queued
                        /\ (hook = "send" => hook' = "send" /\ event' = event)
                        /\ (ui = "release" => ui' = "release" /\ batch' = batch))
               PROVE  \/ \E i \in 1 .. Len(channel') : ~IsCycle(channel'[i])
                      \/ hook' = "send" /\ ~IsCycle(event')
                      \/ ui' = "release" /\ ~IsCycle(batch'[Len(batch')])
  BY <1>s
<1>1. CASE \E e \in InputEvent : HookSubmits(e)
  BY <1>1, <1>k DEF HookSubmits, Submit
<1>2. CASE Reserve
  <2>1. queued < Limit(event) /\ queued' = queued + 1 /\ hook' = "send" /\ event' = event
    BY <1>2, <1>k DEF Reserve
  <2>2. IsCycle(event) => Limit(event) = Capacity - 1
    BY DEF Limit, IsCycle
  <2> QED BY <2>1, <2>2
<1>3. CASE Send
  <2>1. /\ channel' = Append(channel, event) /\ queued' = queued /\ hook = "send"
        /\ ui' = ui /\ batch' = batch
    BY <1>3 DEF Send
  <2>2. /\ Len(channel') = Len(channel) + 1 /\ channel'[Len(channel) + 1] = event
        /\ \A i \in 1 .. Len(channel) : channel'[i] = channel[i]
    BY <2>1 DEF Control
  <2> QED BY <1>s, <2>1, <2>2
<1>4. CASE SubmitPause \/ SubmitCancel \/ SubmitQueued \/ EnqueueCheck
  BY <1>4, <1>k DEF SubmitPause, SubmitCancel, SubmitQueued, EnqueueCheck
<1>5. CASE Notify \/ CancelRejected \/ Return
  BY <1>5, <1>k DEF Notify, CancelRejected, Return
<1>6. CASE PollPauseRequest \/ PollPause \/ PollSession
  BY <1>6, <1>k DEF PollPauseRequest, PollPause, PollSession
<1>7. CASE Take \/ RecvDone
  BY <1>7, <1>k DEF Take, RecvDone
<1>8. CASE Recv
  <2>1. /\ channel # <<>> /\ channel' = Tail(channel) /\ batch' = Append(batch, Head(channel))
        /\ queued' = queued /\ ui = "recv" /\ ui' = "release" /\ hook' = hook /\ event' = event
    BY <1>8 DEF Recv
  <2>2. /\ Len(channel') = Len(channel) - 1 /\ Len(batch') = Len(batch) + 1
        /\ batch'[Len(batch')] = channel[1]
        /\ \A i \in 2 .. Len(channel) : channel'[i - 1] = channel[i]
    BY <2>1
  <2>3. ASSUME NEW i \in 1 .. Len(channel), ~IsCycle(channel[i])
        PROVE  \/ \E j \in 1 .. Len(channel') : ~IsCycle(channel'[j])
               \/ ui' = "release" /\ ~IsCycle(batch'[Len(batch')])
    <3>1. CASE i = 1
      BY <2>1, <2>2, <2>3, <3>1
    <3>2. CASE i # 1
      <4>1. i \in 2 .. Len(channel) /\ i - 1 \in 1 .. Len(channel')
        BY <2>2, <3>2
      <4> QED BY <2>2, <2>3, <4>1
    <3> QED BY <3>1, <3>2
  <2> QED BY <1>s, <2>1, <2>3
<1>9. CASE Release
  BY <1>9 DEF Release
<1>10. CASE ApplySkipped \/ ApplyInput
  BY <1>10, <1>k DEF ApplySkipped, ApplyInput
<1>11. CASE ApplyDone \/ BackgroundWaits \/ BackgroundCompletes \/ BackgroundFails
  BY <1>11, <1>k DEF ApplyDone, BackgroundWaits, BackgroundCompletes, BackgroundFails
<1>12. CASE SuspendDrain \/ Close \/ ResetCancels
  BY <1>12, <1>k DEF SuspendDrain, DrainQueue, Close, ResetCancels
<1>13. CASE UNCHANGED vars
  BY <1>13, <1>k DEF vars
<1> QED BY <1>1, <1>2, <1>3, <1>4, <1>5, <1>6, <1>7, <1>8, <1>9, <1>10, <1>11, <1>12,
           <1>13 DEF Next, HookStep, UITurn

\* Cycles alone never fill the queue: the last slot is left to the event that
\* ends a gesture.
THEOREM TerminalSlot == Spec => []TerminalSlotReserved
<1>1. Init => TerminalSlotReserved
  BY DEF Init, TerminalSlotReserved
<1>2. Inv /\ TerminalSlotReserved /\ [Next]_vars => TerminalSlotReserved'
  BY TerminalSlotStep DEF Inv
<1> QED BY Invariance, <1>1, <1>2, PTL DEF Spec

-------------------------------------------------------------------------------
(* Sessions reach the UI in the order they were opened.                    *)

Submitting == hook \in {"submit", "check", "reserve", "send"} /\ event.action # TogglePause

\* What is submitted belongs to the newest session, and no control command is
\* on its way into the queue.
Newest ==
  /\ hook \in {"check", "reserve", "send"} => event.action # TogglePause
  /\ Submitting => event.session = next_session

\* The shown gesture, the taken events, the channel and the newest session are
\* in the order of their sessions.
Ordered ==
  /\ input_session <= next_session
  /\ \A i \in 1 .. Len(batch) : batch[i].session \in input_session .. next_session
  /\ \A i \in 1 .. Len(channel) : channel[i].session \in input_session .. next_session
  /\ \A i, j \in 1 .. Len(batch) : i <= j => batch[i].session <= batch[j].session
  /\ \A i, j \in 1 .. Len(channel) : i <= j => channel[i].session <= channel[j].session
  /\ \A i \in 1 .. Len(batch), j \in 1 .. Len(channel) : batch[i].session <= channel[j].session

\* The hook thread submits events of the newest session only.
LEMMA NewestStep == Counters /\ Control /\ Newest /\ [Next]_vars => Newest'
<1> SUFFICES ASSUME Counters, Control, Newest, [Next]_vars PROVE Newest' OBVIOUS
<1> USE DEF Counters, Newest, Submitting, shared, marks, hookVars, uiVars
<1>1. CASE \E e \in InputEvent : HookSubmits(e)
  <2>1. PICK e \in InputEvent : HookSubmits(e)
    BY <1>1
  <2>2. e.session \in 0 .. MaxSession
    BY EventSession
  <2>3. /\ hook' = "submit" /\ event' = e
        /\ next_session' = Larger(next_session, e.session)
    BY <2>1 DEF HookSubmits, Submit
  <2>4. e.action # TogglePause => e.session >= next_session
    BY <2>1, <2>2 DEF HookSubmits
  <2> QED BY <2>2, <2>3, <2>4 DEF Larger
<1>2. CASE HookStep
  BY <1>2 DEF HookStep, SubmitPause, SubmitCancel, SubmitQueued, EnqueueCheck, Reserve,
              Send, Notify, CancelRejected, Return
<1>3. CASE UITurn
  <2>1. UNCHANGED <<hook, event, next_session>>
    BY <1>3 DEF UITurn, PollPauseRequest, PollPause, PollSession, Take, Recv, Release,
                RecvDone, ApplySkipped, ApplyInput, ApplyDone, BackgroundWaits,
                BackgroundCompletes, BackgroundFails
  <2> QED BY <2>1
<1>4. CASE SuspendDrain \/ Close \/ ResetCancels \/ UNCHANGED vars
  BY <1>4 DEF SuspendDrain, DrainQueue, Close, ResetCancels, vars
<1> QED BY <1>1, <1>2, <1>3, <1>4 DEF Next

\* No step breaks the order: sessions are appended newest last, taken from the
\* front, and the gesture shown is left or replaced by the next one taken.
LEMMA OrderStep == Counters /\ Control /\ Queue /\ Newest /\ Ordered /\ [Next]_vars => Ordered'
<1> SUFFICES ASSUME Counters, Control, Queue, Newest, Ordered, [Next]_vars
             PROVE  Ordered'
  OBVIOUS
<1> USE DEF Counters, Queue, Ordered, shared, marks, hookVars, uiVars
<1>t. /\ \A i \in 1 .. Len(batch) : batch[i].session \in Int
      /\ \A i \in 1 .. Len(channel) : channel[i].session \in Int
  OBVIOUS
<1>1. CASE \E e \in InputEvent : HookSubmits(e)
  <2>1. PICK e \in InputEvent : HookSubmits(e)
    BY <1>1
  <2>2. e.session \in 0 .. MaxSession
    BY EventSession
  <2>3. UNCHANGED <<channel, batch, input_session>> /\ next_session' \in Int
        /\ next_session' >= next_session
    BY <2>1, <2>2 DEF HookSubmits, Submit, Larger
  <2> QED BY <2>3
<1>2. CASE Send
  <2>1. UNCHANGED <<batch, input_session, next_session>> /\ hook = "send"
    BY <1>2 DEF Send
  <2>2. event.session = next_session
    BY <2>1 DEF Newest, Submitting
  <2>3. CASE channel' = channel
    BY <2>1, <2>3
  <2>4. CASE channel' = Append(channel, event)
    <3>1. /\ Len(channel') = Len(channel) + 1 /\ channel'[Len(channel) + 1] = event
          /\ \A i \in 1 .. Len(channel) : channel'[i] = channel[i]
      BY <2>1, <2>4 DEF Control
    <3>2. \A j \in 1 .. Len(channel') :
            channel'[j].session = IF j = Len(channel) + 1 THEN next_session ELSE channel[j].session
      BY SMTT(30), <2>2, <3>1
    <3>3. \A i \in 1 .. Len(channel') : channel'[i].session \in input_session .. next_session
      BY <3>1, <3>2
    <3>4. ASSUME NEW i \in 1 .. Len(channel'), NEW j \in 1 .. Len(channel'), i <= j
          PROVE  channel'[i].session <= channel'[j].session
      <4>1. CASE j = Len(channel) + 1
        BY <3>2, <3>3, <4>1
      <4>2. CASE j # Len(channel) + 1
        <5>1. i \in 1 .. Len(channel) /\ j \in 1 .. Len(channel)
          BY <3>1, <3>4, <4>2
        <5>2. channel[i].session <= channel[j].session
          BY <3>4, <5>1
        <5>3. channel'[i] = channel[i] /\ channel'[j] = channel[j]
          BY <3>1, <5>1
        <5> QED BY <5>2, <5>3
      <4> QED BY <4>1, <4>2
    <3>5. \A i \in 1 .. Len(batch), j \in 1 .. Len(channel') :
            batch[i].session <= channel'[j].session
      BY <1>t, <3>1, <3>2
    <3> QED BY <2>1, <3>3, <3>4, <3>5
  <2> QED BY <1>2, <2>3, <2>4 DEF Send
<1>3. CASE Recv
  <2>1. /\ channel # <<>> /\ channel' = Tail(channel) /\ batch' = Append(batch, Head(channel))
        /\ UNCHANGED <<input_session, next_session>>
    BY <1>3 DEF Recv
  <2>2. /\ Len(channel') = Len(channel) - 1 /\ Len(batch') = Len(batch) + 1
        /\ batch'[Len(batch) + 1] = channel[1]
        /\ \A i \in 1 .. Len(batch) : batch'[i] = batch[i]
        /\ \A i \in 1 .. Len(channel') : channel'[i] = channel[i + 1]
    BY <2>1
  <2> QED BY <1>t, <2>1, <2>2
<1>4. CASE ApplySkipped \/ ApplyInput
  <2>1. /\ batch # <<>> /\ batch' = Tail(batch) /\ UNCHANGED <<channel, next_session>>
        /\ input_session' \in {0, input_session, batch[1].session}
    BY <1>4 DEF ApplySkipped, ApplyInput
  <2>2. /\ Len(batch') = Len(batch) - 1
        /\ \A i \in 1 .. Len(batch') : batch'[i] = batch[i + 1]
    BY <2>1
  <2> QED BY <1>t, <2>1, <2>2
<1>5. CASE /\ UNCHANGED <<channel, batch, next_session>>
           /\ input_session' \in {0, input_session}
  BY <1>5
<1>6. CASE SubmitPause \/ SubmitCancel \/ SubmitQueued \/ EnqueueCheck \/ Reserve
  BY <1>5, <1>6 DEF SubmitPause, SubmitCancel, SubmitQueued, EnqueueCheck, Reserve
<1>7. CASE Notify \/ CancelRejected \/ Return
  BY <1>5, <1>7 DEF Notify, CancelRejected, Return
<1>8. CASE PollPauseRequest \/ PollPause \/ PollSession
  BY <1>5, <1>8 DEF PollPauseRequest, PollPause, PollSession, CompleteSwitch, KeepSession
<1>9. CASE Take \/ Release \/ RecvDone \/ ApplyDone
  BY <1>5, <1>9 DEF Take, Release, RecvDone, ApplyDone
<1>10. CASE BackgroundWaits \/ BackgroundCompletes \/ BackgroundFails
  BY <1>5, <1>10 DEF BackgroundWaits, BackgroundCompletes, BackgroundFails, CompleteSwitch
<1>11. CASE SuspendDrain \/ Close \/ ResetCancels \/ UNCHANGED vars
  BY <1>5, <1>11 DEF SuspendDrain, DrainQueue, Close, ResetCancels, vars
<1> QED BY <1>1, <1>2, <1>3, <1>4, <1>6, <1>7, <1>8, <1>9, <1>10, <1>11
        DEF Next, HookStep, UITurn

\* The UI never returns to an earlier gesture, nor to one it has completed.
THEOREM SessionsAdvance == Spec => SessionsOnlyAdvance
<1>1. Init => Newest /\ Ordered
  BY DEF Init, Newest, Submitting, Ordered
<1>2. Inv /\ Newest /\ Ordered /\ [Next]_vars => Newest' /\ Ordered'
  BY NewestStep, OrderStep DEF Inv
<1>3. ASSUME Inv, Ordered, [Next]_vars, input_session' # input_session, input_session' # 0
      PROVE  input_session' > input_session /\ input_session' > acknowledged
  <2>1. ApplyInput
    BY <1>3 DEF Next, HookStep, UITurn, HookSubmits, Submit, SubmitPause, SubmitCancel,
         SubmitQueued, EnqueueCheck, Reserve, Send, Notify, CancelRejected, Return,
         PollPauseRequest, PollPause, PollSession, CompleteSwitch, KeepSession, Take, Recv,
         Release, RecvDone, ApplySkipped, ApplyDone, BackgroundWaits, BackgroundCompletes,
         BackgroundFails, SuspendDrain, DrainQueue, Close, ResetCancels, vars, uiVars
  <2>2. /\ batch # <<>> /\ input_session' = batch[1].session
        /\ batch[1].session > acknowledged
    BY <1>3, <2>1 DEF ApplyInput, MayApply, Permits
  <2>3. batch[1].session \in input_session .. next_session
    BY <1>3, <2>2 DEF Inv, Queue, Ordered
  <2> QED BY <1>3, <2>2, <2>3 DEF Inv, Counters
<1>4. Inv /\ Ordered /\ [Next]_vars =>
        [input_session' # input_session /\ input_session' # 0 =>
           input_session' > input_session /\ input_session' > acknowledged]_vars
  BY <1>3
<1> QED BY Invariance, <1>1, <1>2, <1>4, PTL DEF Spec, SessionsOnlyAdvance

\* The queue is what its counter says, in every interleaving and for every
\* capacity.
THEOREM QueueSound == Spec => []QueueIsSound
BY TypeCorrect, CounterExact, SendNeverFails, PTL DEF QueueIsSound

-------------------------------------------------------------------------------
(* The recogniser: what one decision may do.                               *)

USE HotkeysAssumption, KindsAssumption, DirectionsAssumption

MachineFields ==
  {"hotkeys", "pressed", "consumed", "active", "next_session", "injected_control"}
GestureFields == {"session", "kind", "modifier", "finishing", "sticky"}

\* A gesture in progress is the newest one, of a kind that is bound.
IsGesture(g, n) ==
  DOMAIN g = GestureFields /\ g.session = n /\ n # 0 /\ g.kind \in Kinds

IsMachine(m, n) ==
  /\ DOMAIN m = MachineFields /\ m.hotkeys = Hotkeys /\ m.next_session = n
  /\ m.pressed \subseteq Keys
  /\ m.active = NoGesture \/ IsGesture(m.active, n)

Idle(m) == m.active = NoGesture

\* What a decision taken in machine m leaves: nothing to submit, and a gesture
\* that is dropped only before its end and when no number is left for the next;
\* the command to pause; an event of the gesture, which had not sent its last; or the first
\* event of the next gesture.
Nothing(n, m, d) ==
  /\ d.event = NoEvent /\ IsMachine(d.machine, n)
  /\ ~Idle(d.machine) => ~Idle(m) /\ d.machine.active.finishing = m.active.finishing
  /\ Idle(d.machine) => Idle(m) \/ (n = MaxSession /\ ~m.active.finishing)

Pauses(n, m, d) ==
  d.event = [session |-> 0, action |-> TogglePause] /\ d.machine = m

IsLast(action) == action.type \in {"Finish", "Cancel"}

Continues(n, m, d) ==
  /\ ~Idle(m) /\ ~m.active.finishing
  /\ IsMachine(d.machine, n) /\ ~Idle(d.machine)
  /\ DOMAIN d.event = {"session", "action"} /\ d.event \in InputEvent
  /\ d.event.session = n
  /\ IsLast(d.event.action) => d.machine.active.finishing

Opens(n, m, d) ==
  /\ ~Idle(m) => ~m.active.finishing
  /\ n < MaxSession /\ IsMachine(d.machine, n + 1) /\ ~Idle(d.machine)
  /\ d.event \in InputEvent /\ d.event.session = n + 1 /\ d.event.action.type = "Cycle"

Decided(n, m, d) ==
  \/ Nothing(n, m, d) \/ Pauses(n, m, d) \/ Continues(n, m, d) \/ Opens(n, m, d)

\* Whether a gesture is in progress is told by its session.
LEMMA Activity ==
  ASSUME NEW m, NEW n, IsMachine(m, n)
  PROVE  (Active(m) <=> ~Idle(m)) /\ (~Idle(m) => IsGesture(m.active, n) /\ Active(m))
BY DEF IsMachine, Active, Idle, NoGesture, IsGesture

\* An event of a gesture is one the queue carries.
LEMMA GestureEvent ==
  ASSUME NEW n \in Sessions, NEW m, m.active.session = n, NEW action \in SessionAction
  PROVE  /\ EventOf(m, action) \in InputEvent /\ EventOf(m, action).session = n
         /\ EventOf(m, action).action = action
BY DEF EventOf, InputEvent

\* Marking the gesture as over changes nothing else.
LEMMA MarkingTheEnd ==
  ASSUME NEW m, NEW n, IsMachine(m, n), ~Idle(m)
  PROVE  /\ IsMachine(Finishing(m), n) /\ ~Idle(Finishing(m))
         /\ Finishing(m).active.finishing /\ Finishing(m).active.session = n
<1> DEFINE f == Finishing(m)
<1>1. /\ DOMAIN f = MachineFields /\ f.hotkeys = m.hotkeys /\ f.next_session = m.next_session
      /\ f.pressed = m.pressed /\ f.active = [m.active EXCEPT !.finishing = TRUE]
  BY DEF IsMachine, Finishing, MachineFields
<1>2. /\ IsGesture(m.active, n) /\ DOMAIN f.active = GestureFields /\ f.active.session = n
      /\ f.active.kind = m.active.kind /\ f.active.finishing = TRUE
  BY <1>1, Activity DEF IsGesture, GestureFields
<1> HIDE DEF f
<1>3. f.active # NoGesture
  BY <1>2 DEF NoGesture, IsGesture
<1> QED BY <1>1, <1>2, <1>3 DEF IsMachine, IsGesture, Idle, f

\* An event that ends the gesture marks it, an event in its middle need not.
LEMMA Continuing ==
  ASSUME NEW n \in Sessions, NEW m, IsMachine(m, n), ~Idle(m), ~m.active.finishing,
         NEW action \in SessionAction, NEW after, IsMachine(after, n), ~Idle(after),
         IsLast(action) => after.active.finishing, NEW consume, NEW d,
         d = Decision(after, consume, EventOf(m, action))
  PROVE  Decided(n, m, d)
<1>1. m.active.session = n
  BY DEF IsMachine, IsGesture, Idle
<1>2. /\ EventOf(m, action) \in InputEvent /\ EventOf(m, action).session = n
      /\ EventOf(m, action).action = action
  BY <1>1, GestureEvent
<1>3. d.machine = after /\ d.event = EventOf(m, action)
  BY DEF Decision
<1>4. DOMAIN d.event = {"session", "action"}
  BY <1>3 DEF EventOf
<1> QED BY <1>2, <1>3, <1>4 DEF Decided, Continues

\* A decision that changes nothing of the gesture is none.
LEMMA Passing ==
  ASSUME NEW n, NEW m, IsMachine(m, n), NEW d, d.event = NoEvent, IsMachine(d.machine, n),
         d.machine.active = m.active
  PROVE  Decided(n, m, d)
BY DEF Decided, Nothing, Idle

\* A Cycle, in the direction the keys give, is an action the queue carries.
LEMMA CycleAction ==
  ASSUME NEW kind \in Kinds, NEW reverse, reverse \in Directions
  PROVE  Cycle(kind, reverse) \in SessionAction /\ ~IsLast(Cycle(kind, reverse))
BY DEF SessionAction, Cycle, IsLast

\* So is the direction Shift gives.
LEMMA ShiftDirection ==
  ASSUME NEW pressed, pressed \subseteq Keys
  PROVE  (pressed \cap ShiftKeys # {}) \in Directions
<1>1. CASE pressed \cap ShiftKeys # {}
  <2>1. TRUE \in Directions
    BY <1>1
  <2>2. (pressed \cap ShiftKeys # {}) = TRUE
    BY <1>1
  <2> QED BY <2>1, <2>2
<1>2. CASE pressed \cap ShiftKeys = {}
  <2>1. FALSE \in Directions
    OBVIOUS
  <2>2. (pressed \cap ShiftKeys # {}) = FALSE
    BY <1>2
  <2> QED BY <2>1, <2>2
<1> QED BY <1>1, <1>2

\* A gesture that starts takes the next number.
LEMMA Starting ==
  ASSUME NEW n \in 0 .. MaxSession, NEW m, IsMachine(m, n), n # MaxSession,
         NEW kind \in Kinds, NEW modifier, NEW s, s = StartGesture(m, kind, modifier)
  PROVE  IsMachine(s, n + 1) /\ ~Idle(s) /\ s.pressed = m.pressed /\ s.active.session = n + 1
<1>1. /\ DOMAIN s = MachineFields /\ s.hotkeys = m.hotkeys /\ s.next_session = n + 1
      /\ s.pressed = m.pressed
      /\ s.active = [session |-> n + 1, kind |-> kind, modifier |-> modifier,
                     finishing |-> FALSE, sticky |-> kind = "Search"]
  BY DEF IsMachine, StartGesture, MachineFields
<1>2. IsGesture(s.active, n + 1)
  BY <1>1 DEF IsGesture, GestureFields
<1>3. s.active # NoGesture
  BY <1>2 DEF IsGesture, NoGesture
<1> QED BY <1>1, <1>2, <1>3 DEF IsMachine, Idle, IsGesture

\* The gesture named after what its last key asks for.
Renamed(m, kind, c) == c = [m EXCEPT !.active.kind = kind]

\* Naming it so keeps it.
LEMMA Renaming ==
  ASSUME NEW n, NEW m, IsMachine(m, n), ~Idle(m), NEW kind \in Kinds,
         NEW c, Renamed(m, kind, c)
  PROVE  IsMachine(c, n) /\ ~Idle(c) /\ c.active.session = n
<1>1. /\ DOMAIN c = MachineFields /\ c.hotkeys = m.hotkeys /\ c.next_session = m.next_session
      /\ c.pressed = m.pressed /\ c.active = [m.active EXCEPT !.kind = kind]
  BY DEF IsMachine, MachineFields, Renamed
<1>2. IsGesture(c.active, n)
  BY <1>1, Activity DEF IsGesture, GestureFields
<1>3. c.active # NoGesture
  BY <1>2 DEF IsGesture, NoGesture
<1> QED BY <1>1, <1>2, <1>3 DEF IsMachine, Idle, IsGesture

\* A switch continues its gesture, replaces it, or is passed on.
LEMMA Cycling ==
  ASSUME NEW n \in 0 .. MaxSession, NEW m, IsMachine(m, n), ~m.active.finishing,
         NEW hotkey, KindOf(hotkey) \in Kinds, NEW d, d = CycleWith(m, hotkey)
  PROVE  Decided(n, m, d)
<1> DEFINE kind == KindOf(hotkey)
           kept == IF Replaces(m, kind) THEN [m EXCEPT !.active = NoGesture] ELSE m
           opened == IF Active(kept) THEN kept ELSE StartGesture(kept, kind, hotkey.modifier)
           cycled == [opened EXCEPT !.active.kind = kind]
           reverse == m.pressed \cap ShiftKeys # {}
           action == Cycle(kind, reverse)
           refused == \/ Active(kept) /\ kept.active.modifier # hotkey.modifier
                      \/ ~Active(kept) /\ kept.next_session = MaxSession
<1>1. d = IF refused THEN Pass(kept) ELSE Decision(cycled, TRUE, EventOf(cycled, action))
  BY DEF CycleWith
<1>2. kind \in Kinds /\ action \in SessionAction /\ ~IsLast(action)
  BY ShiftDirection, CycleAction DEF IsMachine
<1>3. IsMachine(kept, n) /\ (kept = m \/ (~Idle(m) /\ Idle(kept)))
  <2>1. CASE Replaces(m, kind)
    <3>1. kept = [m EXCEPT !.active = NoGesture] /\ ~Idle(m)
      BY <2>1, Activity DEF Replaces
    <3> HIDE DEF kept
    <3>2. /\ DOMAIN kept = MachineFields /\ kept.hotkeys = m.hotkeys
          /\ kept.next_session = m.next_session /\ kept.pressed = m.pressed
          /\ kept.active = NoGesture
      BY <3>1 DEF IsMachine, MachineFields
    <3> QED BY <3>1, <3>2 DEF IsMachine, Idle
  <2>2. CASE ~Replaces(m, kind)
    <3>1. kept = m
      BY <2>2
    <3> HIDE DEF kept
    <3> QED BY <3>1
  <2> QED BY <2>1, <2>2
<1>4. Active(kept) <=> ~Idle(kept)
  BY <1>3, Activity
<1>5. kept.next_session = n
  BY <1>3 DEF IsMachine
<1>6. CASE refused
  <2>1. d.machine = kept /\ d.event = NoEvent
    BY <1>1, <1>6 DEF Pass, Decision
  <2>2. Idle(kept) => n = MaxSession
    BY <1>4, <1>5, <1>6
  <2> HIDE DEF kept, refused
  <2>3. kept = m \/ (Idle(kept) /\ n = MaxSession)
    BY <1>3, <2>2
  <2> QED BY <1>3, <2>1, <2>3 DEF Decided, Nothing
<1>7. CASE ~refused
  <2>1. d = Decision(cycled, TRUE, EventOf(cycled, action))
    BY <1>1, <1>7
  <2>2. CASE ~Idle(kept)
    <3>1. opened = m /\ kept = m /\ ~Idle(m) /\ Renamed(m, kind, cycled)
      BY <1>3, <1>4, <2>2 DEF Renamed
    <3> HIDE DEF kept, opened, cycled, refused, action, kind
    <3>2. IsMachine(cycled, n) /\ ~Idle(cycled) /\ cycled.active.session = n
      BY <1>2, <3>1, Renaming
    <3>3. m.active.session = n /\ n \in Sessions
      BY <3>1 DEF IsMachine, IsGesture, Idle, Sessions
    <3>4. d = Decision(cycled, TRUE, EventOf(m, action))
      BY <2>1, <3>2, <3>3 DEF EventOf
    <3> QED BY <1>2, <3>1, <3>2, <3>3, <3>4, Continuing
  <2>3. CASE Idle(kept)
    <3>1. /\ opened = StartGesture(kept, kind, hotkey.modifier) /\ n # MaxSession
          /\ Renamed(opened, kind, cycled)
      BY <1>4, <1>5, <1>7, <2>3 DEF Renamed
    <3> HIDE DEF kept, opened, cycled, refused, action, kind
    <3>2. IsMachine(opened, n + 1) /\ ~Idle(opened)
      BY <1>2, <1>3, <3>1, Starting
    <3>3. IsMachine(cycled, n + 1) /\ ~Idle(cycled) /\ cycled.active.session = n + 1
      BY <1>2, <3>1, <3>2, Renaming
    <3>4. n < MaxSession /\ n + 1 \in Sessions
      <4>1. n # MaxSession
        BY <3>1
      <4> QED BY <4>1 DEF Sessions
    <3>5. /\ EventOf(cycled, action) \in InputEvent /\ EventOf(cycled, action).session = n + 1
          /\ EventOf(cycled, action).action = action
      BY <1>2, <3>3, <3>4, GestureEvent
    <3>6. d.machine = cycled /\ d.event = EventOf(cycled, action)
      BY <2>1 DEF Decision
    <3>7. action.type = "Cycle"
      BY DEF action, Cycle
    <3> QED BY <3>3, <3>4, <3>5, <3>6, <3>7 DEF Decided, Opens
  <2> QED BY <2>2, <2>3
<1> QED BY <1>6, <1>7

\* The keys that move in the panel continue the gesture or end it.
LEMMA Navigating ==
  ASSUME NEW n \in 0 .. MaxSession, NEW m, IsMachine(m, n), ~Idle(m), ~m.active.finishing,
         m.active.kind = "Apps", NEW key \in Keys, NEW d, d = NavigateWith(m, key)
  PROVE  Decided(n, m, d)
<1>1. IsGesture(m.active, n) /\ n \in Sessions /\ "Apps" \in Kinds
  BY Activity DEF IsGesture, Sessions
<1>2. /\ IsMachine(Finishing(m), n) /\ ~Idle(Finishing(m)) /\ Finishing(m).active.finishing
  BY MarkingTheEnd
<1>3. CASE d = Decision(Finishing(m), TRUE, EventOf(m, Cancel))
  <2>1. Cancel \in SessionAction
    BY DEF SessionAction
  <2> QED BY <1>1, <1>2, <1>3, <2>1, Continuing
<1>4. CASE d = Decision(Finishing(m), TRUE, EventOf(m, Finish("Apps")))
  <2>1. Finish("Apps") \in SessionAction
    BY <1>1 DEF SessionAction
  <2> QED BY <1>1, <1>2, <1>4, <2>1, Continuing
<1>5. CASE d = Decision(m, TRUE, EventOf(m, Cycle("Apps", key \in {"up", "left"})))
  <2> DEFINE reverse == key \in {"up", "left"}
  <2>1. reverse \in Directions
    <3>1. CASE key \in {"up", "left"}
      <4>1. TRUE \in Directions /\ reverse = TRUE
        BY <3>1
      <4> QED BY <4>1
    <3>2. CASE ~(key \in {"up", "left"})
      <4>1. FALSE \in Directions
        OBVIOUS
      <4>2. reverse = FALSE
        BY <3>2
      <4> QED BY <4>1, <4>2
    <3> QED BY <3>1, <3>2
  <2> HIDE DEF reverse
  <2> DEFINE action == Cycle("Apps", reverse)
  <2>2. action \in SessionAction /\ ~IsLast(action)
    BY <1>1, <2>1, CycleAction
  <2>3. d = Decision(m, TRUE, EventOf(m, action))
    BY <1>5 DEF reverse
  <2> HIDE DEF action
  <2> QED BY <1>1, <2>2, <2>3, Continuing
<1>6. CASE d = Pass(m)
  BY <1>6, Passing DEF Pass, Decision
<1> QED BY <1>3, <1>4, <1>5, <1>6 DEF NavigateWith

\* The binding that wins is one that is configured, and of a kind that is bound.
LEMMA Winning ==
  ASSUME NEW n, NEW m, IsMachine(m, n), NEW key, NEW permissions,
         Triggered(m, key, permissions) # {}
  PROVE  KindOf(First(m, Triggered(m, key, permissions))) \in Kinds
<1> DEFINE T == Triggered(m, key, permissions)
<1>1. m.hotkeys = Hotkeys /\ DOMAIN Hotkeys \subseteq Nat
  BY HotkeysAssumption DEF IsMachine
<1>2. T \subseteq DOMAIN Hotkeys
  BY <1>1 DEF Triggered
<1>3. \A i \in T : Hotkeys[i].id \in {"apps", "search", "windows"}
  BY <1>1 DEF Triggered
<1> HIDE DEF T
<1>4. T \in SUBSET Nat /\ T # {}
  BY <1>1, <1>2 DEF T
<1>5. \E i \in T : \A j \in T : i <= j
  BY <1>4, Least
<1> DEFINE first == CHOOSE i \in T : \A j \in T : i <= j
<1>6. first \in T
  BY <1>5
<1>7. First(m, T) = Hotkeys[first]
  BY <1>1 DEF First
<1> HIDE DEF first
<1>8. KindOf(Hotkeys[first]) \in Kinds
  BY <1>2, <1>3, <1>6, HotkeysAssumption
<1> QED BY <1>7, <1>8 DEF T

\* Whatever the key and whatever is permitted, a decision is one of the four.
LEMMA Deciding ==
  ASSUME NEW n \in 0 .. MaxSession, NEW m, IsMachine(m, n), NEW key \in Keys, NEW down,
         NEW repeated, NEW permissions, NEW d, d = Decide(m, key, down, repeated, permissions)
  PROVE  Decided(n, m, d)
<1>1. \/ d = Decision(m, TRUE, IF repeated THEN NoEvent
                               ELSE [session |-> 0, action |-> TogglePause])
      \/ Denied(m, permissions) /\ d = Decision(Finishing(m), FALSE, EventOf(m, Cancel))
      \/ Released(m) /\ d = Decision(Finishing(m), FALSE, EventOf(m, Finish(m.active.kind)))
      \/ d = Decision([m EXCEPT !.consumed = @ \ {key}], key \in m.consumed, NoEvent)
      \/ d = Pass(m)
      \/ d = Decision(m, TRUE, NoEvent)
      \/ /\ ~m.active.finishing /\ OpensDetails(m, key, permissions)
         /\ d = Decision([m EXCEPT !.active.sticky = TRUE], TRUE,
                         IF repeated THEN NoEvent ELSE EventOf(m, ShowDetails))
      \/ /\ ~m.active.finishing /\ Triggered(m, key, permissions) # {}
         /\ d = CycleWith(m, First(m, Triggered(m, key, permissions)))
      \/ /\ ~m.active.finishing /\ PanelKey(m, key, permissions)
         /\ d = NavigateWith(m, key)
  BY Zenon DEF Decide
<1>2. CASE d = Decision(m, TRUE, IF repeated THEN NoEvent
                                 ELSE [session |-> 0, action |-> TogglePause])
  <2>1. CASE repeated
    BY <1>2, <2>1, Passing DEF Decision
  <2>2. CASE ~repeated
    BY <1>2, <2>2 DEF Decision, Decided, Pauses
  <2> QED BY <2>1, <2>2
<1>3. CASE Denied(m, permissions) /\ d = Decision(Finishing(m), FALSE, EventOf(m, Cancel))
  <2>1. ~Idle(m) /\ ~m.active.finishing /\ n \in Sessions
    BY <1>3, Activity DEF Denied, IsGesture, Sessions
  <2>2. IsMachine(Finishing(m), n) /\ ~Idle(Finishing(m)) /\ Finishing(m).active.finishing
    BY <2>1, MarkingTheEnd
  <2>3. Cancel \in SessionAction
    BY DEF SessionAction
  <2> QED BY <1>3, <2>1, <2>2, <2>3, Continuing
<1>4. CASE Released(m) /\ d = Decision(Finishing(m), FALSE, EventOf(m, Finish(m.active.kind)))
  <2>1. ~Idle(m) /\ ~m.active.finishing /\ n \in Sessions /\ m.active.kind \in Kinds
    BY <1>4, Activity DEF Released, IsGesture, Sessions
  <2>2. IsMachine(Finishing(m), n) /\ ~Idle(Finishing(m)) /\ Finishing(m).active.finishing
    BY <2>1, MarkingTheEnd
  <2>3. Finish(m.active.kind) \in SessionAction
    BY <2>1 DEF SessionAction
  <2> QED BY <1>4, <2>1, <2>2, <2>3, Continuing
<1>5. CASE d = Decision([m EXCEPT !.consumed = @ \ {key}], key \in m.consumed, NoEvent)
  <2>1. d.event = NoEvent /\ d.machine = [m EXCEPT !.consumed = @ \ {key}]
    BY <1>5 DEF Decision
  <2>2. /\ DOMAIN d.machine = MachineFields /\ d.machine.hotkeys = m.hotkeys
        /\ d.machine.next_session = m.next_session /\ d.machine.pressed = m.pressed
        /\ d.machine.active = m.active
    BY <2>1 DEF IsMachine, MachineFields
  <2> QED BY <2>1, <2>2, Passing DEF IsMachine
<1>6. CASE d = Pass(m) \/ d = Decision(m, TRUE, NoEvent)
  BY <1>6, Passing DEF Pass, Decision
<1>7. CASE /\ ~m.active.finishing /\ OpensDetails(m, key, permissions)
           /\ d = Decision([m EXCEPT !.active.sticky = TRUE], TRUE,
                           IF repeated THEN NoEvent ELSE EventOf(m, ShowDetails))
  <2> DEFINE s == [m EXCEPT !.active.sticky = TRUE]
  <2>1. IsGesture(m.active, n) /\ ~Idle(m) /\ n \in Sessions
    BY <1>7, Activity DEF OpensDetails, IsGesture, Sessions
  <2>2. /\ DOMAIN s = MachineFields /\ s.hotkeys = m.hotkeys /\ s.next_session = m.next_session
        /\ s.pressed = m.pressed /\ s.active = [m.active EXCEPT !.sticky = TRUE]
    BY DEF IsMachine, MachineFields
  <2>3. d = Decision(s, TRUE, IF repeated THEN NoEvent ELSE EventOf(m, ShowDetails))
    BY <1>7
  <2> HIDE DEF s
  <2>4. /\ DOMAIN s.active = GestureFields /\ s.active.session = n
        /\ s.active.kind = m.active.kind /\ s.active.finishing = m.active.finishing
    BY <2>1, <2>2 DEF IsGesture, GestureFields
  <2>5. IsMachine(s, n) /\ ~Idle(s)
    BY <2>1, <2>2, <2>4 DEF IsMachine, IsGesture, Idle, NoGesture
  <2>6. CASE repeated
    <3>1. d.event = NoEvent /\ d.machine = s
      BY <2>3, <2>6 DEF Decision
    <3> QED BY <2>1, <2>4, <2>5, <3>1 DEF Decided, Nothing
  <2>7. CASE ~repeated
    <3>1. d = Decision(s, TRUE, EventOf(m, ShowDetails))
      BY <2>3, <2>7
    <3>2. ShowDetails \in SessionAction /\ ~IsLast(ShowDetails)
      BY DEF SessionAction, IsLast, ShowDetails
    <3> QED BY <1>7, <2>1, <2>5, <3>1, <3>2, Continuing
  <2> QED BY <2>6, <2>7
<1>8. CASE /\ ~m.active.finishing /\ Triggered(m, key, permissions) # {}
           /\ d = CycleWith(m, First(m, Triggered(m, key, permissions)))
  <2> DEFINE hotkey == First(m, Triggered(m, key, permissions))
  <2>1. KindOf(hotkey) \in Kinds /\ d = CycleWith(m, hotkey)
    BY <1>8, Winning
  <2> HIDE DEF hotkey
  <2> QED BY <1>8, <2>1, Cycling
<1>9. CASE ~m.active.finishing /\ PanelKey(m, key, permissions) /\ d = NavigateWith(m, key)
  <2>1. ~Idle(m) /\ m.active.kind = "Apps"
    BY <1>9, Activity DEF PanelKey
  <2> QED BY <1>9, <2>1, Navigating
<1> QED BY <1>1, <1>2, <1>3, <1>4, <1>5, <1>6, <1>7, <1>8, <1>9

\* Before it decides, the recogniser drops a gesture the UI has ended, and
\* notes the key.
LEMMA Observing ==
  ASSUME NEW n, NEW m, IsMachine(m, n), NEW key \in Keys, NEW down, NEW ack, NEW rev,
         NEW o, o = Observe(DropEnded(m, ack, rev), key, down)
  PROVE  /\ IsMachine(o, n)
         /\ ~Idle(o) => o.active = m.active
         /\ Idle(o) => Idle(m) \/ n <= ack \/ n <= rev
<1> DEFINE k == DropEnded(m, ack, rev)
<1>1. /\ IsMachine(k, n) /\ (~Idle(k) => k.active = m.active)
      /\ Idle(k) => Idle(m) \/ n <= ack \/ n <= rev
  <2>1. CASE m.active.session <= rev \/ m.active.session <= ack
    <3>1. k = [m EXCEPT !.active = NoGesture]
      BY <2>1 DEF DropEnded
    <3> HIDE DEF k
    <3>2. /\ DOMAIN k = MachineFields /\ k.hotkeys = m.hotkeys
          /\ k.next_session = m.next_session /\ k.pressed = m.pressed /\ k.active = NoGesture
      BY <3>1 DEF IsMachine, MachineFields
    <3>3. ~Idle(m) => m.active.session = n
      BY DEF IsMachine, IsGesture, Idle
    <3> QED BY <2>1, <3>2, <3>3 DEF IsMachine, Idle
  <2>2. CASE ~(m.active.session <= rev \/ m.active.session <= ack)
    <3>1. k = m
      BY <2>2 DEF DropEnded
    <3> HIDE DEF k
    <3> QED BY <3>1
  <2> QED BY <2>1, <2>2
<1> HIDE DEF k
<1>2. o = [k EXCEPT !.pressed = IF down THEN @ \cup {key} ELSE @ \ {key}]
  BY DEF Observe, k
<1>3. /\ DOMAIN o = MachineFields /\ o.hotkeys = k.hotkeys /\ o.next_session = k.next_session
      /\ o.active = k.active /\ o.pressed \subseteq k.pressed \cup {key}
  BY <1>1, <1>2 DEF IsMachine, MachineFields
<1> QED BY <1>1, <1>3 DEF IsMachine, Idle

\* The decision on a key event, from the machine as it was before it: a gesture
\* is dropped only when it is over or no number is left, and one that has sent
\* its last event sends no other.
LEMMA Handling ==
  ASSUME NEW n \in 0 .. MaxSession, NEW m, IsMachine(m, n), NEW key \in Keys, NEW down,
         NEW permissions, NEW ack, NEW rev,
         NEW d, d = Handle(m, key, down, permissions, ack, rev)
  PROVE  \E o : /\ IsMachine(o, n) /\ (~Idle(o) => o.active = m.active)
                /\ Idle(o) => Idle(m) \/ n <= ack \/ n <= rev
                /\ Decided(n, o, d)
<1> DEFINE o == Observe(DropEnded(m, ack, rev), key, down)
           repeated == key \in m.pressed
<1>1. d = Decide(o, key, down, repeated, permissions)
  BY DEF Handle
<1> HIDE DEF o, repeated
<1>2. /\ IsMachine(o, n) /\ (~Idle(o) => o.active = m.active)
      /\ Idle(o) => Idle(m) \/ n <= ack \/ n <= rev
  BY Observing DEF o
<1>3. Decided(n, o, d)
  BY <1>1, <1>2, Deciding
<1> QED BY <1>2, <1>3

-------------------------------------------------------------------------------
(* The hook that drives the queue.                                          *)

\* What is submitted besides the command to pause is of the newest session; a
\* refusal ends it, unless the target is closed.
Submission ==
  /\ hook \in {"check", "reserve", "send", "notify", "cancel"} => event.action # TogglePause
  /\ hook # "idle" =>
       key_input.key \in Keys /\ (event.action # TogglePause => event.session = next_session)
  /\ hook = "rejected" =>
       ~live \/ (event.action # TogglePause /\ event.session <= revoked)

\* Without a gesture the newest session is over; or it is the last there is, and
\* was dropped before its end.
Over(s) == s <= acknowledged \/ s <= revoked
Dropped == next_session = MaxSession /\ ended # MaxSession
NoneLeftOpen == live /\ Idle(machine) => Over(next_session) \/ Dropped

\* While input is off no callback is inside submit and no gesture in progress.
Quiet == ~InputActive => hook = "idle" /\ Idle(machine)

\* The gesture whose last event was submitted is marked.
Endings ==
  /\ ended \in 0 .. next_session
  /\ ~Idle(machine) /\ ended = next_session => machine.active.finishing

\* Another gesture follows it only when its session is over.
EndedOver == live => ended = next_session \/ Over(ended)

\* A Finish on its way is the last event of its session, and so is one that the
\* UI has applied.
IsFinish(e) == e.action.type = "Finish"
FinishesKnown ==
  /\ \A i \in 1 .. Len(channel) : IsFinish(channel[i]) => channel[i].session <= ended
  /\ \A i \in 1 .. Len(batch) : IsFinish(batch[i]) => batch[i].session <= ended
  /\ hook # "idle" /\ IsFinish(event) => event.session <= ended
  /\ finishing => input_session <= ended

HookInv ==
  /\ Inv /\ IsMachine(machine, next_session) /\ held \subseteq Keys
  /\ Submission /\ NoneLeftOpen /\ Quiet /\ Endings /\ EndedOver /\ FinishesKnown

\* Only the command to pause belongs to no session.
LEMMA Commands ==
  /\ \A e \in InputEvent : e.session \in 0 .. MaxSession /\ (e.action = TogglePause <=> e.session = 0)
  /\ ~IsLast(TogglePause)
  /\ [session |-> 0, action |-> TogglePause] \in InputEvent
<1>1. \A a \in SessionAction : a.type # "TogglePause"
  BY DEF SessionAction, Cycle, Finish, Cancel, ShowDetails
<1>2. TogglePause.type = "TogglePause"
  BY DEF TogglePause
<1>3. TogglePause \notin SessionAction
  BY <1>1, <1>2
<1>4. ~IsLast(TogglePause)
  BY <1>2 DEF IsLast
<1>5. ASSUME NEW e \in InputEvent
      PROVE  e.session \in 0 .. MaxSession /\ (e.action = TogglePause <=> e.session = 0)
  BY <1>3 DEF InputEvent, Sessions
<1>6. [session |-> 0, action |-> TogglePause] \in InputEvent
  BY DEF InputEvent
<1> QED BY <1>4, <1>5, <1>6

\* The marks only move forward, and a closed target stays closed.
LEMMA MarksAdvance ==
  Inv /\ [Next]_vars => /\ acknowledged' >= acknowledged /\ revoked' >= revoked
                        /\ live' => live
<1> SUFFICES ASSUME Inv, [Next]_vars
             PROVE  acknowledged' >= acknowledged /\ revoked' >= revoked /\ (live' => live)
  OBVIOUS
<1>1. /\ acknowledged \in Nat /\ revoked \in Nat /\ next_session \in Nat /\ input_session \in Nat
      /\ event.session \in Nat
      /\ \A i \in 1 .. Len(batch) : batch[i].session \in Nat
  <2>1. \A e \in InputEvent \cup {NoEvent} : e.session \in Nat
    BY EventSession
  <2> QED BY <2>1 DEF Inv, Counters, Control, Queue
<1> USE DEF shared, marks, hookVars, uiVars, Larger
<1>2. CASE \E e \in InputEvent : HookSubmits(e)
  BY <1>1, <1>2 DEF HookSubmits, Submit
<1>3. CASE HookStep
  BY <1>1, <1>3 DEF HookStep, SubmitPause, SubmitCancel, SubmitQueued, EnqueueCheck, Reserve,
              Send, Notify, CancelRejected, Return
<1>4. CASE PollPauseRequest \/ PollPause \/ PollSession
  <2>1. /\ acknowledged' \in {acknowledged, Larger(acknowledged, input_session)}
        /\ revoked' = revoked /\ live' = live
    BY <1>4 DEF PollPauseRequest, PollPause, PollSession, CompleteSwitch, KeepSession
  <2> QED BY <1>1, <2>1
<1>5. CASE Take \/ Recv \/ Release \/ RecvDone \/ ApplyDone
  BY <1>1, <1>5 DEF Take, Recv, Release, RecvDone, ApplyDone
<1>6. CASE ApplySkipped \/ ApplyInput
  <2>1. batch # <<>> /\ Head(batch) = batch[1] /\ 1 \in 1 .. Len(batch)
    BY <1>6 DEF ApplySkipped, ApplyInput, Inv, Queue
  <2> DEFINE s == Head(batch).session
  <2>2. s \in Nat
    BY <1>1, <2>1
  <2>3. /\ acknowledged' \in {acknowledged, Larger(acknowledged, s)}
        /\ revoked' \in {revoked, Larger(revoked, s)} /\ live' = live
    BY <1>6 DEF ApplySkipped, ApplyInput
  <2> HIDE DEF s
  <2> QED BY <1>1, <2>2, <2>3
<1>7. CASE BackgroundWaits \/ BackgroundCompletes \/ BackgroundFails
  BY <1>1, <1>7 DEF BackgroundWaits, BackgroundCompletes, BackgroundFails, CompleteSwitch
<1>8. CASE SuspendDrain \/ Close \/ ResetCancels \/ UNCHANGED vars
  BY <1>1, <1>8 DEF SuspendDrain, DrainQueue, Close, ResetCancels, vars
<1> QED BY <1>2, <1>3, <1>4, <1>5, <1>6, <1>7, <1>8 DEF Next, UITurn

\* The UI thread leaves the hook's submission alone.
LEMMA UIKeepsHook ==
  UITurn \/ Close \/ DrainQueue => UNCHANGED <<hook, event, next_session>>
BY DEF UITurn, PollPauseRequest, PollPause, PollSession, Take, Recv, Release, RecvDone,
       ApplySkipped, ApplyInput, ApplyDone, BackgroundWaits, BackgroundCompletes,
       BackgroundFails, Close, DrainQueue, hookVars

\* What a key event submits is what the open submitting thread may submit, and
\* nothing of a session that has had its last event.
LEMMA WhatIsSubmitted ==
  ASSUME HookInv, NEW key \in Keys, NEW down, NEW permissions, NEW d,
         d = Handle(machine, key, down, permissions, acknowledged, revoked), d.event # NoEvent,
         NEW last, last = Larger(next_session, d.event.session),
         NEW end, end = IF d.event.action.type \in {"Finish", "Cancel"} THEN d.event.session
                                                                       ELSE ended
  PROVE  /\ d.event \in InputEvent
         /\ \/ d.event.session = next_session
            \/ d.event.session = next_session + 1 /\ d.event.action.type = "Cycle"
            \/ d.event.action = TogglePause
         /\ d.event.action # TogglePause => d.event.session = last
         /\ d.event.session > 0 => d.event.session > ended
         /\ last \in 0 .. MaxSession /\ last >= next_session
         /\ IsMachine(d.machine, last)
         /\ Idle(d.machine) =>
              last = next_session /\ end = ended /\ (~Idle(machine) => Over(next_session))
         /\ end \in 0 .. last /\ end >= ended
         /\ live => end = last \/ Over(end)
         /\ IsFinish(d.event) => d.event.session <= end
         /\ ~Idle(d.machine) /\ end = last => d.machine.active.finishing
<1> DEFINE n == next_session
<1>1. n \in 0 .. MaxSession /\ IsMachine(machine, n)
  BY DEF HookInv, Inv, Counters
<1>2. PICK o : /\ IsMachine(o, n) /\ (~Idle(o) => o.active = machine.active)
               /\ Idle(o) => Idle(machine) \/ n <= acknowledged \/ n <= revoked
               /\ Decided(n, o, d)
  BY <1>1, Handling
<1>3. /\ ended \in 0 .. n /\ (~Idle(machine) /\ ended = n => machine.active.finishing)
      /\ live => ended = n \/ Over(ended)
      /\ live /\ Idle(machine) /\ ended = n => Over(n)
  BY <1>1 DEF HookInv, Endings, EndedOver, NoneLeftOpen, Dropped
<1>4. ~Idle(o) => ~Idle(machine) /\ o.active.finishing = machine.active.finishing
  BY <1>2 DEF Idle
<1>5. /\ d.event.action.type \in {"Finish", "Cancel"} <=> IsLast(d.event.action)
      /\ IsFinish(d.event) => IsLast(d.event.action) /\ end = d.event.session
  BY DEF IsLast, IsFinish
<1> HIDE DEF n
<1>6. CASE Pauses(n, o, d)
  <2>1. d.event.session = 0 /\ d.event.action = TogglePause /\ d.machine = o
    BY <1>6 DEF Pauses
  <2>2. last = n /\ end = ended /\ d.event \in InputEvent
    BY <1>1, <1>5, <1>6, <2>1, Commands DEF Larger, Pauses, n
  <2>3. Idle(o) => (~Idle(machine) => Over(n))
    BY <1>2 DEF Over, n
  <2>4. ~Idle(o) /\ end = last => o.active.finishing
    BY <1>3, <1>4, <2>2
  <2>5. ~IsFinish(d.event)
    BY <1>5, <2>1, Commands
  <2> QED BY <1>1, <1>2, <1>3, <2>1, <2>2, <2>3, <2>4, <2>5 DEF n
<1>7. CASE Continues(n, o, d)
  <2>1. /\ d.event \in InputEvent /\ d.event.session = n /\ IsMachine(d.machine, n)
        /\ ~Idle(d.machine) /\ ~Idle(o) /\ ~o.active.finishing
        /\ IsLast(d.event.action) => d.machine.active.finishing
    BY <1>7 DEF Continues
  <2>2. last = n /\ end \in {n, ended} /\ (end = n => IsLast(d.event.action) \/ ended = n)
    BY <1>1, <1>5, <2>1 DEF Larger, n
  <2>3. ended # n
    BY <1>3, <1>4, <2>1
  <2>4. end \in 0 .. last /\ (end = last => d.machine.active.finishing) /\ n > ended
    BY <1>1, <1>3, <2>1, <2>2, <2>3
  <2>5. (live => end = last \/ Over(end)) /\ (IsFinish(d.event) => d.event.session <= end)
    BY <1>1, <1>3, <1>5, <2>1, <2>2, <2>3
  <2> QED BY <1>1, <1>3, <2>1, <2>2, <2>4, <2>5 DEF n
<1>8. CASE Opens(n, o, d)
  <2>1. /\ d.event \in InputEvent /\ d.event.session = n + 1 /\ IsMachine(d.machine, n + 1)
        /\ ~Idle(d.machine) /\ n < MaxSession /\ d.event.action.type = "Cycle"
        /\ ~Idle(o) => ~o.active.finishing
    BY <1>8 DEF Opens
  <2>2. last = n + 1 /\ end = ended
    BY <1>1, <2>1 DEF Larger, n
  <2>3. live => Over(end)
    <3>1. CASE Idle(o)
      BY <1>2, <1>3, <2>2, <3>1 DEF Over
    <3>2. CASE ~Idle(o)
      BY <1>3, <1>4, <2>1, <2>2, <3>2
    <3> QED BY <3>1, <3>2
  <2>4. ~IsFinish(d.event)
    BY <2>1 DEF IsFinish
  <2> QED BY <1>1, <1>3, <2>1, <2>2, <2>3, <2>4 DEF n
<1>9. ~Nothing(n, o, d)
  BY DEF Nothing
<1> QED BY <1>2, <1>6, <1>7, <1>8, <1>9 DEF Decided

\* Every step of the hook and of the UI is a step of InputDispatch or leaves
\* its variables alone; an acknowledged deactivation finds the gestures over.
LEMMA HookRefines == HookInv /\ [HookNext]_allVars => [Next]_vars
<1> SUFFICES ASSUME HookInv, [HookNext]_allVars PROVE [Next]_vars
  OBVIOUS
<1>1. CASE KeyEvent
  <2>1. PICK key \in Keys, down \in BOOLEAN :
          \/ KeyForwarded(key, down)
          \/ \E f \in Foregrounds : KeyDecided(key, down, Granted(f)) \/ KeySubmitted(key, down, Granted(f))
    BY <1>1 DEF KeyEvent
  <2>2. CASE KeyForwarded(key, down)
    BY <2>2 DEF KeyForwarded
  <2>3. ASSUME NEW f \in Foregrounds, KeyDecided(key, down, Granted(f)) PROVE UNCHANGED vars
    BY <2>3 DEF KeyDecided
  <2>4. ASSUME NEW f \in Foregrounds, KeySubmitted(key, down, Granted(f)) PROVE Next
    <3> DEFINE d == Handle(machine, key, down, Granted(f), acknowledged, revoked)
    <3>1. d.event # NoEvent /\ Submit(d.event)
      BY <2>4 DEF KeySubmitted
    <3>2. d.event \in InputEvent /\ HookSubmits(d.event)
      <4> DEFINE p == Granted(f)
                 last == Larger(next_session, d.event.session)
                 end == IF d.event.action.type \in {"Finish", "Cancel"} THEN d.event.session ELSE ended
      <4>1. d = Handle(machine, key, down, p, acknowledged, revoked)
        OBVIOUS
      <4> HIDE DEF d, p
      <4>2. last = Larger(next_session, d.event.session)
        OBVIOUS
      <4>3. end = IF d.event.action.type \in {"Finish", "Cancel"} THEN d.event.session ELSE ended
        OBVIOUS
      <4> HIDE DEF last, end
      <4>4. /\ d.event \in InputEvent
            /\ \/ d.event.session = next_session
               \/ d.event.session = next_session + 1 /\ d.event.action.type = "Cycle"
               \/ d.event.action = TogglePause
        BY <3>1, <4>1, <4>2, <4>3, WhatIsSubmitted
      <4> QED BY <3>1, <4>4 DEF HookSubmits
    <3> HIDE DEF d
    <3> QED BY <3>2 DEF Next
  <2> QED BY <2>1, <2>2, <2>3, <2>4 DEF KeyForwarded
<1>2. CASE KeyReturned
  BY <1>2 DEF KeyReturned, Next, HookStep
<1>3. CASE SubmitStep
  BY <1>3 DEF SubmitStep, Next, HookStep
<1>4. CASE ActivationApplied
  BY <1>4 DEF ActivationApplied, EndGesture, Next
<1>5. CASE UIThread
  <2>1. AcknowledgedAs(0) => hook = "idle" /\ Idle(machine)
    BY DEF AcknowledgedAs, HookInv, Quiet, InputActive
  <2>2. DrainQueue /\ AcknowledgedAs(0) => SuspendDrain
    <3> SUFFICES ASSUME DrainQueue, AcknowledgedAs(0) PROVE SuspendDrain
      OBVIOUS
    <3> DEFINE larger == Larger(acknowledged, revoked)
    <3>1. \A s \in Nat : Over(s) => s <= larger
      BY DEF Over, Larger, HookInv, Inv, Counters
    <3>2. /\ Over(next_session) \/ Dropped
          /\ ended = next_session \/ Over(ended)
          /\ ended \in Nat /\ next_session \in Nat
      BY <2>1 DEF HookInv, NoneLeftOpen, EndedOver, Endings, DrainQueue, Inv, Counters
    <3>3. \A s \in Sessions : FinishUnderway(s) => s <= ended
      BY DEF FinishUnderway, HookInv, FinishesKnown, IsFinish
    <3>4. larger \in Nat
      BY DEF Larger, HookInv, Inv, Counters
    <3> HIDE DEF larger
    <3>5. CASE Over(next_session)
      BY <2>1, <3>1, <3>2, <3>5 DEF SuspendDrain, larger
    <3>6. CASE Dropped
      <4>1. ended <= larger /\ next_session = MaxSession
        BY <3>1, <3>2, <3>6 DEF Dropped
      <4>2. \A s \in Sessions : FinishUnderway(s) => s <= larger
        BY <3>2, <3>3, <3>4, <4>1 DEF Sessions
      <4> QED BY <2>1, <4>1, <4>2 DEF SuspendDrain, larger
    <3> QED BY <3>2, <3>5, <3>6
  <2> QED BY <1>5, <2>2 DEF UIThread, Next
<1>6. CASE (\E bit \in {0, 1} : RequestActivation(bit)) \/ ActivationStale \/ UNCHANGED allVars
  BY <1>6 DEF RequestActivation, ActivationStale, allVars
<1> QED BY <1>1, <1>2, <1>3, <1>4, <1>5, <1>6 DEF HookNext

\* What is over stays over, whatever else moves, while no session is opened.
LEMMA StaysOver ==
  ASSUME Inv, [Next]_vars, NoneLeftOpen, next_session' = next_session,
         Idle(machine') => ended' = ended /\ (Idle(machine) \/ Over(next_session) \/ Dropped)
  PROVE  NoneLeftOpen'
<1>1. /\ acknowledged' >= acknowledged /\ revoked' >= revoked /\ (live' => live)
      /\ acknowledged \in Nat /\ revoked \in Nat /\ next_session \in Nat
      /\ acknowledged' \in Nat /\ revoked' \in Nat
  <2>1. Inv'
    BY FlagsStep, ControlStep, CountersStep, QueueStep DEF Inv
  <2> QED BY <2>1, MarksAdvance DEF Inv, Counters
<1>2. Over(next_session) => Over(next_session)'
  BY <1>1 DEF Over
<1>3. ended' = ended /\ Dropped => Dropped'
  BY DEF Dropped
<1> QED BY <1>1, <1>2, <1>3 DEF NoneLeftOpen

\* So does the session that was ended last.
LEMMA EndedStaysOver ==
  ASSUME Inv, [Next]_vars, EndedOver, next_session' = next_session, ended' = ended, ended \in Nat
  PROVE  EndedOver'
<1>1. /\ acknowledged' >= acknowledged /\ revoked' >= revoked /\ (live' => live)
      /\ acknowledged \in Nat /\ revoked \in Nat
      /\ acknowledged' \in Nat /\ revoked' \in Nat
  <2>1. Inv'
    BY FlagsStep, ControlStep, CountersStep, QueueStep DEF Inv
  <2> QED BY <2>1, MarksAdvance DEF Inv, Counters
<1> QED BY <1>1 DEF EndedOver, Over

\* However the queue, the batch and the session move, no Finish is on its way
\* but the last events of their sessions.
LEMMA FinishesStep ==
  ASSUME Inv, FinishesKnown, [Next]_vars, ended \in Nat, ended' \in Nat, ended' >= ended,
         hook' # "idle" /\ IsFinish(event') => event'.session <= ended'
  PROVE  FinishesKnown'
<1>1. /\ channel \in Seq(InputEvent) /\ batch \in Seq(InputEvent)
      /\ channel' \in Seq(InputEvent) /\ batch' \in Seq(InputEvent)
      /\ hook # "idle" => event \in InputEvent
      /\ input_session \in Nat /\ input_session' \in Nat
  <2>1. Inv'
    BY FlagsStep, ControlStep, CountersStep, QueueStep DEF Inv
  <2> QED BY <2>1 DEF Inv, Queue, Control, Counters
<1>2. \A e \in InputEvent : e.session \in Nat
  BY EventSession
<1>3. /\ \/ channel' = channel
         \/ hook # "idle" /\ channel' = Append(channel, event)
         \/ channel # <<>> /\ channel' = Tail(channel)
      /\ \/ batch' = batch
         \/ channel # <<>> /\ batch' = Append(batch, Head(channel))
         \/ batch # <<>> /\ batch' = Tail(batch)
      /\ \/ ~finishing'
         \/ finishing /\ input_session' = input_session
         \/ /\ batch # <<>> /\ input_session' = Head(batch).session
            /\ IsFinish(Head(batch)) \/ (finishing /\ input_session = Head(batch).session)
  <2> USE DEF shared, marks, hookVars, uiVars, CompleteSwitch, KeepSession
  <2>1. CASE \E e \in InputEvent : HookSubmits(e)
    BY <2>1 DEF HookSubmits, Submit
  <2>2. CASE HookStep
    BY <2>2 DEF HookStep, SubmitPause, SubmitCancel, SubmitQueued, EnqueueCheck, Reserve,
                Send, Notify, CancelRejected, Return
  <2>3. CASE PollPauseRequest \/ PollPause \/ PollSession
    <3>1. CASE PollPauseRequest
      BY <3>1 DEF PollPauseRequest
    <3>2. CASE PollPause
      <4>1. channel' = channel /\ batch' = batch
        BY <3>2 DEF PollPause
      <4>2. CompleteSwitch \/ KeepSession
        BY <3>2, Zenon DEF PollPause
      <4> QED BY <4>1, <4>2
    <3>3. CASE PollSession
      BY <3>3 DEF PollSession
    <3> QED BY <2>3, <3>1, <3>2, <3>3
  <2>4. CASE Take \/ Recv \/ Release \/ RecvDone \/ ApplyDone \/ ApplySkipped
    BY <2>4 DEF Take, Recv, Release, RecvDone, ApplyDone, ApplySkipped
  <2>5. CASE ApplyInput
    BY <2>5 DEF ApplyInput, FinishingAfter, IsFinish
  <2>6. CASE BackgroundWaits \/ BackgroundCompletes \/ BackgroundFails
    BY <2>6 DEF BackgroundWaits, BackgroundCompletes, BackgroundFails
  <2>7. CASE SuspendDrain \/ Close \/ ResetCancels \/ UNCHANGED vars
    BY <2>7 DEF SuspendDrain, DrainQueue, Close, ResetCancels, vars
  <2> QED BY <2>1, <2>2, <2>3, <2>4, <2>5, <2>6, <2>7 DEF Next, UITurn
<1> HIDE DEF Inv
<1>4. \A i \in 1 .. Len(channel) :
        channel[i] \in InputEvent /\ (IsFinish(channel[i]) => channel[i].session <= ended')
  BY <1>1, <1>2 DEF FinishesKnown
<1>5. \A i \in 1 .. Len(batch) :
        batch[i] \in InputEvent /\ (IsFinish(batch[i]) => batch[i].session <= ended')
  BY <1>1, <1>2 DEF FinishesKnown
<1>6. hook # "idle" /\ IsFinish(event) => event.session <= ended'
  BY <1>1, <1>2 DEF FinishesKnown
<1>7. finishing => input_session <= ended'
  BY <1>1 DEF FinishesKnown
<1>8. ASSUME NEW i \in 1 .. Len(channel')
      PROVE  IsFinish(channel'[i]) => channel'[i].session <= ended'
  <2>1. CASE channel' = channel
    BY <1>4, <2>1
  <2>2. CASE hook # "idle" /\ channel' = Append(channel, event)
    BY <1>1, <1>4, <1>6, <2>2
  <2>3. CASE channel # <<>> /\ channel' = Tail(channel)
    BY <1>1, <1>4, <2>3
  <2> QED BY <1>3, <2>1, <2>2, <2>3
<1>9. ASSUME NEW i \in 1 .. Len(batch')
      PROVE  IsFinish(batch'[i]) => batch'[i].session <= ended'
  <2>1. CASE batch' = batch
    BY <1>5, <2>1
  <2>2. CASE channel # <<>> /\ batch' = Append(batch, Head(channel))
    <3>1. Head(channel) = channel[1] /\ 1 \in 1 .. Len(channel)
      BY <1>1, <2>2
    <3> QED BY <1>1, <1>4, <1>5, <2>2, <3>1
  <2>3. CASE batch # <<>> /\ batch' = Tail(batch)
    BY <1>1, <1>5, <2>3
  <2> QED BY <1>3, <2>1, <2>2, <2>3
<1>10. finishing' => input_session' <= ended'
  <2>1. CASE finishing /\ input_session' = input_session
    BY <1>7, <2>1
  <2>2. CASE /\ batch # <<>> /\ input_session' = Head(batch).session
             /\ IsFinish(Head(batch)) \/ (finishing /\ input_session = Head(batch).session)
    <3>1. Head(batch) = batch[1] /\ 1 \in 1 .. Len(batch)
      BY <1>1, <2>2
    <3> QED BY <1>5, <1>7, <2>2, <3>1
  <2> QED BY <1>3, <2>1, <2>2
<1>11. (IsFinish(event) => event.session <= ended)' <=> (IsFinish(event') => event'.session <= ended')
  BY DEF IsFinish
<1> QED BY <1>8, <1>9, <1>10, <1>11 DEF FinishesKnown, IsFinish

\* What the answer to a submission does to the machine.
LEMMA Recording ==
  ASSUME NEW n, NEW m, IsMachine(m, n), NEW key, NEW down, NEW consume, NEW a,
         a = Accepted(m, key, down, consume)
  PROVE  IsMachine(a, n) /\ a.active = m.active
<1>1. CASE down
  <2>1. a = [m EXCEPT !.consumed = IF consume THEN @ \cup {key} ELSE @ \ {key}]
    BY <1>1 DEF Accepted
  <2>2. /\ DOMAIN a = MachineFields /\ a.hotkeys = m.hotkeys
        /\ a.next_session = m.next_session /\ a.pressed = m.pressed /\ a.active = m.active
    BY <2>1 DEF IsMachine, MachineFields
  <2> QED BY <2>2 DEF IsMachine
<1>2. CASE ~down
  BY <1>2 DEF Accepted
<1> QED BY <1>1, <1>2

\* A refusal leaves no gesture in progress.
LEMMA Refusing ==
  ASSUME NEW n, NEW m, IsMachine(m, n), NEW key, NEW down, NEW r, r = Rejected(m, key, down)
  PROVE  IsMachine(r, n) /\ Idle(r)
<1> DEFINE a == Accepted(m, key, down, FALSE)
<1>1. IsMachine(a, n)
  <2>1. a = Accepted(m, key, down, FALSE)
    OBVIOUS
  <2> HIDE DEF a
  <2>2. PICK consume : a = Accepted(m, key, down, consume)
    BY <2>1
  <2> QED BY <2>2, Recording
<1>2. r = [a EXCEPT !.active = NoGesture]
  BY DEF Rejected
<1> HIDE DEF a
<1>3. /\ DOMAIN r = MachineFields /\ r.hotkeys = a.hotkeys
      /\ r.next_session = a.next_session /\ r.pressed = a.pressed /\ r.active = NoGesture
  BY <1>1, <1>2 DEF IsMachine, MachineFields
<1> QED BY <1>1, <1>3 DEF IsMachine, Idle

\* A change of activation forgets the gesture and keeps the counter.
LEMMA Resetting ==
  ASSUME NEW n, NEW m, IsMachine(m, n), NEW r, r \in {Reset(m), Seeded(Reset(m), held)},
         held \subseteq Keys
  PROVE  IsMachine(r, n) /\ Idle(r)
<1> DEFINE k == Reset(m)
<1>1. k = [m EXCEPT !.pressed = {}, !.consumed = {}, !.injected_control = FALSE,
                    !.active = NoGesture]
  BY DEF Reset
<1>2. r = k \/ r = [k EXCEPT !.pressed = held \cap AllModifiers]
  BY DEF Seeded
<1> HIDE DEF k
<1>3. /\ DOMAIN k = MachineFields /\ k.hotkeys = m.hotkeys
      /\ k.next_session = m.next_session /\ k.pressed = {} /\ k.active = NoGesture
  BY <1>1 DEF IsMachine, MachineFields
<1>4. /\ DOMAIN r = MachineFields /\ r.hotkeys = m.hotkeys
      /\ r.next_session = m.next_session /\ r.pressed \subseteq Keys /\ r.active = NoGesture
  <2>1. CASE r = k
    BY <1>3, <2>1
  <2>2. CASE r = [k EXCEPT !.pressed = held \cap AllModifiers]
    BY <1>3, <2>2 DEF MachineFields
  <2> QED BY <1>2, <2>1, <2>2
<1> QED BY <1>4 DEF IsMachine, Idle

\* The hook starts without a gesture.
LEMMA HookInitInv == HookInit => HookInv
<1> SUFFICES ASSUME HookInit PROVE HookInv
  OBVIOUS
<1>1. Inv
  BY InitInv DEF HookInit
<1>2. IsMachine(machine, 0) /\ Idle(machine)
  <2> DEFINE k == NewMachine(Hotkeys)
  <2>1. /\ DOMAIN k = MachineFields /\ k.hotkeys = Hotkeys /\ k.next_session = 0
        /\ k.active = NoGesture
    BY DEF NewMachine, MachineFields
  <2>2. machine = [k EXCEPT !.pressed = held \cap AllModifiers] /\ held \subseteq Keys
    BY DEF HookInit, Seeded
  <2> HIDE DEF k
  <2>3. /\ DOMAIN machine = MachineFields /\ machine.hotkeys = Hotkeys
        /\ machine.next_session = 0 /\ machine.active = NoGesture /\ machine.pressed \subseteq Keys
    BY <2>1, <2>2 DEF MachineFields
  <2> QED BY <2>3 DEF IsMachine, Idle
<1>3. /\ next_session = 0 /\ acknowledged = 0 /\ hook = "idle" /\ ended = 0 /\ held \subseteq Keys
      /\ channel = <<>> /\ batch = <<>> /\ ~finishing
  BY DEF HookInit, Init
<1> QED BY <1>1, <1>2, <1>3 DEF HookInv, Submission, NoneLeftOpen, Over, Quiet, Endings,
                                EndedOver, FinishesKnown

\* No step breaks it.
LEMMA HookStepKeeps == HookInv /\ [HookNext]_allVars => HookInv'
<1> SUFFICES ASSUME HookInv, [HookNext]_allVars PROVE HookInv'
  OBVIOUS
<1>1. [Next]_vars /\ Inv /\ Inv'
  <2>1. [Next]_vars
    BY HookRefines
  <2> QED BY <2>1, FlagsStep, ControlStep, CountersStep, QueueStep DEF HookInv, Inv
<1>2. /\ acknowledged' >= acknowledged /\ revoked' >= revoked /\ (live' => live)
      /\ acknowledged \in Nat /\ revoked \in Nat /\ next_session \in 0 .. MaxSession
      /\ acknowledged' \in Nat /\ revoked' \in Nat
  BY <1>1, MarksAdvance DEF Inv, Counters
<1>3. /\ IsMachine(machine, next_session) /\ held \subseteq Keys
      /\ Submission /\ NoneLeftOpen /\ Quiet /\ Endings /\ EndedOver /\ FinishesKnown
      /\ ended \in Nat
  BY <1>2 DEF HookInv, Endings
<1>a. ASSUME next_session' = next_session, ended' = ended,
             hook' = "idle" \/ (hook # "idle" /\ event' = event)
      PROVE  EndedOver' /\ FinishesKnown'
  <2>1. hook' # "idle" /\ IsFinish(event') => event'.session <= ended'
    BY <1>3, <1>a DEF FinishesKnown
  <2> QED BY <1>1, <1>3, <1>a, <2>1, EndedStaysOver, FinishesStep
<1>4. CASE /\ UNCHANGED <<machine, next_session, ended, applied, key_input>> /\ held' \subseteq Keys
           /\ UNCHANGED <<hook, event>>
  <2>1. NoneLeftOpen'
    BY <1>1, <1>3, <1>4, StaysOver
  <2>2. Submission'
    BY <1>1, <1>2, <1>3, <1>4, EventSession DEF Submission, Inv, Control
  <2>3. EndedOver' /\ FinishesKnown'
    BY <1>4, <1>a
  <2> QED BY <1>1, <1>3, <1>4, <2>1, <2>2, <2>3 DEF HookInv, Quiet, InputActive, Endings
<1>5. CASE KeyEvent
  <2>1. PICK key \in Keys, down \in BOOLEAN :
          \/ KeyForwarded(key, down)
          \/ \E f \in Foregrounds : KeyDecided(key, down, Granted(f)) \/ KeySubmitted(key, down, Granted(f))
    BY <1>5 DEF KeyEvent
  <2>2. CASE KeyForwarded(key, down)
    BY <1>3, <1>4, <2>2 DEF KeyForwarded, Delivered, vars, hookVars, hookContext, activation
  <2>3. ASSUME NEW f \in Foregrounds, KeyDecided(key, down, Granted(f)) PROVE HookInv'
    <3> DEFINE p == Granted(f)
               d == Handle(machine, key, down, p, acknowledged, revoked)
               a == Accepted(d.machine, key, down, d.consume)
    <3>1. /\ hook = "idle" /\ live /\ InputActive /\ d.event = NoEvent /\ machine' = a
          /\ held' \subseteq Keys /\ UNCHANGED <<hook, event, next_session, applied, ended>>
      BY <1>3, <2>3 DEF KeyDecided, Delivered, vars, hookVars, activation
    <3>2. d = Handle(machine, key, down, p, acknowledged, revoked)
      OBVIOUS
    <3> HIDE DEF p, d
    <3>3. PICK o : /\ IsMachine(o, next_session) /\ (~Idle(o) => o.active = machine.active)
                   /\ Idle(o) => Idle(machine) \/ next_session <= acknowledged \/ next_session <= revoked
                   /\ Decided(next_session, o, d)
      BY <1>2, <1>3, <3>2, Handling
    <3>4. Nothing(next_session, o, d)
      <4>1. ~Pauses(next_session, o, d)
        BY <3>1 DEF Pauses, NoEvent, TogglePause
      <4>2. ~Continues(next_session, o, d) /\ ~Opens(next_session, o, d)
        <5>1. \A e \in InputEvent : e # NoEvent
          BY DEF InputEvent, NoEvent, Sessions, TogglePause
        <5> QED BY <3>1, <5>1 DEF Continues, Opens
      <4> QED BY <3>3, <4>1, <4>2 DEF Decided
    <3>5. IsMachine(a, next_session) /\ a.active = d.machine.active
      BY <3>4, Recording DEF Nothing
    <3> HIDE DEF a
    <3>6. /\ Idle(machine') => Idle(machine) \/ Over(next_session) \/ Dropped
          /\ ~Idle(machine') => ~Idle(machine) /\ machine'.active.finishing = machine.active.finishing
      <4>1. ~Idle(o) /\ next_session = MaxSession /\ ~o.active.finishing => Dropped
        BY <1>3, <3>3 DEF Endings, Dropped, Idle
      <4> QED BY <3>1, <3>3, <3>4, <3>5, <4>1 DEF Nothing, Idle, Over
    <3>7. NoneLeftOpen'
      BY <1>1, <1>3, <3>1, <3>6, StaysOver
    <3>8. Endings'
      BY <1>3, <3>1, <3>6 DEF Endings
    <3>9. EndedOver' /\ FinishesKnown'
      BY <1>a, <3>1
    <3> QED BY <1>1, <3>1, <3>5, <3>7, <3>8, <3>9 DEF HookInv, Submission, Quiet, InputActive
  <2>4. ASSUME NEW f \in Foregrounds, KeySubmitted(key, down, Granted(f)) PROVE HookInv'
    <3> DEFINE p == Granted(f)
               d == Handle(machine, key, down, p, acknowledged, revoked)
    <3>1. /\ hook = "idle" /\ live /\ InputActive /\ d.event # NoEvent /\ machine' = d.machine
          /\ key_input'.key = key /\ held' = held /\ applied' = applied
          /\ hook' = "submit" /\ event' = d.event /\ next_session' = Larger(next_session, d.event.session)
          /\ ended' = IF d.event.action.type \in {"Finish", "Cancel"} THEN d.event.session ELSE ended
      BY <2>4 DEF KeySubmitted, Submit, activation
    <3>2. d = Handle(machine, key, down, p, acknowledged, revoked)
      OBVIOUS
    <3> HIDE DEF p, d
    <3>3. /\ d.event.action # TogglePause => d.event.session = next_session'
          /\ next_session' \in 0 .. MaxSession /\ IsMachine(d.machine, next_session')
          /\ Idle(d.machine) =>
               next_session' = next_session /\ ended' = ended /\ (~Idle(machine) => Over(next_session))
          /\ ended' \in 0 .. next_session' /\ ended' >= ended
          /\ live => ended' = next_session' \/ Over(ended')
          /\ IsFinish(d.event) => d.event.session <= ended'
          /\ ~Idle(d.machine) /\ ended' = next_session' => d.machine.active.finishing
      BY <3>1, <3>2, WhatIsSubmitted
    <3>4. NoneLeftOpen'
      <4>1. CASE Idle(machine')
        BY <1>1, <1>3, <3>1, <3>3, <4>1, StaysOver
      <4>2. CASE ~Idle(machine')
        BY <4>2 DEF NoneLeftOpen
      <4> QED BY <4>1, <4>2
    <3>5. Submission' /\ Quiet' /\ Endings'
      BY <3>1, <3>3 DEF Submission, Quiet, InputActive, Endings
    <3>6. EndedOver'
      BY <1>2, <3>1, <3>3 DEF EndedOver, Over
    <3>7. FinishesKnown'
      BY <1>1, <1>3, <3>1, <3>3, FinishesStep
    <3> QED BY <1>1, <1>3, <3>1, <3>3, <3>4, <3>5, <3>6, <3>7 DEF HookInv
  <2> QED BY <2>1, <2>2, <2>3, <2>4
<1>6. CASE KeyReturned
  <2> DEFINE k == key_input
  <2>1. /\ hook \in {"accepted", "rejected"} /\ hook' = "idle"
        /\ UNCHANGED <<next_session, applied, ended, acknowledged, revoked, live>>
        /\ k.key \in Keys /\ held' \subseteq Keys
    BY <1>3, <1>6 DEF KeyReturned, Return, Delivered, Submission, marks, activation
  <2>2. machine' = IF hook = "accepted" THEN Accepted(machine, k.key, k.down, k.consume)
                                        ELSE Rejected(machine, k.key, k.down)
    BY <1>6 DEF KeyReturned
  <2>3. InputActive /\ EndedOver' /\ FinishesKnown'
    BY <1>3, <1>a, <2>1 DEF Quiet
  <2>4. CASE hook = "accepted"
    <3>1. IsMachine(machine', next_session) /\ machine'.active = machine.active
      BY <1>3, <2>2, <2>4, Recording
    <3>2. NoneLeftOpen'
      BY <1>1, <1>3, <2>1, <3>1, StaysOver DEF Idle
    <3> QED BY <1>1, <1>3, <2>1, <2>3, <3>1, <3>2
            DEF HookInv, Submission, Quiet, InputActive, Endings, Idle
  <2>5. CASE hook = "rejected"
    <3>1. IsMachine(machine', next_session) /\ Idle(machine')
      <4>1. machine' = Rejected(machine, k.key, k.down)
        BY <2>2, <2>5
      <4> QED BY <1>3, <4>1, Refusing
    <3>2. NoneLeftOpen'
      BY <1>3, <2>1, <2>5 DEF Submission, NoneLeftOpen, Over
    <3> QED BY <1>1, <1>3, <2>1, <2>3, <3>1, <3>2
            DEF HookInv, Submission, Quiet, InputActive, Endings
  <2> QED BY <2>1, <2>4, <2>5
<1>7. CASE SubmitStep
  <2>1. UNCHANGED <<machine, next_session, ended, applied, key_input, held, event>> /\ hook # "idle"
    BY <1>7 DEF SubmitStep, hookContext, activation, history, SubmitPause, SubmitCancel, SubmitQueued,
         EnqueueCheck, Reserve, Send, Notify, CancelRejected
  <2>2. NoneLeftOpen'
    BY <1>1, <1>3, <2>1, StaysOver
  <2>3. Submission'
    <3>1. event.session \in Nat
      BY <1>1, EventSession DEF Inv, Control
    <3> QED BY <1>2, <1>3, <1>7, <2>1, <3>1
            DEF Submission, SubmitStep, SubmitPause, SubmitCancel, SubmitQueued,
                EnqueueCheck, Reserve, Send, Notify, CancelRejected, Larger
  <2>4. EndedOver' /\ FinishesKnown'
    BY <1>a, <2>1
  <2> QED BY <1>1, <1>3, <2>1, <2>2, <2>3, <2>4 DEF HookInv, Quiet, InputActive, Endings
<1>8. CASE ActivationApplied
  <2>1. /\ hook = "idle" /\ UNCHANGED <<ended, held, next_session, hook>>
        /\ machine' \in {Reset(machine), Seeded(Reset(machine), held)}
    BY <1>8 DEF ActivationApplied, EndGesture, ResetCancels, hookVars, vars
  <2>2. IsMachine(machine', next_session) /\ Idle(machine')
    BY <1>3, <2>1, Resetting
  <2>3. NoneLeftOpen'
    <3>1. CASE Idle(machine)
      BY <1>1, <1>3, <2>1, <3>1, StaysOver
    <3>2. CASE ~Idle(machine)
      <4>1. ResetCancels
        BY <1>3, <1>8, <3>2, Activity DEF ActivationApplied, EndGesture
      <4> QED BY <1>2, <2>1, <4>1 DEF ResetCancels, Larger, NoneLeftOpen, Over
    <3> QED BY <3>1, <3>2
  <2>4. EndedOver' /\ FinishesKnown'
    BY <1>a, <2>1
  <2> QED BY <1>1, <1>3, <2>1, <2>2, <2>3, <2>4
          DEF HookInv, Submission, Quiet, InputActive, Endings
<1>9. CASE UIThread
  <2>1. UNCHANGED <<hook, event, next_session>>
    BY <1>9, UIKeepsHook DEF UIThread
  <2> QED BY <1>3, <1>4, <1>9, <2>1 DEF UIThread, hookContext, activation, history
<1>10. CASE (\E bit \in {0, 1} : RequestActivation(bit)) \/ ActivationStale \/ UNCHANGED allVars
  BY <1>3, <1>4, <1>10 DEF RequestActivation, Request, ActivationStale, allVars, vars, hookVars,
       hookContext, activation, history
<1> QED BY <1>5, <1>6, <1>7, <1>8, <1>9, <1>10 DEF HookNext

\* The recogniser and the activation of input implement the open submitting
\* thread of InputDispatch: what a callback submits is of the newest session or
\* opens the next one, a reset ends the gesture, and an acknowledged
\* deactivation finds the gestures over (HookContext::process, run_input_thread).
THEOREM HookImplementsDispatch == HookSpec => ImplementsDispatch
<1>1. HookInit => Init
  BY DEF HookInit
<1> QED BY <1>1, HookInitInv, HookStepKeeps, HookRefines, PTL DEF HookSpec, ImplementsDispatch, Spec

\* Whatever keys are pressed, the queue they are submitted to is typed and
\* exact, and has room for what it counted (InputDispatch::submit).
THEOREM HookQueueSound == HookSpec => []QueueIsSound
BY HookImplementsDispatch, QueueSound, PTL DEF ImplementsDispatch

\* A session has no event after its Finish or Cancel; and once the UI has seen
\* input acknowledged as off, nothing enters the queue (keyboard.rs, activation.rs).
THEOREM NothingFollows == HookSpec => NothingAfterTheEnd
<1>1. ASSUME HookInv, [HookNext]_allVars, hook = "idle", hook' = "submit", event'.session > 0
      PROVE  event'.session > ended
  <2>1. PICK key \in Keys, down \in BOOLEAN, f \in Foregrounds : KeySubmitted(key, down, Granted(f))
    <3>1. KeyEvent
      BY <1>1, UIKeepsHook DEF HookNext, KeyReturned, Return, SubmitStep, SubmitPause, SubmitCancel,
           SubmitQueued, EnqueueCheck, Reserve, Send, Notify, CancelRejected, RequestActivation,
           ActivationStale, ActivationApplied, EndGesture, ResetCancels, UIThread, allVars, vars, hookVars
    <3> QED BY <1>1, <3>1 DEF KeyEvent, KeyForwarded, KeyDecided, vars, hookVars
  <2> DEFINE p == Granted(f)
             d == Handle(machine, key, down, p, acknowledged, revoked)
  <2>2. /\ d.event # NoEvent /\ event' = d.event /\ next_session' = Larger(next_session, d.event.session)
        /\ ended' = IF d.event.action.type \in {"Finish", "Cancel"} THEN d.event.session ELSE ended
    BY <2>1 DEF KeySubmitted, Submit
  <2>3. d = Handle(machine, key, down, p, acknowledged, revoked)
    OBVIOUS
  <2> HIDE DEF p, d
  <2> QED BY <1>1, <2>2, <2>3, WhatIsSubmitted
<1>2. ASSUME HookInv, [HookNext]_allVars, AcknowledgedAs(0)
      PROVE  Len(channel') <= Len(channel)
  <2>1. hook = "idle"
    BY <1>2 DEF HookInv, Quiet, AcknowledgedAs, InputActive
  <2>2. channel' = channel \/ (channel # <<>> /\ channel' = Tail(channel))
    <3>1. [Next]_vars
      BY <1>2, HookRefines
    <3> QED BY <2>1, <3>1
            DEF Next, HookSubmits, Submit, HookStep, SubmitPause, SubmitCancel, SubmitQueued,
                EnqueueCheck, Reserve, Send, Notify, CancelRejected, Return, ResetCancels, UITurn,
                PollPauseRequest, PollPause, PollSession, Take, Recv, Release, RecvDone, ApplySkipped,
                ApplyInput, ApplyDone, BackgroundWaits, BackgroundCompletes, BackgroundFails,
                SuspendDrain, DrainQueue, Close, vars, shared
  <2>3. channel \in Seq(InputEvent)
    BY <1>2 DEF HookInv, Inv, Queue
  <2> QED BY <2>2, <2>3
<1>3. HookInv /\ [HookNext]_allVars =>
        /\ [hook = "idle" /\ hook' = "submit" /\ event'.session > 0 => event'.session > ended]_allVars
        /\ [AcknowledgedAs(0) => Len(channel') <= Len(channel)]_allVars
  BY <1>1, <1>2
<1> QED BY <1>3, HookInitInv, HookStepKeeps, PTL
        DEF HookSpec, NothingAfterTheEnd, TerminalIsLast, QuietOnceAcknowledged
===============================================================================
