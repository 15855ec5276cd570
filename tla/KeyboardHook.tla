----------------------------- MODULE KeyboardHook -----------------------------
(***************************************************************************)
(* The keyboard hook thread (HookContext::process and the activation       *)
(* message of run_input_thread in src/keyboard.rs, InputActivation in      *)
(* src/keyboard/activation.rs) driving the gesture recogniser of           *)
(* InputMachine into the queue of InputDispatch.  The user presses keys,   *)
(* the foreground window changes what is permitted, and the UI thread      *)
(* turns input off and on again for a restart.  (Injected keys touch the    *)
(* recogniser alone; InputGestures has them.)                              *)
(***************************************************************************)
EXTENDS InputMachine, InputDispatch

CONSTANTS
  Keys,            \* the keys the user presses
  Hotkeys,         \* the configured bindings, in order
  Foregrounds,     \* the permissions the foreground window may give
  MaxActivations   \* bound: how often the UI requests a change

\* The queue carries the kinds that are bound and the directions the keys give.
ASSUME HotkeysAssumption ==
  /\ Hotkeys \in Seq(Hotkey(Keys))
  /\ \A i \in DOMAIN Hotkeys :
       Hotkeys[i].id \in {"apps", "search", "windows"} => KindOf(Hotkeys[i]) \in Kinds
  /\ FALSE \in Directions
  /\ Keys \cap (ShiftKeys \cup {"up", "left"}) # {} => TRUE \in Directions
ASSUME ForegroundsAssumption == Foregrounds \subseteq Permissions
ASSUME ActivationsAssumption == MaxActivations \in Nat

VARIABLES
  machine,     \* HookContext.machine
  key_input,   \* the key whose event is being submitted, and its decision
  requested,   \* InputActivation.requested: a generation and its low bit
  applied,     \* InputActivation.applied
  posted,      \* a WM_INPUT_ACTIVATION is in the thread's message queue
  held,        \* the keys the user holds, as the system saw them
  verdict,     \* what the system received of the last event of each key
  ended        \* highest session whose Finish or Cancel was submitted

activation == <<requested, applied, posted>>
history == <<held, verdict, ended>>
hookContext == <<machine, key_input>>
allVars == <<vars, hookContext, activation, history>>

NoKey == [key |-> "none", down |-> FALSE, consume |-> FALSE]

InputActive == applied % 2 = 1
AcknowledgedAs(bit) == requested % 2 = bit /\ applied = requested

\* The hook starts active, or inactive in a process that replaces another one.
HookInit ==
  /\ Init
  /\ held \in SUBSET (Keys \cap AllModifiers)
  /\ machine = Seeded(NewMachine(Hotkeys), held)
  /\ key_input = NoKey
  /\ requested \in {0, 1} /\ applied = requested /\ posted = FALSE
  /\ verdict = [k \in Keys |-> IF k \in held THEN "passed" ELSE "none"]
  /\ ended = 0

-------------------------------------------------------------------------------
Delivered(key, down, swallowed) ==
  /\ held' = IF down THEN held \cup {key} ELSE held \ {key}
  /\ verdict' = [verdict EXCEPT ![key] = IF swallowed THEN "swallowed" ELSE "passed"]

\* The permissions of a callback: the foreground's, unless input is paused.
Granted(foreground) ==
  [foreground EXCEPT !.windows = @ /\ ~paused, !.apps = @ /\ ~paused]

\* The callback does nothing while the target is closed or input is off.
KeyForwarded(key, down) ==
  /\ hook = "idle" /\ (~live \/ ~InputActive)
  /\ Delivered(key, down, FALSE)
  /\ UNCHANGED <<vars, hookContext, activation, ended>>

\* A decision without an event returns at once; accepted() records the press.
KeyDecided(key, down, permissions) ==
  LET d == Handle(machine, key, down, permissions, acknowledged, revoked) IN
  /\ hook = "idle" /\ live /\ InputActive
  /\ d.event = NoEvent
  /\ machine' = Accepted(d.machine, key, down, d.consume)
  /\ Delivered(key, down, d.consume)
  /\ UNCHANGED <<vars, key_input, activation, ended>>

KeySubmitted(key, down, permissions) ==
  LET d == Handle(machine, key, down, permissions, acknowledged, revoked) IN
  /\ hook = "idle" /\ live /\ InputActive
  /\ d.event # NoEvent
  /\ machine' = d.machine
  /\ key_input' = [key |-> key, down |-> down, consume |-> d.consume]
  /\ ended' = IF d.event.action.type \in {"Finish", "Cancel"} THEN d.event.session ELSE ended
  /\ Submit(d.event)
  /\ UNCHANGED <<activation, held, verdict>>

KeyReturned ==
  LET k == key_input IN
  /\ Return
  /\ machine' = IF hook = "accepted" THEN Accepted(machine, k.key, k.down, k.consume)
                                     ELSE Rejected(machine, k.key, k.down)
  /\ Delivered(k.key, k.down, hook = "accepted" /\ k.consume)
  /\ key_input' = NoKey
  /\ UNCHANGED <<activation, ended>>

SubmitStep ==
  /\ \/ SubmitPause \/ SubmitCancel \/ SubmitQueued \/ EnqueueCheck
     \/ Reserve \/ Send \/ Notify \/ CancelRejected
  /\ UNCHANGED <<hookContext, activation, history>>

-------------------------------------------------------------------------------
\* The mutant applies the flag on the UI thread, without the input thread.
RequestAppliesFlag(bit) ==
  /\ requested \div 2 < MaxActivations
  /\ requested' = IF requested % 2 # bit THEN (requested \div 2 + 1) * 2 + bit ELSE requested
  /\ applied' = requested' /\ posted' = TRUE

\* The generation moves only when the bit changes; the post may fail after it.
Request(bit) ==
  /\ requested \div 2 < MaxActivations
  /\ requested' = IF requested % 2 # bit THEN (requested \div 2 + 1) * 2 + bit ELSE requested
  /\ posted' \in {posted, TRUE}
  /\ applied' = applied

RequestActivation(bit) ==
  /\ Request(bit)
  /\ UNCHANGED <<vars, hookContext, history>>

\* WM_INPUT_ACTIVATION, handled between two callbacks of the same thread.
ActivationStale ==
  /\ hook = "idle" /\ posted /\ applied = requested
  /\ posted' = FALSE
  /\ UNCHANGED <<vars, hookContext, requested, applied, history>>

\* The mutant resets the recogniser without cancelling its session.
EndGestureSilently == UNCHANGED vars

EndGesture == IF Active(machine) THEN ResetCancels ELSE UNCHANGED vars

ActivationApplied ==
  /\ hook = "idle" /\ posted /\ applied # requested
  /\ posted' = FALSE /\ applied' = requested
  /\ machine' = IF requested % 2 = 1 THEN Seeded(Reset(machine), held) ELSE Reset(machine)
  /\ verdict' = [k \in Keys |-> IF k \in held THEN "passed" ELSE "none"]
  /\ EndGesture
  /\ UNCHANGED <<key_input, requested, held, ended>>

UIThread ==
  /\ UITurn \/ Close \/ (AcknowledgedAs(0) /\ DrainQueue)
  /\ UNCHANGED <<hookContext, activation, history>>

KeyEvent ==
  \E key \in Keys, down \in BOOLEAN :
    /\ down \/ key \in held
    /\ \/ KeyForwarded(key, down)
       \/ \E f \in Foregrounds : \/ KeyDecided(key, down, Granted(f))
                                 \/ KeySubmitted(key, down, Granted(f))

HookNext ==
  \/ KeyEvent \/ KeyReturned \/ SubmitStep
  \/ \E bit \in {0, 1} : RequestActivation(bit)
  \/ ActivationStale \/ ActivationApplied \/ UIThread

HookSpec == HookInit /\ [][HookNext]_allVars

-------------------------------------------------------------------------------
(* Properties.                                                             *)

\* The hook thread and the queue implement the abstract submitting thread.
ImplementsDispatch == Spec

\* After the Finish or Cancel of a session nothing of that session follows.
TerminalIsLast ==
  [][hook = "idle" /\ hook' = "submit" /\ event'.session > 0 => event'.session > ended]_allVars

\* When the UI has seen input acknowledged as off, no callback that still read
\* the old flag is running: nothing is added to the queue until it is on again.
QuietOnceAcknowledged ==
  [][AcknowledgedAs(0) => Len(channel') <= Len(channel)]_allVars

\* Nothing comes after the end: not after the end of a session, and not after
\* the acknowledgement that input is off (keyboard.rs:251, input_dispatch.rs:245).
NothingAfterTheEnd == TerminalIsLast /\ QuietOnceAcknowledged
===============================================================================
