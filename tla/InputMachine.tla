----------------------------- MODULE InputMachine -----------------------------
(***************************************************************************)
(* The gesture recogniser of the keyboard hook (src/keyboard/state.rs) as  *)
(* operators on its state: which keys are down, which presses were kept    *)
(* from the system, and the gesture in progress.  Keys stand for scan      *)
(* codes; a hotkey is an id, a modifier and the key that triggers it.      *)
(***************************************************************************)
EXTENDS InputEvents

ModifierKeys ==
  [alt  |-> {"lalt", "ralt"}, ctrl |-> {"lctrl", "rctrl"}, win |-> {"lwin", "rwin"}]
ShiftKeys == {"lshift", "rshift"}
ArrowKeys == {"up", "left", "right", "down"}
HotkeyIds == {"apps", "windows", "search", "details", "pause"}

\* what the configuration may bind, with the keys a run presses
Hotkey(keys) == [id : HotkeyIds, modifier : DOMAIN ModifierKeys, code : keys]

NoGesture == [session |-> 0, kind |-> "none", modifier |-> "none",
              finishing |-> FALSE, sticky |-> FALSE]

Surfaces == {"None", "Panel", "Details"}
Permissions == [windows : BOOLEAN, apps : BOOLEAN, surface : Surfaces]

NewMachine(hotkeys) ==
  [hotkeys |-> hotkeys, pressed |-> {}, consumed |-> {}, active |-> NoGesture,
   next_session |-> 0, injected_control |-> FALSE]

AllModifiers == ShiftKeys \cup UNION {ModifierKeys[n] : n \in DOMAIN ModifierKeys}

\* seed_modifiers reads the asynchronous state of the eight modifier keys.
Seeded(m, held) == [m EXCEPT !.pressed = held \cap AllModifiers]

\* The mutant of Reset keeps the swallowed presses.
ResetKeepsConsumed(m) ==
  [m EXCEPT !.pressed = {}, !.injected_control = FALSE, !.active = NoGesture]

\* The session counter survives: acknowledgements outlive a rollback.
Reset(m) == [m EXCEPT !.pressed = {}, !.consumed = {}, !.injected_control = FALSE,
                      !.active = NoGesture]

ModifierPressed(m, modifier) == m.pressed \cap ModifierKeys[modifier] # {}

AltGr(m) == "ralt" \in m.pressed /\ ("lctrl" \in m.pressed \/ m.injected_control)

\* The mutant takes AltGr for Ctrl+Alt.
MatchesIgnoringAltGr(m, hotkey, key) ==
  ModifierPressed(m, hotkey.modifier) /\ hotkey.code = key

MatchesHotkey(m, hotkey, key) ==
  /\ ~(AltGr(m) /\ hotkey.modifier \in {"alt", "ctrl"})
  /\ ModifierPressed(m, hotkey.modifier)
  /\ hotkey.code = key

Matching(m, id, key) ==
  \E i \in DOMAIN m.hotkeys : m.hotkeys[i].id = id /\ MatchesHotkey(m, m.hotkeys[i], key)

Active(m) == m.active.session # 0

\* A gesture the UI has revoked or completed is over for the hook too.
DropEnded(m, acknowledged, revoked) ==
  IF m.active.session <= revoked \/ m.active.session <= acknowledged
    THEN [m EXCEPT !.active = NoGesture] ELSE m

Observe(m, key, down) ==
  [m EXCEPT !.pressed = IF down THEN @ \cup {key} ELSE @ \ {key}]

-------------------------------------------------------------------------------
(* InputMachine::handle: the decision and the machine it leaves.           *)

Decision(m, consume, event) == [machine |-> m, consume |-> consume, event |-> event]
Pass(m) == Decision(m, FALSE, NoEvent)
EventOf(m, action) == [session |-> m.active.session, action |-> action]
Finishing(m) == [m EXCEPT !.active.finishing = TRUE]

Denied(m, permissions) ==
  /\ Active(m) /\ ~m.active.finishing
  /\ IF m.active.kind = "Windows" THEN ~permissions.windows ELSE ~permissions.apps

\* The mutant of Released sends a Finish again and again until the UI answers.
ReleasedAgain(m) ==
  Active(m) /\ ~m.active.sticky /\ ~ModifierPressed(m, m.active.modifier)

Released(m) ==
  /\ Active(m) /\ ~m.active.sticky /\ ~m.active.finishing
  /\ ~ModifierPressed(m, m.active.modifier)

OwnsDetailsTrigger(m, key, repeated) ==
  /\ repeated /\ key \in m.consumed /\ Active(m) /\ m.active.sticky
  /\ \E i \in DOMAIN m.hotkeys : m.hotkeys[i].id = "details" /\ m.hotkeys[i].code = key

OpensDetails(m, key, permissions) ==
  /\ permissions.surface = "Panel" /\ permissions.apps
  /\ Active(m) /\ m.active.kind = "Apps"
  /\ Matching(m, "details", key)

\* The positions of the bindings a press may trigger; the first one wins.
Triggered(m, key, permissions) ==
  {i \in DOMAIN m.hotkeys :
     /\ \/ m.hotkeys[i].id \in {"apps", "search"} /\ permissions.apps
        \/ m.hotkeys[i].id = "windows" /\ permissions.windows
     /\ MatchesHotkey(m, m.hotkeys[i], key)}

First(m, positions) == m.hotkeys[CHOOSE i \in positions : \A j \in positions : i <= j]

KindOf(hotkey) == [apps |-> "Apps", search |-> "Search", windows |-> "Windows"][hotkey.id]

\* A normal switch replaces a sticky view, search replaces anything else.
Replaces(m, kind) ==
  Active(m) /\ \/ m.active.sticky /\ (kind # "Search" \/ m.active.kind # "Search")
               \/ kind = "Search" /\ m.active.kind # "Search"

StartGesture(m, kind, modifier) ==
  [m EXCEPT !.next_session = @ + 1,
            !.active = [session |-> m.next_session + 1, kind |-> kind, modifier |-> modifier,
                        finishing |-> FALSE, sticky |-> kind = "Search"]]

\* With the session counter exhausted (checked_add) the press is passed on,
\* after a gesture it would have replaced was dropped.
CycleWith(m, hotkey) ==
  LET kind    == KindOf(hotkey)
      kept    == IF Replaces(m, kind) THEN [m EXCEPT !.active = NoGesture] ELSE m
      opened  == IF Active(kept) THEN kept ELSE StartGesture(kept, kind, hotkey.modifier)
      cycled  == [opened EXCEPT !.active.kind = kind]
      reverse == m.pressed \cap ShiftKeys # {}
  IN  IF \/ Active(kept) /\ kept.active.modifier # hotkey.modifier
         \/ ~Active(kept) /\ kept.next_session = MaxSession
        THEN Pass(kept)
        ELSE Decision(cycled, TRUE, EventOf(cycled, Cycle(kind, reverse)))

PanelKey(m, key, permissions) ==
  Active(m) /\ m.active.kind = "Apps" /\ (~m.active.sticky \/ permissions.surface = "Panel")

NavigateWith(m, key) ==
  IF key = "esc"
    THEN Decision(Finishing(m), TRUE, EventOf(m, Cancel))
  ELSE IF key = "enter" /\ m.active.sticky
    THEN Decision(Finishing(m), TRUE, EventOf(m, Finish("Apps")))
  ELSE IF key \in ArrowKeys
    THEN Decision(m, TRUE, EventOf(m, Cycle("Apps", key \in {"up", "left"})))
  ELSE Pass(m)

\* The early returns of handle, in their order.  m has already observed the key.
Decide(m, key, down, repeated, permissions) ==
  IF down /\ Matching(m, "pause", key)
    THEN Decision(m, TRUE, IF repeated THEN NoEvent
                           ELSE [session |-> 0, action |-> TogglePause])
  ELSE IF Denied(m, permissions)
    THEN Decision(Finishing(m), FALSE, EventOf(m, Cancel))
  ELSE IF Released(m)
    THEN Decision(Finishing(m), FALSE, EventOf(m, Finish(m.active.kind)))
  ELSE IF ~down
    THEN Decision([m EXCEPT !.consumed = @ \ {key}], key \in m.consumed, NoEvent)
  ELSE IF m.active.finishing
    THEN Pass(m)
  ELSE IF OwnsDetailsTrigger(m, key, repeated)
    THEN Decision(m, TRUE, NoEvent)
  ELSE IF OpensDetails(m, key, permissions)
    THEN LET sticky == [m EXCEPT !.active.sticky = TRUE]
         IN  Decision(sticky, TRUE, IF repeated THEN NoEvent ELSE EventOf(m, ShowDetails))
  ELSE IF Triggered(m, key, permissions) # {}
    THEN CycleWith(m, First(m, Triggered(m, key, permissions)))
  ELSE IF PanelKey(m, key, permissions)
    THEN NavigateWith(m, key)
  ELSE Pass(m)

Handle(m, key, down, permissions, acknowledged, revoked) ==
  Decide(Observe(DropEnded(m, acknowledged, revoked), key, down),
         key, down, key \in m.pressed, permissions)

\* The mutant of Accepted never forgets a press that was once swallowed.
AcceptedKeepsOld(m, key, down, consume) ==
  IF down /\ consume THEN [m EXCEPT !.consumed = @ \cup {key}] ELSE m

Accepted(m, key, down, consume) ==
  IF down THEN [m EXCEPT !.consumed = IF consume THEN @ \cup {key} ELSE @ \ {key}] ELSE m

\* The mutant keeps the gesture whose event the queue refused.
RejectedKeepsGesture(m, key, down) == Accepted(m, key, down, FALSE)

Rejected(m, key, down) == [Accepted(m, key, down, FALSE) EXCEPT !.active = NoGesture]
===============================================================================
