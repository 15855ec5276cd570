---------------------------- MODULE InputGestures ----------------------------
(***************************************************************************)
(* HookContext::process (src/keyboard.rs) with submit taken as one step:   *)
(* an event is delivered or refused, and the UI acknowledges or revokes    *)
(* sessions between two callbacks.  This leaves room for every binding of  *)
(* the configuration at once; KeyboardHook splits submit into its steps.   *)
(***************************************************************************)
EXTENDS InputMachine

CONSTANT Configurations   \* what the program may be started with

ConfigurationsAssumption ==
  \A c \in Configurations :
    /\ DOMAIN c = {"keys", "hotkeys", "foregrounds", "passthrough", "restarts"}
    /\ \A i \in DOMAIN c.hotkeys : c.hotkeys[i] \in Hotkey(c.keys)
    /\ c.foregrounds \subseteq Permissions   \* what the foreground window may permit
    /\ c.passthrough \in BOOLEAN             \* InjectedPolicy::Passthrough
    /\ c.restarts \in BOOLEAN                \* input is turned off and on for a restart

VARIABLES
  config,         \* the configuration of this run of the program
  machine,        \* HookContext.machine
  active,         \* InputActivation.active()
  acknowledged, revoked,
  held,           \* keys the user holds
  verdict,        \* what the system received of the last event of each key
  sent            \* the last event delivered, and whether a key-repeat produced it

vars == <<config, machine, active, acknowledged, revoked, held, verdict, sent>>

Larger(a, b) == IF a > b THEN a ELSE b

Sent(e, repeat) == [session |-> e.session, action |-> e.action, repeat |-> repeat]
Nothing == Sent(NoEvent, FALSE)

Init ==
  /\ config \in Configurations
  /\ machine = NewMachine(config.hotkeys) /\ active = TRUE
  /\ acknowledged = 0 /\ revoked = 0
  /\ held = {} /\ verdict = [k \in config.keys |-> "none"]
  /\ sent = Nothing

Delivered(key, down, swallowed) ==
  /\ held' = IF down THEN held \cup {key} ELSE held \ {key}
  /\ verdict' = [verdict EXCEPT ![key] = IF swallowed THEN "swallowed" ELSE "passed"]

Decided(key, down, permissions) ==
  Handle(machine, key, down, permissions, acknowledged, revoked)

Forwarded(key, down) ==
  /\ ~active
  /\ Delivered(key, down, FALSE)
  /\ UNCHANGED <<config, machine, active, acknowledged, revoked, sent>>

\* No event, or an event the queue took.  A delivered Cancel is a revocation.
Processed(key, down, permissions) ==
  LET d == Decided(key, down, permissions) IN
  /\ active
  /\ machine' = Accepted(d.machine, key, down, d.consume)
  /\ sent' = IF d.event = NoEvent THEN sent ELSE Sent(d.event, key \in held)
  /\ revoked' = IF d.event.action = Cancel THEN Larger(revoked, d.event.session) ELSE revoked
  /\ Delivered(key, down, d.consume)
  /\ UNCHANGED <<config, active, acknowledged>>

\* A refused event revokes its session, and the key goes to the system.
Refused(key, down, permissions) ==
  LET d == Decided(key, down, permissions) IN
  /\ active /\ d.event.session > 0
  /\ machine' = Rejected(d.machine, key, down)
  /\ revoked' = Larger(revoked, d.event.session)
  /\ Delivered(key, down, FALSE)
  /\ UNCHANGED <<config, active, acknowledged, sent>>

KeyEvent(key, down) ==
  /\ down \/ key \in held
  /\ \/ Forwarded(key, down)
     \/ \E f \in config.foregrounds : Processed(key, down, f) \/ Refused(key, down, f)

InjectedControl(down) ==
  /\ config.passthrough /\ active
  /\ machine' = [machine EXCEPT !.injected_control = down]
  /\ UNCHANGED <<config, active, acknowledged, revoked, held, verdict, sent>>

\* complete_switch, or the cancellation of a session whose input failed
UICompletes ==
  /\ acknowledged < machine.next_session
  /\ acknowledged' \in acknowledged + 1 .. machine.next_session
  /\ UNCHANGED <<config, machine, active, revoked, held, verdict, sent>>

Deactivated ==
  /\ config.restarts /\ active
  /\ active' = FALSE
  /\ machine' = Reset(machine)
  /\ revoked' = IF Active(machine) THEN Larger(revoked, machine.active.session) ELSE revoked
  /\ verdict' = [k \in config.keys |-> IF k \in held THEN "passed" ELSE "none"]
  /\ UNCHANGED <<config, acknowledged, held, sent>>

Activated ==
  /\ ~active
  /\ active' = TRUE
  /\ machine' = Seeded(Reset(machine), held)
  /\ UNCHANGED <<config, acknowledged, revoked, held, verdict, sent>>

Next ==
  \/ \E key \in config.keys, down \in BOOLEAN : KeyEvent(key, down)
  \/ \E down \in BOOLEAN : InjectedControl(down)
  \/ UICompletes \/ Deactivated \/ Activated

Spec == Init /\ [][Next]_vars

-------------------------------------------------------------------------------
(* Properties.                                                             *)

\* No key is left stuck: the release of a key is swallowed only if its last
\* press was, through repeats, refusals, replaced gestures and restarts.
SwallowedReleaseFollowsSwallowedPress ==
  [][\A k \in config.keys : k \in held /\ k \notin held' /\ verdict'[k] = "swallowed"
                       => verdict[k] = "swallowed"]_vars

\* An unfinished gesture lives only while its modifier is held, whatever was
\* refused, replaced or made sticky before; otherwise no release would end it.
GestureNeedsModifier ==
  active /\ Active(machine) /\ ~machine.active.sticky /\ ~machine.active.finishing
    => held \cap ModifierKeys[machine.active.modifier] # {}

IsTerminal(e) == e.action.type \in {"Finish", "Cancel"}

\* Nothing of a session is delivered after its Finish or Cancel, and a Finish
\* carries out the kind of switch its session last asked for.
TerminalMatchesGesture ==
  [][sent'.session > 0 /\ sent' # sent =>
       /\ sent'.session >= sent.session
       /\ IsTerminal(sent) => sent'.session > sent.session
       /\ sent'.action.type = "Finish" /\ sent.action.type = "Cycle"
            => sent'.session = sent.session /\ sent'.action.kind = sent.action.kind]_vars

\* A gesture ends once: there is a key whose release ends it, and nothing of it
\* follows its end (keyboard/state.rs:178, 325).
GesturesEndOnce == []GestureNeedsModifier /\ TerminalMatchesGesture

\* Characters typed with AltGr reach the application: while AltGr is down no
\* Alt or Ctrl binding opens a gesture, real or synthesised Control alike.
AltGrOpensNothing ==
  [][machine'.next_session > machine.next_session
       => \/ "ralt" \notin held'
          \/ "lctrl" \notin held' /\ ~machine'.injected_control
          \/ machine'.active.modifier = "win"]_vars

\* Documented (a test of the recogniser): the release of a swallowed press of
\* the pause key does not leak to the system.
PauseReleaseIsKept ==
  [][\A i \in DOMAIN config.hotkeys :
       LET k == config.hotkeys[i].code IN
       config.hotkeys[i].id = "pause" /\ k \in held /\ k \notin held' /\ verdict[k] = "swallowed"
         => verdict'[k] = "swallowed"]_vars
===============================================================================
