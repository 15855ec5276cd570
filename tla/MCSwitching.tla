----------------------------- MODULE MCSwitching -----------------------------
(***************************************************************************)
(* The two ends of a switch in one run: the gestures that open and end it, *)
(* and the session that the user interface makes of it.  The session knows *)
(* the hook by the events it sends and the gestures know the user          *)
(* interface by what it acknowledges and revokes, so they share no state.  *)
(* An execution is of one part, and the other stays as it begins.          *)
(***************************************************************************)
EXTENDS MCSession

VARIABLES part, config, machine, active, acknowledged, revoked, held, verdict, sent

gestureVars == <<config, machine, active, acknowledged, revoked, held, verdict, sent>>
Started == INSTANCE GestureConfigurations
Gestures ==
  INSTANCE InputGestures WITH
    Directions <- BOOLEAN, MaxSession <- 2, Configurations <- Started!AllConfigurations

ASSUME Gestures!ConfigurationsAssumption

AllVars == <<part, vars, gestureVars>>
AllInit ==
  /\ part \in {"gestures", "session"}
  /\ Init /\ (part # "session" => ui.setup = First)
  /\ Gestures!Init /\ (part # "gestures" => config = Started!SwitchConfiguration)

AllNext ==
  \/ part = "gestures" /\ Gestures!Next /\ UNCHANGED <<part, vars>>
  \/ part = "session" /\ Next /\ UNCHANGED <<part, gestureVars>>

\* The fairness of Session; that a key is pressed or released now and then is
\* of no consequence for the gestures, of which no liveness is asked.
AllFairness ==
  /\ []<><<TRUE>>_<<pc, taken, gestureVars>>
  /\ WF_AllVars(part = "session" /\ RequestAges /\ UNCHANGED <<part, gestureVars>>)

AllSpec == AllInit /\ [][AllNext]_AllVars /\ AllFairness

\* As InputGestures says: no key is left stuck (keyboard/state.rs:161, 325).
SwallowedReleaseFollowsSwallowedPress == Gestures!SwallowedReleaseFollowsSwallowedPress
\* As InputGestures says: a gesture ends once (keyboard/state.rs:178, 325).
GesturesEndOnce == Gestures!GesturesEndOnce
\* As InputGestures says: characters typed with AltGr reach the application.
AltGrOpensNothing == Gestures!AltGrOpensNothing
=============================================================================
