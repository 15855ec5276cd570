----------------------------- MODULE InputEvents -----------------------------
(***************************************************************************)
(* The events the keyboard thread hands to the UI thread                   *)
(* (src/keyboard/state.rs).  A session numbers one gesture; session 0 is   *)
(* the control command TogglePause, which never enters the queue.          *)
(***************************************************************************)
EXTENDS Naturals

CONSTANTS Kinds,       \* the switch kinds the configuration binds
          Directions,  \* the values the reverse flag of a Cycle may take
          MaxSession   \* the last session number (u64::MAX in the program)

ASSUME KindsAssumption == Kinds \subseteq {"Apps", "Windows", "Search"}
ASSUME DirectionsAssumption == Directions \subseteq BOOLEAN
ASSUME SessionAssumption == MaxSession \in Nat \ {0}

Cycle(kind, reverse) == [type |-> "Cycle", kind |-> kind, reverse |-> reverse]
Finish(kind)         == [type |-> "Finish", kind |-> kind]
Cancel               == [type |-> "Cancel"]
TogglePause          == [type |-> "TogglePause"]
ShowDetails          == [type |-> "ShowDetails"]

SessionAction == {Cycle(k, r) : k \in Kinds, r \in Directions}
                   \cup {Finish(k) : k \in Kinds} \cup {Cancel, ShowDetails}

Sessions == 1 .. MaxSession

InputEvent == [session : Sessions, action : SessionAction]
                \cup [session : {0}, action : {TogglePause}]

NoEvent == [session |-> 0, action |-> [type |-> "None"]]
===============================================================================
