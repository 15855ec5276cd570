------------------------ MODULE GestureConfigurations ------------------------
(* What InputGestures is started with: each set of bindings, with the keys   *)
(* and the foreground windows that make it interesting.                      *)

Binding(id, modifier, code) == [id |-> id, modifier |-> modifier, code |-> code]
Foreground(windows, apps, surface) ==
  [windows |-> windows, apps |-> apps, surface |-> surface]

\* an ordinary window, one where apps are denied, one where windows are
PlainForegrounds == {Foreground(TRUE, TRUE, "None"), Foreground(TRUE, FALSE, "None"),
                     Foreground(FALSE, TRUE, "None")}

\* the panel or its details are shown, or an application is in front
PanelForegrounds == {Foreground(TRUE, TRUE, s) : s \in {"None", "Panel", "Details"}}

\* the three switches, on two modifiers
SwitchConfiguration ==
  [keys |-> {"lalt", "lctrl", "tab", "grave"},
   hotkeys |-> <<Binding("apps", "alt", "tab"), Binding("windows", "alt", "grave"),
                 Binding("search", "ctrl", "grave")>>,
   foregrounds |-> PlainForegrounds, passthrough |-> FALSE, restarts |-> FALSE]

DetailsConfiguration ==
  [keys |-> {"lalt", "tab", "enter", "up"},
   hotkeys |-> <<Binding("apps", "alt", "tab"), Binding("details", "alt", "enter")>>,
   foregrounds |-> PanelForegrounds, passthrough |-> FALSE, restarts |-> TRUE]

AltGrConfiguration ==
  [keys |-> {"ralt", "lctrl", "tab", "lshift"},
   hotkeys |-> <<Binding("apps", "alt", "tab"), Binding("windows", "ctrl", "tab")>>,
   foregrounds |-> PlainForegrounds, passthrough |-> TRUE, restarts |-> FALSE]

PauseConfiguration ==
  [keys |-> {"lctrl", "lalt", "tab", "f10"},
   hotkeys |-> <<Binding("apps", "alt", "tab"), Binding("pause", "ctrl", "f10")>>,
   foregrounds |-> PlainForegrounds, passthrough |-> FALSE, restarts |-> FALSE]

AllConfigurations == {SwitchConfiguration, DetailsConfiguration, AltGrConfiguration}
PauseOnly == {PauseConfiguration}
===============================================================================
