------------------------------ MODULE MCKeyboard ------------------------------
(* Bindings and foreground windows for the runs of KeyboardHook.            *)
EXTENDS KeyboardHook

Binding(id, modifier, code) == [id |-> id, modifier |-> modifier, code |-> code]

\* the default apps binding
AltTab == <<Binding("apps", "alt", "tab")>>

Foreground(windows, apps, surface) ==
  [windows |-> windows, apps |-> apps, surface |-> surface]

\* an ordinary window; a pause denies every switch
PlainForegrounds == {Foreground(TRUE, TRUE, "None")}
===============================================================================
