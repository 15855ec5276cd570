---------------------------- MODULE MCInterface ----------------------------
(***************************************************************************)
(* Kinds of executions: many messages for few places; commands and jobs    *)
(* with a failure; handoffs; threads that cannot be made, as administrator;*)
(* a shell that comes and goes; notices with no tray icon to show them; a  *)
(* taskbar, and a click on its icon, that come before the first hint.      *)
(***************************************************************************)
EXTENDS Interface, TLC

Nothing == [messages |-> 0, clicks |-> 0, faults |-> 0, crashes |-> 0, asks |-> 0,
            candidates |-> 0, outcomes |-> 0, shortages |-> 0]
Setup(bounds) == [budget |-> bounds, elevated |-> FALSE, explorer |-> TRUE, rejections |-> 0]

Crowd == Setup([Nothing EXCEPT !.messages = 3, !.clicks = 1])
Tasks == Setup([Nothing EXCEPT !.clicks = 2, !.faults = 1, !.asks = 1])
Handoffs == Setup([Nothing EXCEPT !.clicks = 1, !.asks = 1, !.candidates = 1, !.outcomes = 2])
Short == [Setup([Nothing EXCEPT !.clicks = 2, !.shortages = 1, !.faults = 1]) EXCEPT !.elevated = TRUE]
Shell == [Setup([Nothing EXCEPT !.candidates = 1, !.crashes = 1])
            EXCEPT !.explorer = FALSE, !.rejections = 1]
Notices == [Setup([Nothing EXCEPT !.candidates = 2, !.shortages = 1]) EXCEPT !.explorer = FALSE]
Early == [Setup([Nothing EXCEPT !.clicks = 1]) EXCEPT !.explorer = FALSE]
MCSetups == {Early, Crowd, Tasks, Handoffs, Short, Shell, Notices}
=============================================================================
