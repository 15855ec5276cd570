----------------------------- MODULE MCRemoval ------------------------------
(***************************************************************************)
(* One launch moves the autostart from the Run value to a task, nothing    *)
(* fails, and others change an entry once.                                 *)
(***************************************************************************)
EXTENDS Registration

MCSetups ==
  {[runs |-> {"bare"}, tasks |-> {None}, admin |-> {TRUE},
    preferences |-> {Preference("yes", "highest", "allow")},
    faults |-> 0, others |-> 1, launches |-> 1, exits |-> 0, edits |-> 0]}
=============================================================================
