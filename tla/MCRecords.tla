----------------------------- MODULE MCRecords -----------------------------
(***************************************************************************)
(* What the program keeps outside itself beside the INI - the log and the  *)
(* entries that start it with Windows - in one run.  The two share no      *)
(* state, so an execution is of one part, and the other stays as it        *)
(* begins.                                                                 *)
(***************************************************************************)
EXTENDS Registration, Logging

CONSTANTS old, new

VARIABLE part

registrationVars == vars

(***************************************************************************)
(* Logging: an old instance, and a new one that keeps fewer archives, and  *)
(* shorter ones.                                                           *)
(***************************************************************************)
MCProcesses == {old, new}
MCRetained == [p \in MCProcesses |-> IF p = old THEN 2 ELSE 1]
MCMaxLength == [p \in MCProcesses |-> IF p = old THEN 3 ELSE 2]
Unused == [i \in 1..3 |-> Nothing]
\* Nothing; a log that was too long; every path used, with an archive that is
\* longer than what the new instance writes; copies of one log that workers
\* left when they ended, one of them with nothing but its name.
MCHistories ==
  {[log |-> <<>>, archives |-> Unused, written |-> 0],
   [log |-> <<1, 2, 3, 4>>, archives |-> Unused, written |-> 4],
   [log |-> <<5, 6>>, archives |-> <<Archive(2, 2, <<2, 3>>), Archive(3, 4, <<4>>), Archive(1, 1, <<1>>)>>, written |-> 6],
   [log |-> <<2, 3, 4>>, archives |-> <<Archive(1, 2, <<4>>), Archive(2, 2, <<3>>), Nothing>>, written |-> 4],
   [log |-> <<3>>, archives |-> <<Archive(1, 1, <<2>>), Blank, Nothing>>, written |-> 3]}

(***************************************************************************)
(* Registration.                                                           *)
(***************************************************************************)
Found(own, highest, battery, enabled) == Task(own, Policy(highest, battery, enabled), "normal")
Registered == {Found(TRUE, h, b, e) : h \in BOOLEAN, b \in {"allow", "legacy"}, e \in BOOLEAN}

Anything ==
  [runs |-> {None, "quoted", "bare"}, tasks |-> Registered \cup {None}, admin |-> BOOLEAN,
   preferences |-> Preferences, faults |-> 0, others |-> 0, launches |-> 1, exits |-> 0, edits |-> 0]

\* Every configuration and every pair of entries, with two failures.
Failing ==
  [Anything EXCEPT !.runs = @ \cup {"other"}, !.tasks = @ \cup {Found(FALSE, FALSE, "allow", TRUE)}, !.faults = 2]

Few ==
  {Preference("yes", "highest", "allow"), Preference("no", "inherit", "inherit"),
   Preference("yes", "standard", "stop"), Preference("auto", "inherit", "stop")}
Some == {Found(TRUE, h, "legacy", e) : h \in BOOLEAN, e \in BOOLEAN}

\* Others change the entries twice, and an operation fails.
Shared ==
  [Anything EXCEPT !.runs = {None, "bare"}, !.tasks = Some \cup {None}, !.preferences = Few,
                   !.faults = 1, !.others = 2, !.exits = 1]

\* The process ends anywhere, the configuration changes, and a second launch
\* finishes what the first began.
Ended ==
  [Anything EXCEPT !.runs = {None, "bare"}, !.tasks = Some \cup {None}, !.preferences = Few,
                   !.faults = 2, !.launches = 2, !.exits = 2, !.edits = 1]

MCSetups == {Failing, Shared, Ended}

(***************************************************************************)
(* Both of them.                                                           *)
(***************************************************************************)
AllVars == <<part, logVars, registrationVars>>
AllInit ==
  /\ part \in {"logging", "registration"}
  /\ LogInit /\ (part # "logging" => written = 0)
  /\ Init
  /\ part # "registration" =>
       /\ setup = Failing /\ ~admin /\ os = [run |-> None, task |-> None]
       /\ preference = Preference("no", "inherit", "inherit")

AllNext ==
  \/ part = "logging" /\ LogNext /\ UNCHANGED <<part, registrationVars>>
  \/ part = "registration" /\ Next /\ UNCHANGED <<part, logVars>>
AllSpec == AllInit /\ [][AllNext]_AllVars
=============================================================================
