------------------------------ MODULE MCWindows ------------------------------
(***************************************************************************)
(* The knowledge of the desktop and the mailbox through which a worker     *)
(* tells it, in one run.  They share no state: Windows has the mailbox     *)
(* already as its contract (LatestResults), and Mailbox any worker.  An    *)
(* execution is of one part, and the other stays as it begins.             *)
(***************************************************************************)
EXTENDS Mailbox

CONSTANTS w1, w2, w3, None, WindowSetups

VARIABLES part, setup, desk, life, front, native, snapshots, processes, mru, mail, budget, ghost

windowVars == <<setup, desk, life, front, native, snapshots, processes, mru, mail, budget, ghost>>

(***************************************************************************)
(* Windows, on two or three handles and three processes, two of which have *)
(* the same number one after the other.                                    *)
(***************************************************************************)
Proc(pid, created) == [pid |-> pid, created |-> created]
MCOwn == Proc(0, 0)
game == Proc(1, 1)
editor == Proc(1, 2)
mail1 == Proc(2, 1)
WindowHandles == {w1, w2, w3}
WindowProcesses == {game, editor, mail1, MCOwn}

Windows ==
  INSTANCE Windows WITH
    ui <- native, worker <- snapshots, cache <- processes,
    Handles <- WindowHandles, Processes <- WindowProcesses, Setups <- WindowSetups

MCKinds == {"Apps", "Windows", "Search"}
Exe == [p \in WindowProcesses |->
  IF p = game THEN "game.exe" ELSE IF p = editor THEN "editor.exe"
  ELSE IF p = MCOwn THEN "switcher.exe" ELSE "mail.exe"]
Plain == [visible |-> TRUE, iconic |-> FALSE, tool |-> FALSE, topmost |-> FALSE, cloaked |-> FALSE,
          size |-> 2, dpi |-> 96, title |-> "t"]
AnyWindow == [hiddenMinimized |-> FALSE, ignoreMinimal |-> FALSE, tool |-> FALSE, topmost |-> FALSE,
              untitled |-> FALSE, minSize |-> 1, titles |-> {}, processes |-> {}]
Steps ==
  [start |-> <<w1, w2>>,
   process |-> [h \in WindowHandles |-> IF h = w1 THEN game ELSE IF h = w2 THEN mail1 ELSE MCOwn],
   exe |-> Exe, denied |-> {}, elevated |-> {}, admin |-> TRUE, own |-> {},
   owner |-> [h \in WindowHandles |-> None], looks |-> [h \in WindowHandles |-> Plain],
   filters |-> [k \in MCKinds |-> AnyWindow], appsBlacklist |-> {"game.exe"},
   windowsBlacklist |-> {}, byProcess |-> FALSE, mru |-> {"Apps"}, kinds |-> {"Apps"},
   opens |-> {<<w1, editor>>}, recent |-> 2, cached |-> 1, noted |-> 2, capacity |-> 3,
   expires |-> FALSE, moves |-> 0, busy |-> 0, scans |-> 0]
\* Foreground changes against the resolution; scans against the desktop; a
\* busy lock and a full table; own windows and a short list; a frame window.
Foregrounds == [Steps EXCEPT !.moves = 3, !.mru = {}, !.own = {w3}, !.start = <<w1, w2, w3>>,
                            !.windowsBlacklist = {"mail.exe"}, !.expires = TRUE]
Crowded == [Steps EXCEPT !.scans = 1, !.moves = 1, !.start = <<w3, w1, w2>>, !.capacity = 2,
                        !.opens = {}, !.own = {w3}, !.kinds = MCKinds, !.byProcess = TRUE]
Framed == [Crowded EXCEPT !.moves = 0, !.exe[game] = "ApplicationFrameHost.exe", !.owner[w2] = w1, !.admin = FALSE,
                          !.elevated = {mail1}]
Quiet == [Framed EXCEPT !.admin = TRUE]
MCWindowSetups ==
  {Foregrounds,
   [Steps EXCEPT !.scans = 1, !.moves = 2],
   [Steps EXCEPT !.scans = 1, !.moves = 1, !.busy = 1],
   [Steps EXCEPT !.moves = 3, !.busy = 1, !.noted = 1],
   [Crowded EXCEPT !.denied = {mail1}], [Crowded EXCEPT !.capacity = 1, !.moves = 0],
   Framed, Quiet}

(***************************************************************************)
(* Both of them.                                                           *)
(***************************************************************************)
ASSUME Windows!WindowsAssumption

AllVars == <<part, vars, windowVars>>
AllInit ==
  /\ part \in {"mailbox", "windows"}
  /\ Init
  /\ Windows!Init /\ (part # "windows" => setup = Quiet /\ front.requested = None)

AllNext ==
  \/ part = "mailbox" /\ Next /\ UNCHANGED <<part, windowVars>>
  \/ part = "windows" /\ Windows!Next /\ UNCHANGED <<part, vars>>

\* The fairness of both parts; as only one of them ever moves, fairness of two
\* steps, one of each, is fairness of either.
Either(step, other) ==
  \/ part = "mailbox" /\ step /\ UNCHANGED <<part, windowVars>>
  \/ part = "windows" /\ other /\ UNCHANGED <<part, vars>>
AllFairness ==
  /\ WF_AllVars(Either(UICall, Windows!Ui))
  /\ WF_AllVars(Either(WorkerStep \/ Closing, Windows!Worker))
  /\ SF_AllVars(part = "mailbox" /\ Take /\ UNCHANGED <<part, windowVars>>)

AllSpec == AllInit /\ [][AllNext]_AllVars /\ AllFairness

\* As Windows says: a hotkey is judged by the process in the foreground
\* (foreground.rs:79).
VerdictOfForeground == Windows!VerdictOfForeground
\* As Windows says: an identity that matches names the window it was taken
\* from (window_snapshot/lifetimes.rs:48).
LifetimeIdentifies == Windows!LifetimeIdentifies
\* As Windows says: the resolution ends with the last change of the foreground
\* (foreground.rs:118).
SettlesOnForeground == part = "windows" => Windows!SettlesOnForeground
\* As Windows says: the order by use begins with the foreground, and a snapshot
\* is complete or an error (mru.rs:35, window_snapshot/enumeration.rs:19).
SnapshotIsTrue == Windows!FirstIsForeground /\ Windows!NoneForgotten
=============================================================================
