------------------------------ MODULE Session ------------------------------
(***************************************************************************)
(* The switching session of the UI thread: one turn of App::drain_input    *)
(* (app/input.rs) in its phases, with the handlers it calls in             *)
(* app/switching.rs, app/panel.rs, app/window_cycle.rs, app/search.rs and  *)
(* app/details.rs, against a hook thread that submits and revokes, a       *)
(* snapshot worker that answers late, and a desktop whose windows come,    *)
(* go and take the foreground.                                             *)
(*                                                                         *)
(* A handler changes App, the desktop, the snapshot mailbox and the input  *)
(* sessions, so it is an operator from a turn record (see Now) to a turn   *)
(* record.  The parameter "granted" is the answer of SetForegroundWindow   *)
(* to every call a step makes.                                             *)
(***************************************************************************)
EXTENDS Naturals, Integers, Sequences, FiniteSets, SequencesExt

CONSTANTS Windows,       \* window handles of other applications
          Setups,        \* instances, see SessionAssumption
          None

\* An instance: the desktop to begin with, on which a window stands once, and
\* the application of each window, the hotkeys and the order the configuration
\* sets, whether Shift is held, what the system answers to SetForegroundWindow,
\* and a bound on the hotkeys pressed and the windows opened, closed or activated.
Kinds == {"Apps", "Windows", "Search"}
Surfaces == {"panel", "search", "details"}
ASSUME SessionAssumption ==
  /\ Windows \cap (Surfaces \cup {"none", None}) = {}
  /\ \A s \in Setups :
       /\ s.zorder \in Seq(Windows) /\ s.zorder # <<>> /\ IsInjective(s.zorder)
       /\ DOMAIN s.group = Windows
       /\ s.kinds \subseteq Kinds /\ s.mru \in BOOLEAN /\ s.reverse \in BOOLEAN
       /\ s.details \in BOOLEAN /\ s.grants \subseteq BOOLEAN /\ s.grants # {} /\ s.moves \in Nat

VARIABLES
  ui,     \* App: the coordinator, the panel, the view and the window cycle
  desk,   \* native windows: z-order, lifetimes, foreground
  mail,   \* the snapshot mailbox
  input,  \* the sessions shared with the hook thread
  inbox,  \* events in the input queue
  taken,  \* events of this turn still to be applied
  pc,     \* the next phase of the turn
  ghost   \* what the user did, for the properties

vars == <<ui, desk, mail, input, inbox, taken, pc, ghost>>

Cycle(kind, reverse) == [do |-> "cycle", kind |-> kind, reverse |-> reverse]
Finish(kind) == [do |-> "finish", kind |-> kind]
Cancel == [do |-> "cancel"]
ShowDetails == [do |-> "details"]

Now == [ui |-> ui, desk |-> desk, mail |-> mail, input |-> input,
        ghost |-> [ghost EXCEPT !.landed = None]]
Become(x) ==
  /\ ui' = x.ui /\ desk' = x.desk /\ mail' = x.mail
  /\ input' = x.input /\ ghost' = x.ghost

\* The elements of s that are in T, in their order: what filtering and
\* shift_remove leave of a list.  It is a recursive function and not SelectSeq,
\* which the proof system does not expand.
Keep(s, T) ==
  LET kept[n \in 0..Len(s)] ==
        IF n = 0 THEN <<>>
        ELSE IF s[n] \in T THEN Append(kept[n - 1], s[n]) ELSE kept[n - 1]
  IN  kept[Len(s)]

(***************************************************************************)
(* The desktop.  An identity is a handle with its lifetime; a window shown *)
(* by this program ("panel", "search", "details") may be the foreground    *)
(* without being one of the listed windows.                                *)
(***************************************************************************)
Live(d) == Range(d.zorder)
Identity(d, w) == <<w, d.life[w]>>
PositionOf(e, s) == CHOOSE i \in DOMAIN s : s[i] = e
IsCurrent(d, id) == id[1] \in Live(d) /\ id = Identity(d, id[1])
Without(order, w) == Keep(order, Range(order) \ {w})
Raised(order, w) == <<w>> \o Without(order, w)
Topmost(d) == IF d.zorder = <<>> THEN None ELSE Head(d.zorder)

\* Hiding the foreground window hands the foreground to the next one.
Hidden(d, surface) == IF d.fg = surface THEN [d EXCEPT !.fg = Topmost(d)] ELSE d

\* A session is over once it is acknowledged or revoked: both only move
\* forward and permits() compares with both, so one number stands for them.
Permits(i, session) == session > i.over
Ended(i, session) ==
  IF session <= i.over THEN i
  ELSE [i EXCEPT !.over = session,
                 !.gesture = IF session >= i.opened THEN None ELSE @]

PermittedNow(x) == Permits(x.input, x.ui.session)

\* set_foreground_window: "allowed" holds, then the system grants the call.
SetForeground(x, w, allowed, granted) ==
  IF allowed /\ granted
  THEN [x EXCEPT !.desk.fg = w, !.desk.zorder = Raised(x.desk.zorder, w)]
  ELSE x

\* An activation the user asked for.
Activate(x, id, allowed, granted) ==
  LET y == SetForeground(x, id[1], allowed, granted)
  IN  IF allowed /\ granted THEN [y EXCEPT !.ghost.landed = id] ELSE y

Activated(allowed, granted) == allowed /\ granted

(***************************************************************************)
(* Panel, view and coordinator                                             *)
(***************************************************************************)
NoPanel == [shown |-> FALSE]
NoView == [kind |-> "none"]
Coordinator ==
  [pending |-> None, actions |-> <<>>, finishing |-> None, anchor |-> None,
   sticky |-> FALSE, returnFocus |-> None, dirty |-> FALSE, painted |-> FALSE]

NoRequest(m) == [m EXCEPT !.asked = FALSE, !.answer = None, !.for = 0]

Selected(panel) == panel.apps[panel.index + 1]

OwnsPickerForeground(x) ==
  \/ x.desk.fg = "panel"
  \/ x.desk.fg \in {"search", "details"} /\ x.ui.view.kind = x.desk.fg

HideApps(x) ==
  [x EXCEPT !.ui.panel = NoPanel, !.ui.sw.painted = FALSE, !.ui.surface = "None",
            !.ui.show = FALSE, !.desk = Hidden(@, "panel"),
            !.ghost.owner = 0, !.ghost.aim = 0, !.ghost.settled = FALSE]

CloseView(x) ==
  [x EXCEPT !.ui.view = NoView, !.desk = Hidden(@, x.ui.view.kind)]

\* The mutant gives the focus back even when the user is elsewhere.
CancelStealingFocus(x, granted) ==
  LET focus == x.ui.sw.returnFocus
      restored == IF focus = None THEN x
                  ELSE SetForeground(x, focus[1], IsCurrent(x.desk, focus), granted)
  IN  [HideApps(CloseView(restored)) EXCEPT
         !.mail = NoRequest(@), !.ui.sw = Coordinator]

CancelSwitchApp(x, granted) ==
  LET focus == x.ui.sw.returnFocus
      restored == IF focus = None THEN x
                  ELSE SetForeground(x, focus[1],
                         OwnsPickerForeground(x) /\ IsCurrent(x.desk, focus), granted)
  IN  [HideApps(CloseView(restored)) EXCEPT
         !.mail = NoRequest(@), !.ui.sw = Coordinator]

CompleteSwitch(x, granted) ==
  CancelSwitchApp([x EXCEPT
      !.input = Ended(@, x.ui.session), !.ui.session = 0, !.ui.released = TRUE, !.ghost.visited = {},
      !.ghost.walk = <<>>], granted)

\* The error path of a turn: the session is revoked and completed.
Fail(x, session, granted) ==
  CompleteSwitch([x EXCEPT !.input = Ended(@, session)], granted)

\* A dead worker fails the turn.
RequestSnapshot(x, kind, refresh, granted) ==
  LET anchor == IF x.ui.panel.shown /\ x.ui.panel.apps # <<>>
                THEN Selected(x.ui.panel).id[1] ELSE x.desk.fg
      y == IF kind = "Windows" THEN HideApps(x) ELSE x
  IN  IF ~x.mail.alive THEN Fail(x, x.ui.session, granted)
      ELSE [y EXCEPT !.mail.asked = TRUE, !.mail.answer = None, !.mail.for = x.ui.session,
                     !.ui.sw.pending = [kind |-> kind, anchor |-> anchor, refresh |-> refresh]]

CycleIndex(current, count, reverse) ==
  LET c == IF current >= count THEN count - 1 ELSE current
  IN  IF reverse THEN (c + count - 1) % count ELSE (c + 1) % count

(***************************************************************************)
(* pump_switches.  With a panel, the leading Apps cycles move the          *)
(* selection; the first cycle that needs a snapshot asks for it, unless    *)
(* one is on its way that is not a mere refresh.                           *)
(***************************************************************************)
DoSwitchApp(x, granted) ==
  LET p == x.ui.panel
      hidden == [x EXCEPT !.ui.panel = NoPanel, !.ui.show = FALSE]
      activated ==
        IF p.shown /\ p.apps # <<>>
        THEN Activate(hidden, Selected(p).id,
               PermittedNow(x) /\ IsCurrent(x.desk, Selected(p).id), granted)
        ELSE hidden
  IN  [activated EXCEPT !.desk = Hidden(@, "panel")]

LeadingCount(actions, kind) ==
  IF \A i \in DOMAIN actions : actions[i].kind = kind THEN Len(actions)
  ELSE (CHOOSE i \in DOMAIN actions :
          actions[i].kind # kind /\ \A j \in 1..(i - 1) : actions[j].kind = kind) - 1

MoveSelection(x) ==
  LET sw == x.ui.sw
      p == x.ui.panel
      n == IF p.shown THEN LeadingCount(sw.actions, "Apps") ELSE 0
      at[i \in 0..n] == IF i = 0 THEN p.index
                        ELSE CycleIndex(at[i - 1], Len(p.apps), sw.actions[i].reverse)
  IN  IF n = 0 THEN x
      ELSE [x EXCEPT !.ui.panel.index =
                       IF p.apps = <<>> THEN 0
                       ELSE at[n],
                     !.ui.sw.actions = SubSeq(@, n + 1, Len(@)), !.ui.sw.dirty = TRUE]

CanFinish(sw) == sw.finishing # None /\ sw.pending = None /\ sw.actions = <<>>

PumpSwitches(x, granted) ==
  LET moved == MoveSelection(x)
      wanted == /\ moved.ui.sw.actions # <<>>
                /\ moved.ui.sw.pending = None \/ moved.ui.sw.pending.refresh
      y == IF ~PermittedNow(x) THEN x
           ELSE IF wanted
           THEN RequestSnapshot(moved, Head(moved.ui.sw.actions).kind, FALSE, granted)
           ELSE moved
  IN  IF ~CanFinish(y.ui.sw) THEN y
      ELSE CompleteSwitch(IF y.ui.sw.finishing = "Apps" THEN DoSwitchApp(y, granted) ELSE y,
                          granted)

(***************************************************************************)
(* apply_app_snapshot: the panel keeps the order it showed, appends new    *)
(* applications, and follows the selected application.                     *)
(***************************************************************************)
GroupOf(x, id) == x.ui.setup.group[id[1]]

FirstOccurrences(x, ids) ==
  Keep(ids, {id \in Range(ids) : \A other \in Range(ids) :
     GroupOf(x, other) = GroupOf(x, id) =>
       PositionOf(id, ids) <= PositionOf(other, ids)})

Entry(x, id) == [group |-> GroupOf(x, id), id |-> id]

\* The mutant shows the applications in the order of the newest snapshot.
NewestOrder(x, ids) ==
  LET firsts == FirstOccurrences(x, ids)
  IN  [i \in DOMAIN firsts |-> Entry(x, firsts[i])]

OrderedApps(x, ids) ==
  LET entries == LET firsts == FirstOccurrences(x, ids)
                 IN  [i \in DOMAIN firsts |-> Entry(x, firsts[i])]
      Known(g) == \E e \in Range(entries) : e.group = g
      Old == IF x.ui.panel.shown THEN x.ui.panel.apps ELSE <<>>
      kept == Keep(Old, {o \in Range(Old) : Known(o.group)})
  IN  [i \in DOMAIN kept |-> CHOOSE e \in Range(entries) : e.group = kept[i].group]
      \o Keep(entries, {e \in Range(entries) : \A o \in Range(Old) : o.group # e.group})

SelectedGroup(x, ids) ==
  IF x.ui.panel.shown
  THEN IF x.ui.panel.apps # <<>> THEN Selected(x.ui.panel).group ELSE None
  ELSE LET anchored == {id \in Range(ids) : id[1] = x.ui.sw.anchor}
       IN  IF x.ui.setup.mru /\ anchored # {}
           THEN GroupOf(x, CHOOSE id \in anchored : TRUE) ELSE None

SelectedIndex(x, ids, apps) ==
  LET group == SelectedGroup(x, ids)
      old == IF x.ui.panel.shown THEN x.ui.panel.index ELSE 0
  IN  IF \E i \in DOMAIN apps : apps[i].group = group
      THEN (CHOOSE i \in DOMAIN apps : apps[i].group = group) - 1
      ELSE IF Len(apps) = 0 THEN 0
      ELSE IF old < Len(apps) THEN old ELSE Len(apps) - 1

NetMoves(actions) ==
  FoldLeft(LAMBDA n, c : IF c.kind # "Apps" THEN n ELSE IF c.reverse THEN n - 1 ELSE n + 1,
           0, actions)

GroupRows(x, ids, group) == Keep(ids, {id \in Range(ids) : GroupOf(x, id) = group})
Groups(apps) == {e.group : e \in Range(apps)}

\* New rows get a new epoch: an Accept of the old ones is dropped.
SyncDetails(x) ==
  IF x.ui.view.kind # "details" THEN x
  ELSE [x EXCEPT !.ui.view.rows = GroupRows(x, x.ui.panel.ids, x.ui.view.group),
                 !.ui.view.event = IF @ # None /\ @.do = "accept" THEN None ELSE @]

ApplyAppSnapshot(x, ids, granted) ==
  LET old == x.ui.panel
      apps == OrderedApps(x, ids)
      index == SelectedIndex(x, ids, apps)
  IN  IF apps = <<>> /\ x.ui.view.kind # "details"
      THEN CompleteSwitch([x EXCEPT !.ui.panel = NoPanel], granted)
      ELSE SyncDetails([x EXCEPT
             !.ui.panel = [shown |-> TRUE, apps |-> apps, index |-> index, ids |-> ids],
             !.ui.sw.dirty = TRUE,
             !.ghost = IF old.shown
                       THEN [x.ghost EXCEPT !.settled = @ /\ Groups(apps) = Groups(old.apps)]
                       ELSE [x.ghost EXCEPT !.owner = x.mail.for, !.settled = TRUE,
                               !.aim = index + NetMoves(x.ui.sw.actions)]])

(***************************************************************************)
(* cycle_windows                                                           *)
(***************************************************************************)
GroupWindows(x, ids, anchor) ==
  LET of == {id \in Range(ids) : id[1] = anchor}
  IN  IF of = {} THEN <<>>
      ELSE GroupRows(x, ids, GroupOf(x, CHOOSE a \in of : TRUE))

\* reconcile_cycle: the remembered order first, new windows behind it.
ReconciledOrder(previous, fresh) ==
  Keep(previous, Range(fresh)) \o Keep(fresh, Range(fresh) \ Range(previous))

\* The mutant walks the order the windows have now.
NotReconciled(previous, cachedIndex, fresh) ==
  [ordered |-> fresh, base |-> IF cachedIndex < Len(fresh) THEN cachedIndex ELSE Len(fresh) - 1]

Reconciled(previous, cachedIndex, fresh) ==
  LET ordered == ReconciledOrder(previous, fresh)
      base == IF cachedIndex < Len(previous) /\ previous[cachedIndex + 1] \in Range(ordered)
              THEN PositionOf(previous[cachedIndex + 1], ordered) - 1
              ELSE IF cachedIndex < Len(ordered) THEN cachedIndex ELSE Len(ordered) - 1
  IN  [ordered |-> ordered, base |-> base]

\* The order to walk, the position to go to, and the window it started from.
CyclePlan(x, fresh, anchor, reverse) ==
  LET cache == x.ui.cache
      at == IF x.ui.setup.mru /\ \E i \in DOMAIN fresh : fresh[i][1] = anchor
            THEN (CHOOSE i \in DOMAIN fresh : fresh[i][1] = anchor) - 1 ELSE 0
      start == [ordered |-> fresh, index |-> CycleIndex(at, Len(fresh), reverse),
                anchor |-> fresh[at + 1]]
      walk == Reconciled(cache.ordered, cache.index, fresh)
  IN  IF cache = None \/ cache.group # GroupOf(x, fresh[1]) THEN start
      ELSE IF x.ui.released
      THEN IF ~x.ui.setup.mru /\ cache.anchor # fresh[1] /\ cache.anchor \in Range(fresh)
           THEN [start EXCEPT !.index = PositionOf(cache.anchor, fresh) - 1]
           ELSE start
      ELSE [ordered |-> walk.ordered,
            index |-> CycleIndex(walk.base, Len(walk.ordered), reverse),
            anchor |-> IF cache.anchor \in Range(fresh) THEN cache.anchor ELSE start.anchor]

CycleWindows(x, ids, anchor, reverse, granted) ==
  LET fresh == GroupWindows(x, ids, anchor)
      plan == CyclePlan(x, fresh, anchor, reverse)
      target == plan.ordered[plan.index + 1]
      allowed == PermittedNow(x) /\ IsCurrent(x.desk, target)
      y == Activate(x, target, allowed, granted)
      walked == IF x.ghost.walk = <<GroupOf(x, target), reverse>> THEN x.ghost.visited ELSE {}
  IN  IF Len(fresh) < 2 THEN x
      ELSE IF Activated(allowed, granted)
      THEN [y EXCEPT
              !.ui.cache = [group |-> GroupOf(x, target), anchor |-> plan.anchor,
                            index |-> plan.index, ordered |-> plan.ordered],
              !.ui.released = FALSE,
              !.ghost.walk = <<GroupOf(x, target), reverse>>,
              !.ghost.repeated = target \in walked /\ Range(fresh) \ walked # {},
              !.ghost.visited = IF Range(fresh) \subseteq walked THEN {target}
                                ELSE walked \cup {target}]
      ELSE y

(***************************************************************************)
(* Views: the search field and the details list.  A view that does not get *)
(* the foreground is an error; so is a panel that cannot be asked for.     *)
(***************************************************************************)
StartSearch(x, granted) ==
  LET active == x.ui.view.kind = "search"
      opened == [HideApps(x) EXCEPT
                   !.ui.view = [kind |-> "search", rows |-> <<>>, ready |-> FALSE,
                                next |-> None, event |-> None]]
      y == [(IF active THEN x ELSE opened) EXCEPT !.desk.fg = "search"]
  IN  IF ~granted THEN Fail(x, x.ui.session, granted)
      ELSE IF active THEN y ELSE RequestSnapshot(y, "Search", FALSE, granted)

OpenDetails(x, granted) ==
  IF \/ ~x.ui.setup.details \/ x.desk.fg # "panel" \/ x.ui.view.kind = "details" \/ ~x.ui.sw.painted
     \/ ~x.ui.panel.shown \/ x.ui.panel.apps = <<>>
  THEN x
  ELSE IF ~granted THEN Fail(x, x.ui.session, granted)
  ELSE LET group == Selected(x.ui.panel).group
       IN  [x EXCEPT
              !.ui.view = [kind |-> "details", group |-> group, event |-> None,
                           rows |-> GroupRows(x, x.ui.panel.ids, group)],
              !.ui.surface = "Details", !.ui.sw.sticky = TRUE, !.ui.show = FALSE,
              !.desk.fg = "details"]

\* painter.paint shows and focuses a panel that is not on screen yet.
FlushPanel(x, granted) ==
  IF \/ x.ui.view.kind = "details" \/ x.ui.sw.finishing # None
     \/ ~PermittedNow(x) \/ ~x.ui.panel.shown
  THEN x
  ELSE LET y == [x EXCEPT !.ui.surface = "Panel"]
       IN  IF ~x.ui.sw.dirty THEN y
           ELSE [y EXCEPT !.ui.sw.dirty = FALSE, !.ui.sw.painted = TRUE, !.ui.show = TRUE,
                          !.desk.fg = IF granted /\ ~x.ui.show THEN "panel" ELSE @]

\* An accepted row is activated if it is still the window that was listed;
\* otherwise the list is asked for again.
ActivateRow(x, id, granted) ==
  LET search == x.ui.view.kind = "search"
      allowed == /\ search \/ OwnsPickerForeground(x)
                 /\ PermittedNow(x) /\ IsCurrent(x.desk, id)
  IN  IF allowed /\ granted
      THEN CompleteSwitch(Activate(x, id, allowed, granted), granted)
      ELSE IF search
      THEN RequestSnapshot([x EXCEPT !.ui.view.ready = FALSE, !.ui.view.next = None],
                           "Search", TRUE, granted)
      ELSE RequestSnapshot(x, "Apps", TRUE, granted)

BackFromDetails(x, granted) ==
  LET y == CloseView(x)
  IN  IF ~OwnsPickerForeground(x) \/ ~x.ui.panel.shown \/ x.ui.panel.apps = <<>>
      THEN CompleteSwitch(x, granted)
      ELSE FlushPanel([y EXCEPT !.ui.sw.dirty = TRUE], granted)

\* The rows the user chose from are acted on before newer rows replace them.
PollView(x, granted) ==
  LET v == x.ui.view
      y == [x EXCEPT !.ui.view.event = None]
  IN  IF v.kind = "none" THEN x
      ELSE IF v.event # None
      THEN CASE v.event.do = "cancel" -> CompleteSwitch(y, granted)
             [] v.event.do = "back" -> BackFromDetails(y, granted)
             [] OTHER -> ActivateRow(y, v.event.id, granted)
      ELSE IF v.kind = "search" /\ v.next # None
      THEN [x EXCEPT !.ui.view.rows = v.next, !.ui.view.ready = TRUE, !.ui.view.next = None]
      ELSE x

-------------------------------------------------------------------------------
(* One turn of drain_input.                                                 *)

\* A revoked session and a sticky one that lost the foreground end first,
\* then the queue is taken.
TurnStarts ==
  /\ pc = "idle"
  /\ \E granted \in ui.setup.grants :
       LET revoked == IF ui.session # 0 /\ ~Permits(input, ui.session)
                      THEN CompleteSwitch(Now, granted) ELSE Now
       IN  Become(IF revoked.ui.sw.sticky /\ ~OwnsPickerForeground(revoked)
                  THEN CompleteSwitch(revoked, granted) ELSE revoked)
  /\ taken' = inbox /\ inbox' = <<>> /\ pc' = "inputs"

\* A new session ends the previous one and remembers the foreground.
\* The mutant takes over what the previous session left.
BeginInPlace(x, session, granted) == [x EXCEPT !.ui.session = session]

Begin(x, session, granted) ==
  LET y == CancelSwitchApp(x, granted)
      w == y.desk.fg
  IN  IF x.ui.session = session THEN x
      ELSE [y EXCEPT !.ui.session = session, !.ui.sw.anchor = w,
              !.ui.sw.returnFocus = IF w \in Live(y.desk) THEN Identity(y.desk, w) ELSE None]

Pushed(x, action) ==
  [x EXCEPT !.ui.sw.actions = Append(@, action),
            !.ghost.aim = IF ~x.ui.panel.shown THEN @ ELSE @ + NetMoves(<<action>>)]

\* Releasing the modifier gives up a refresh, never a first snapshot.
Finishing(x, kind) ==
  LET y == [x EXCEPT !.ui.sw.finishing = kind]
  IN  IF x.ui.sw.pending # None /\ x.ui.sw.pending.refresh
      THEN [y EXCEPT !.ui.sw.pending = None, !.mail = NoRequest(@)] ELSE y

ApplyAction(x, action, granted) ==
  CASE action.do = "details" -> OpenDetails(x, granted)
    [] action.do = "cancel" -> CompleteSwitch(x, granted)
    [] action.do = "cycle" /\ action.kind = "Search" -> StartSearch(x, granted)
    [] action.do = "cycle" /\ action.kind # "Search" ->
         PumpSwitches(Pushed(x, action), granted)
    [] OTHER -> PumpSwitches(Finishing(x, action.kind), granted)

ApplyInput ==
  /\ pc = "inputs" /\ taken # <<>>
  /\ LET event == Head(taken)
     IN  \E granted \in ui.setup.grants :
           Become(IF Permits(input, event.session)
                  THEN ApplyAction(Begin(Now, event.session, granted), event.action, granted)
                  ELSE [Now EXCEPT !.input = Ended(@, event.session)])
  /\ taken' = Tail(taken)
  /\ UNCHANGED <<inbox, pc>>

InputsDone ==
  /\ pc = "inputs" /\ taken = <<>>
  /\ pc' = IF ui.session = 0 THEN "idle" ELSE "poll"
  /\ UNCHANGED <<ui, desk, mail, input, inbox, taken, ghost>>

\* poll_switching: the answer, if there is one, is applied.
WindowCycles(x, ids, anchor, granted) ==
  LET n == LeadingCount(x.ui.sw.actions, "Windows")
      walked[i \in 0..n] ==
        IF i = 0 THEN [x EXCEPT !.ui.sw.actions = SubSeq(@, n + 1, Len(@))]
        ELSE CycleWindows(walked[i - 1], ids, anchor, x.ui.sw.actions[i].reverse, granted)
  IN  walked[n]

\* The mutant logs an error and waits for another answer.
AnsweredWell(x) ==
  /\ x.mail.answer # None /\ x.mail.answer.ids # None
  /\ PermittedNow(x) /\ x.ui.sw.pending # None

Answered(x) == x.mail.answer # None /\ PermittedNow(x) /\ x.ui.sw.pending # None

ApplyAnswer(x, granted) ==
  LET pending == x.ui.sw.pending
      ids == x.mail.answer.ids
      y == [x EXCEPT !.ui.sw.pending = None, !.mail.answer = None]
  IN  CASE pending.kind = "Apps" -> ApplyAppSnapshot(y, ids, granted)
        [] pending.kind = "Windows" -> WindowCycles(y, ids, pending.anchor, granted)
        [] OTHER -> IF y.ui.view.kind = "search"
                    THEN [y EXCEPT !.ui.view.next = ids] ELSE y

\* A picker is refreshed when windows changed or its snapshot is old.
MayRefresh(x) ==
  /\ x.ui.sw.pending = None /\ x.ui.sw.finishing = None
  /\ \/ x.ui.panel.shown
     \/ x.ui.view.kind = "search" /\ (x.ui.view.ready \/ x.ui.view.next # None)

Refreshed(x, granted) ==
  RequestSnapshot(x, IF x.ui.panel.shown THEN "Apps" ELSE "Search", TRUE, granted)

PollErrs == ~mail.alive \/ (Answered(Now) /\ mail.answer.ids = None)

PollSwitching(x, due, granted) ==
  LET y == IF Answered(x) THEN ApplyAnswer(x, granted) ELSE [x EXCEPT !.mail.answer = None]
  IN  IF due /\ MayRefresh(y) THEN Refreshed(y, granted) ELSE y

\* poll_switching, then poll_search or poll_details; the rest of the turn is
\* pump_switches and flush_panel.  A step whose session ended does nothing.
Poll ==
  /\ pc = "poll" /\ ~PollErrs
  /\ \E granted \in ui.setup.grants, due \in BOOLEAN :
       Become(PollView(PollSwitching(Now, due, granted), granted))
  /\ pc' = "pump" /\ UNCHANGED <<inbox, taken>>

\* The request is 3 s old, the worker is gone, or its answer is an error.
PollFails ==
  /\ pc = "poll" /\ PollErrs
  /\ \E granted \in ui.setup.grants : Become(Fail(Now, ui.session, granted))
  /\ pc' = "idle" /\ UNCHANGED <<inbox, taken>>

PumpAndFlush ==
  /\ pc = "pump" /\ pc' = "idle"
  /\ \E granted \in ui.setup.grants : Become(FlushPanel(PumpSwitches(Now, granted), granted))
  /\ UNCHANGED <<inbox, taken>>

-------------------------------------------------------------------------------
(* Messages of the panel's own window, between turns.                       *)

\* A click or an accessibility action on an entry of the shown panel.
PanelEntryChosen ==
  /\ pc = "idle" \/ (pc = "inputs" /\ taken = <<>>)
  /\ ui.view.kind # "details" /\ PermittedNow(Now) /\ ui.panel.shown
  /\ \E i \in DOMAIN ui.panel.apps, invoke \in BOOLEAN, granted \in ui.setup.grants :
       LET x == [Now EXCEPT !.ui.panel.index = i - 1, !.ui.sw.dirty = TRUE,
                            !.ghost.settled = FALSE]
       IN  /\ IsCurrent(desk, ui.panel.apps[i].id)
           /\ Become(IF invoke THEN CompleteSwitch(DoSwitchApp(x, granted), granted)
                     ELSE [x EXCEPT !.desk.fg = IF granted THEN "panel" ELSE @])
  /\ UNCHANGED <<inbox, taken, pc>>

\* WM_SETFOCUS, WM_KILLFOCUS and a display change repaint the panel; the
\* session ends when its monitor is gone.
PanelInvalidated ==
  /\ pc = "idle" /\ ui.session # 0
  /\ \E granted \in ui.setup.grants, gone \in BOOLEAN :
       Become(IF gone THEN CompleteSwitch(Now, granted)
              ELSE FlushPanel([Now EXCEPT !.ui.sw.dirty = TRUE], granted))
  /\ UNCHANGED <<inbox, taken, pc>>

-------------------------------------------------------------------------------
(* The hook thread: the gesture it follows and the events it submits.  The  *)
(* queue is read when a turn starts, so they are submitted between turns;   *)
(* a revocation is read in the midst of one.                                *)

Surface == IF ui.surface = "Panel" /\ desk.fg = "panel" THEN "Panel" ELSE "None"
Submit(session, action) == inbox' = Append(inbox, [session |-> session, action |-> action])
Gesturing == input.gesture # None /\ Permits(input, input.opened)

Holding == Gesturing /\ ~input.gesture.sticky
Sticky(kind) == Gesturing /\ input.gesture.sticky /\ input.gesture.kind = kind
OnPanel == Sticky("Apps") /\ Surface = "Panel"

\* A switch replaces a sticky gesture of another kind; Search replaces any.
Replaces(kind) ==
  Gesturing => \/ input.gesture.sticky /\ ~(kind = "Search" /\ Sticky("Search"))
               \/ kind = "Search" /\ input.gesture.kind # "Search"

Opens(kind) ==
  /\ input.moves < ui.setup.moves /\ Replaces(kind)
  /\ input' = [input EXCEPT !.opened = @ + 1, !.moves = @ + 1,
                            !.gesture = [kind |-> kind, sticky |-> kind = "Search"]]
  /\ Submit(input.opened + 1, Cycle(kind, ui.setup.reverse))
  /\ UNCHANGED <<ui, desk, mail, taken, pc, ghost>>

\* The hotkey again, and on the panel of a sticky gesture the arrows.
Presses(kind) ==
  /\ \/ Holding /\ kind # "Search"
     \/ kind = "Search" /\ Sticky("Search")
     \/ kind = "Apps" /\ OnPanel
  /\ input.moves < ui.setup.moves
  /\ input' = [input EXCEPT !.moves = @ + 1, !.gesture.kind = kind]
  /\ Submit(input.opened, Cycle(kind, ui.setup.reverse))
  /\ UNCHANGED <<ui, desk, mail, taken, pc, ghost>>

\* Releasing the modifier, or Enter on the panel of a sticky gesture.
Releases ==
  /\ Holding \/ OnPanel
  /\ input' = [input EXCEPT !.gesture = None]
  /\ Submit(input.opened, Finish(input.gesture.kind))
  /\ UNCHANGED <<ui, desk, mail, taken, pc, ghost>>

Escapes ==
  /\ (Holding /\ input.gesture.kind = "Apps") \/ OnPanel
  /\ input' = [input EXCEPT !.gesture = None]
  /\ Submit(input.opened, Cancel)
  /\ UNCHANGED <<ui, desk, mail, taken, pc, ghost>>

AsksForDetails ==
  /\ ui.setup.details /\ Gesturing /\ input.gesture.kind = "Apps" /\ Surface = "Panel"
  /\ ~Sticky("Apps") \/ input.moves < ui.setup.moves
  /\ input' = [input EXCEPT !.gesture.sticky = TRUE,
                            !.moves = IF Sticky("Apps") THEN @ + 1 ELSE @]
  /\ Submit(input.opened, ShowDetails)
  /\ UNCHANGED <<ui, desk, mail, taken, pc, ghost>>

Revokes ==
  /\ input.over < input.opened /\ input' = Ended(input, input.opened)
  /\ UNCHANGED <<ui, desk, mail, inbox, taken, pc, ghost>>

Hook ==
  \/ /\ pc = "idle"
     /\ (\E kind \in ui.setup.kinds : Opens(kind) \/ Presses(kind))
        \/ Releases \/ Escapes \/ AsksForDetails
  \/ Revokes

-------------------------------------------------------------------------------
(* The desktop, the snapshot worker and the clock.  Windows change between  *)
(* turns.                                                                   *)

Closing == [do |-> "cancel"]
GoingBack == [do |-> "back"]
Accepting(id) == [do |-> "accept", id |-> id]

\* A view that is deactivated cancels itself.
Deactivated(x) ==
  IF x.ui.view.kind # "none" /\ x.desk.fg = x.ui.view.kind
  THEN [x EXCEPT !.ui.view.event = Closing] ELSE x

Changed(x) == [x EXCEPT !.input.moves = @ + 1]

UserActivates(w) ==
  /\ input.moves < ui.setup.moves /\ w \in Live(desk) /\ desk.fg # w
  /\ Become([Changed(Deactivated(Now)) EXCEPT
            !.desk.fg = w, !.desk.zorder = Raised(desk.zorder, w)])
  /\ UNCHANGED <<inbox, taken, pc>>

\* A walk that loses a window starts over for the property.
WindowCloses(w) ==
  /\ input.moves < ui.setup.moves /\ w \in Live(desk)
  /\ LET left == Without(desk.zorder, w)
     IN  Become([Changed(Now) EXCEPT
                   !.desk.zorder = left, !.desk.life[w] = @ + 1,
                   !.desk.fg = IF @ # w THEN @ ELSE IF left = <<>> THEN None ELSE Head(left),
                   !.ghost.visited = {}])
  /\ UNCHANGED <<inbox, taken, pc>>

WindowOpens(w) ==
  /\ input.moves < ui.setup.moves /\ w \notin Live(desk)
  /\ Become([Changed(Deactivated(Now)) EXCEPT
            !.desk.zorder = Raised(desk.zorder, w), !.desk.fg = w])
  /\ UNCHANGED <<inbox, taken, pc>>

WorkerAnswers ==
  /\ mail.alive /\ mail.asked
  /\ \E ids \in {[i \in DOMAIN desk.zorder |-> Identity(desk, desk.zorder[i])], None} :
       mail' = [mail EXCEPT !.asked = FALSE, !.answer = [ids |-> ids]]
  /\ UNCHANGED <<ui, desk, input, inbox, taken, pc, ghost>>

WorkerDies ==
  /\ mail.alive /\ mail.asked
  /\ mail' = [mail EXCEPT !.alive = FALSE, !.asked = FALSE]
  /\ UNCHANGED <<ui, desk, input, inbox, taken, pc, ghost>>

\* A request that is 3 s old fails the turn, whatever its answer is by then.
RequestAges ==
  /\ ui.sw.pending # None /\ mail.answer # [ids |-> None]
  /\ mail' = [mail EXCEPT !.asked = FALSE, !.answer = [ids |-> None]]
  /\ UNCHANGED <<ui, desk, input, inbox, taken, pc, ghost>>

\* The user accepts a row, goes back to the panel or closes the view.
UserChooses ==
  /\ ui.view.kind # "none" /\ desk.fg = ui.view.kind /\ ui.view.event = None
  /\ \E event \in {Closing}
       \cup (IF ui.view.kind = "details" THEN {GoingBack} ELSE {})
       \cup {Accepting(id) : id \in IF ui.view.kind = "details" \/ ui.view.ready
                                    THEN Range(ui.view.rows) ELSE {}} :
         ui' = [ui EXCEPT !.view.event = event]
  /\ UNCHANGED <<desk, mail, input, inbox, taken, pc, ghost>>

World ==
  \/ /\ pc = "idle"
     /\ \E w \in Windows : UserActivates(w) \/ WindowCloses(w) \/ WindowOpens(w)
  \/ WorkerAnswers \/ WorkerDies \/ RequestAges \/ UserChooses

Turn ==
  \/ TurnStarts \/ ApplyInput \/ InputsDone \/ Poll \/ PollFails \/ PumpAndFlush

Init ==
  /\ \E setup \in Setups :
       /\ ui = [session |-> 0, sw |-> Coordinator, panel |-> NoPanel, view |-> NoView,
                surface |-> "None", show |-> FALSE, cache |-> None, released |-> TRUE,
                setup |-> setup]
       /\ desk = [zorder |-> setup.zorder, life |-> [w \in Windows |-> 0],
                  fg |-> setup.zorder[1]]
  /\ mail = [asked |-> FALSE, answer |-> None, for |-> 0, alive |-> TRUE]
  /\ input = [opened |-> 0, gesture |-> None, moves |-> 0, over |-> 0]
  /\ inbox = <<>> /\ taken = <<>> /\ pc = "idle"
  /\ ghost = [owner |-> 0, aim |-> 0, settled |-> FALSE,
              visited |-> {}, walk |-> <<>>, repeated |-> FALSE, landed |-> None]

Next == Turn \/ PanelEntryChosen \/ PanelInvalidated \/ Hook \/ World

Spec == Init /\ [][Next]_vars

\* The message loop keeps turning (a step of Turn is always enabled, and only
\* such a step changes pc or taken) and time passes; nothing is assumed of
\* the hook, the user, the worker or the system's answers.
FairSpec == Spec /\ []<><<TRUE>>_<<pc, taken>> /\ WF_vars(RequestAges)

-------------------------------------------------------------------------------
(* What the sessions promise.                                               *)

Identities == Windows \X (Nat)

\* The panel on screen was built by an answer to the session it belongs to,
\* never by a late one, and its selection is one of its entries; the entries
\* are distinct applications (apply_app_snapshot, poll_switching).
PanelBelongs ==
  /\ pc \in {"idle", "inputs", "poll", "pump"}
  /\ Range(desk.zorder) \subseteq Windows
  /\ ui.panel.shown =>
       /\ ui.session # 0 /\ ghost.owner = ui.session
       /\ ui.panel.apps # <<>> => ui.panel.index \in 0..(Len(ui.panel.apps) - 1)
       /\ \A i, j \in DOMAIN ui.panel.apps :
            ui.panel.apps[i].group = ui.panel.apps[j].group => i = j
       /\ {e.id : e \in Range(ui.panel.apps)} \subseteq Identities

\* The selection is where the accepted presses take it: a press made while a
\* snapshot is under way is neither lost nor counted twice, and a refresh
\* leaves the selection alone.
SelectionFollowsPresses ==
  ui.panel.shown /\ ghost.settled /\ ui.panel.apps # <<>> =>
    ui.panel.index =
      (ghost.aim - NetMoves(ui.sw.actions)) % Len(ui.panel.apps)

\* Holding the modifier and pressing in one direction reaches every window
\* of the application before any of them comes again (reconcile_cycle).
HeldPressesVisitAll == ~ghost.repeated

\* The window the user chose is the window in front when the step is over:
\* the window that was listed, not another with its handle, and giving the
\* focus back does not undo it (is_current, cancel_switch_app).
ActivationLands ==
  ghost.landed # None => desk.fg = ghost.landed[1] /\ IsCurrent(desk, ghost.landed)

\* A released switch ends: it is applied, cancelled or given up after 3 s.
SwitchCompletes == ui.sw.finishing # None ~> ui.sw.finishing = None

\* The row that is selected is the one the presses lead to, and presses that
\* are held reach every row (app/switching.rs, coordinator.rs).
SelectionIsTrue == SelectionFollowsPresses /\ HeldPressesVisitAll
=============================================================================
