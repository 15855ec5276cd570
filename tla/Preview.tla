------------------------------ MODULE Preview ------------------------------
(***************************************************************************)
(* The preview of the selected window (preview.rs, preview/native.rs,      *)
(* preview/window.rs, preview/selection.rs, preview/layout.rs,             *)
(* preview/paint.rs, app/preview.rs).  A poll of the user interface takes  *)
(* one window from a selection to its picture: a delay, an inspection of   *)
(* the source, a thumbnail that the desktop compositor draws into a window *)
(* of the preview, and a permission that is asked again before anything is *)
(* seen.  Between two steps other threads may take the permission or the   *)
(* foreground away, and a source may vanish while its handle goes to       *)
(* another window.  Between two polls a surface may also move or grow: the *)
(* preview goes with it when the source is looked at again, and not before.*)
(***************************************************************************)
EXTENDS Integers, FiniteSets, FiniteSetsExt

CONSTANTS
  Handles,         \* the windows there are to look at
  Surfaces,        \* the panel and the pickers, from which one is selected
  Places,          \* where a surface can be: its bounds, and the monitor's scale and work area
  Size,            \* the size of a source
  MaxWidth, MaxHeight, \* preview_max_width, preview_max_height
  Rooms,           \* the bytes that the budget may leave
  MaxChanges, MaxMoves, MaxFaults, \* bounds of the model
  None

Corners == [left : Int, top : Int, right : Int, bottom : Int]

ASSUME PreviewAssumption ==
  /\ Rooms \subseteq Nat /\ IsFiniteSet(Rooms) /\ Rooms # {}
  /\ {MaxWidth, MaxHeight, MaxChanges, MaxMoves, MaxFaults} \subseteq Nat
  /\ \A s \in Surfaces : \A place \in Places[s] :
       /\ place \in [anchor : Corners, dpi : Nat \ {0}, work : Corners]
       /\ place.work.left <= place.work.right /\ place.work.top <= place.work.bottom
  /\ \A h \in Handles : Size[h].x \in Nat \ {0} /\ Size[h].y \in Nat \ {0}

VARIABLES
  source,      \* handle -> the window that has it now, and how it looks
  foreground,  \* the surface in front, None: some other window
  permitted,   \* InputDispatch::permits, for the session
  choice,      \* what the user interface has selected, None: nothing
  room,        \* the bytes left for the preview
  pc, job,     \* the step of the poll, and what it has found
  selection,   \* SelectionDelay: the request, and whether its delay is over
  thumbnail,   \* the lease of the compositor
  window,      \* the window of the preview
  retiring,    \* the lease could not be given back
  check, retry,\* next_check and retry_after are still to come
  budget       \* what may still happen

outside == <<source, foreground, permitted, choice, room>>
timing == <<check, retry>>
vars == <<outside, pc, job, selection, thumbnail, window, retiring, timing, budget>>

(***************************************************************************)
(* Layout.                                                                 *)
(***************************************************************************)
Clamp(x, low, high) == IF x < low THEN low ELSE IF x > high THEN high ELSE x
Width(r) == r.right - r.left
Height(r) == r.bottom - r.top
\* GAP_DIP and PADDING_DIP; a unit of the model is as wide as both.
Px(dip, place) == dip * place.dpi
Gap(place) == Px(1, place)
Padding(place) == Px(1, place)

\* The strips of the work area to the right, left, below and above the anchor.
Slots(place) ==
  LET a == place.anchor
      work == place.work
  IN << [work EXCEPT !.left = Clamp(a.right + Gap(place), work.left, work.right)],
        [work EXCEPT !.right = Clamp(a.left - Gap(place), work.left, work.right)],
        [work EXCEPT !.top = Clamp(a.bottom + Gap(place), work.top, work.bottom)],
        [work EXCEPT !.bottom = Clamp(a.top - Gap(place), work.top, work.bottom)] >>

\* fit: the widest content of the proportions that has room; the code searches
\* it by halving, since height and bytes grow with the width.
Fit(size, width, height, padding, bytes) ==
  LET tall(w) == Max({(w * size.y) \div size.x, 1})
      area(w) == (w + 2 * padding) * (tall(w) + 2 * padding) * 4
      fits == {w \in 1 .. width - 2 * padding :
                 tall(w) <= height - 2 * padding /\ area(w) <= bytes}
  IN IF fits = {} THEN None
     ELSE LET w == Max(fits)
          IN [width |-> w + 2 * padding, height |-> tall(w) + 2 * padding, bytes |-> area(w)]

Half(x) == IF x < 0 THEN -((-x) \div 2) ELSE x \div 2
\* A mutant: the middle of the anchor, wherever the slot is.
Centred(slot, place, fit) ==
  LET a == place.anchor
      left == a.left + Half(Width(a) - fit.width)
      top == a.top + Half(Height(a) - fit.height)
  IN [left |-> left, top |-> top, right |-> left + fit.width, bottom |-> top + fit.height,
      bytes |-> fit.bytes, padding |-> Padding(place)]
\* The middle of the slot nearest to that of the anchor.
Placed(slot, place, fit) ==
  LET a == place.anchor
      left == Clamp(a.left + Half(Width(a) - fit.width), slot.left, slot.right - fit.width)
      top == Clamp(a.top + Half(Height(a) - fit.height), slot.top, slot.bottom - fit.height)
  IN [left |-> left, top |-> top, right |-> left + fit.width, bottom |-> top + fit.height,
      bytes |-> fit.bytes, padding |-> Padding(place)]

\* PreviewLayout::calculate: the first of the largest, None when there is no room.
Calculate(place, size, bytes) ==
  LET slots == Slots(place)
      fits == [i \in 1 .. 4 |->
                 Fit(size, Min({Width(slots[i]), Px(MaxWidth, place)}),
                           Min({Height(slots[i]), Px(MaxHeight, place)}), Padding(place), bytes)]
      usable == {i \in 1 .. 4 : fits[i] # None}
      best == {i \in usable : \A j \in usable : fits[j].bytes <= fits[i].bytes}
  IN IF usable = {} THEN None ELSE Placed(slots[Min(best)], place, fits[Min(best)])

\* The shape of every placeholder.
Wide == [x |-> 16, y |-> 9]
Sizes == {Wide} \cup {Size[h] : h \in Handles}
Everywhere == UNION {Places[s] : s \in Surfaces}
\* The same for all that is asked, so that TLC calculates it once.
Layouts == [place \in Everywhere |-> [size \in Sizes |-> [bytes \in Rooms |-> Calculate(place, size, bytes)]]]
Layout(place, size) == Layouts[place][size][room]

(***************************************************************************)
(* Sources and the lease.                                                  *)
(***************************************************************************)
Identity(h) == [handle |-> h, generation |-> source[h].generation]
Exists(h) == source[h].shape # "closed"
\* WindowIdentity::is_current
IsCurrent(id) == Exists(id.handle) /\ Identity(id.handle) = id
\* inspect: a placeholder, or None when the picture itself may be shown.
Placeholder(id) ==
  IF ~IsCurrent(id) THEN "closed"
  ELSE IF source[id.handle].shape = "open" THEN None ELSE source[id.handle].shape

\* The compositor drops the relation when the source is destroyed.
Related == thumbnail # None /\ IsCurrent(thumbnail.source)
Visible == window # None /\ window.visible

Spend(what) == budget[what] > 0 /\ budget' = [budget EXCEPT ![what] = @ - 1]
Fault == Spend("faults")
Works == UNCHANGED budget

\* A mutant: a window keeps what it presents while it is hidden.
HideOnly(w) == IF w = None THEN None ELSE [w EXCEPT !.visible = FALSE]
\* PreviewWindow::hide
Hidden(w) == IF w = None THEN None ELSE [w EXCEPT !.presentation = None, !.dirty = TRUE, !.visible = FALSE]
\* release: the lease goes, unless the compositor fails; an unknown one is gone.
Release ==
  \/ thumbnail' = None /\ retiring' = FALSE /\ Works
  \/ Related /\ Fault /\ thumbnail' = thumbnail /\ retiring' = TRUE
\* retire: hide first.
Retire == window' = Hidden(window) /\ Release
NoSelection == [request |-> None, ready |-> FALSE]
Cancel == selection' = NoSelection /\ Retire /\ check' = FALSE /\ retry' = FALSE

(***************************************************************************)
(* One poll.                                                               *)
(***************************************************************************)
NoJob == [placeholder |-> None, size |-> Wide, failed |-> FALSE]
Return == pc' = "idle" /\ job' = NoJob
Goto(step) == pc' = step /\ UNCHANGED job
\* surface_current and permitted
Allowed(request) == permitted /\ foreground = request.surface
\* preview_request
Requested == IF choice # None /\ Allowed(choice) THEN choice ELSE None
Request == selection.request

\* SelectionDelay::select: a surface that moved or grew is asked for in its new
\* place, and neither the delay nor the lease begins again.
Same(old, new) ==
  IF old = None \/ new = None THEN old = new
  ELSE old.source = new.source /\ old.surface = new.surface

Begin ==
  /\ pc = "idle"
  /\ IF Same(Request, Requested)
     THEN /\ selection' = [selection EXCEPT !.request = Requested]
          /\ UNCHANGED <<thumbnail, window, retiring, timing, budget>>
     ELSE /\ selection' = [request |-> Requested, ready |-> FALSE]
          /\ Retire
          /\ check' = FALSE /\ retry' = FALSE
  /\ Goto("gate")
  /\ UNCHANGED outside

\* A lease that could not be given back is tried again, at most every interval.
Gate ==
  /\ pc = "gate"
  /\ \/ check /\ Return /\ UNCHANGED <<thumbnail, window, retiring, check, budget>>
     \/ ~check /\ ~retiring /\ Goto("wanted") /\ UNCHANGED <<thumbnail, window, retiring, check, budget>>
     \/ /\ ~check /\ retiring
        /\ check' = TRUE
        /\ Retire
        /\ IF retiring' THEN Return ELSE Goto("wanted")
  /\ UNCHANGED <<outside, selection, retry>>

Proceed ==
  /\ pc = "wanted"
  /\ IF Request = None \/ ~selection.ready THEN Return /\ UNCHANGED check
     ELSE check' = TRUE /\ IF retry THEN Return ELSE Goto("inspect")
  /\ UNCHANGED <<outside, selection, thumbnail, window, retiring, retry, budget>>

UnexpectedlyHidden == window # None /\ window.presentation # None /\ ~window.visible

Inspect ==
  /\ pc = "inspect"
  /\ \/ UnexpectedlyHidden /\ Retire /\ Return
     \/ /\ ~UnexpectedlyHidden /\ Fault
        /\ Goto("failed") /\ UNCHANGED <<thumbnail, window, retiring>>
     \/ /\ ~UnexpectedlyHidden
        /\ LET status == Placeholder(Request.source)
               show == pc' = "present" /\ job' = [NoJob EXCEPT !.placeholder = status]
           IN IF status = None
              THEN IF Layout(Request.place, Wide) = None THEN Retire /\ Return
                   ELSE Goto("ensure") /\ UNCHANGED <<thumbnail, window, retiring, budget>>
              ELSE IF thumbnail = None
              THEN show /\ UNCHANGED <<thumbnail, window, retiring, budget>>
              ELSE Retire /\ IF retiring' THEN Return ELSE show
  /\ UNCHANGED <<outside, selection, timing>>

NewWindow(id) == [id |-> id, alive |-> TRUE, visible |-> FALSE, presentation |-> None, dirty |-> TRUE, dpi |-> 0]
\* The lease of a dead window goes before the window is replaced.
Replaces ==
  /\ Release
  /\ window' = IF retiring' THEN Hidden(window) ELSE NewWindow(window.id + 1)
\* ensure_window
EnsureWindow ==
  \/ window = None /\ window' = NewWindow(1) /\ Works /\ UNCHANGED <<thumbnail, retiring>>
  \/ window # None /\ window.alive /\ Works /\ UNCHANGED <<window, thumbnail, retiring>>
  \/ window # None /\ ~window.alive /\ Replaces
NeedsWindow == window # None => ~window.alive
CannotCreate == NeedsWindow /\ Fault

\* An error of any step: present the placeholder, or give up if that failed.
Fail == pc' = "failed" /\ UNCHANGED <<job, thumbnail, window, retiring>>

Ensure ==
  /\ pc = "ensure"
  /\ \/ EnsureWindow /\ IF retiring' THEN Return ELSE Goto("attach")
     \/ CannotCreate /\ Fail
  /\ UNCHANGED <<outside, selection, timing>>

Attach ==
  /\ pc = "attach"
  /\ \/ thumbnail # None /\ Goto("size") /\ UNCHANGED <<selection, thumbnail, window, retiring, timing, budget>>
     \/ /\ thumbnail = None
        /\ IF Allowed(Request) /\ IsCurrent(Request.source)
           THEN Goto("register") /\ UNCHANGED <<selection, thumbnail, window, retiring, timing, budget>>
           ELSE Cancel /\ Return
  /\ UNCHANGED outside

\* The compositor knows handles only: it takes the window that has it now.
Register ==
  /\ pc = "register"
  /\ LET h == Request.source.handle
     IN \/ /\ Exists(h)
           /\ thumbnail' = [source |-> Identity(h), destination |-> window.id, layout |-> None]
           /\ Goto("size")
           /\ UNCHANGED <<window, retiring, budget>>
        \/ ~Exists(h) /\ Works /\ Fail
        \/ Exists(h) /\ Fault /\ Fail
  /\ UNCHANGED <<outside, selection, timing>>

\* A mutant: the window that was attached to is not compared with the selection.
AnySource(id) == TRUE
StillSource(id) == IsCurrent(id)

Measure ==
  /\ pc = "size"
  /\ \/ ~Related /\ Works /\ Fail
     \/ Related /\ Fault /\ Fail
     \/ ~StillSource(Request.source) /\ Retire /\ Return
     \/ /\ Related /\ StillSource(Request.source)
        /\ pc' = "present" /\ job' = [NoJob EXCEPT !.size = Size[Request.source.handle]]
        /\ UNCHANGED <<thumbnail, window, retiring, budget>>
  /\ UNCHANGED <<outside, selection, timing>>

\* prepare: nothing to do for what is presented already.
Presented == [layout |-> Layout(Request.place, job.size), placeholder |-> job.placeholder]
Changed(w) == w.presentation # Presented \/ w.dirty \/ w.dpi # Request.place.dpi
Prepared(w) ==
  IF Changed(w)
  THEN [w EXCEPT !.presentation = Presented, !.dirty = FALSE, !.dpi = Request.place.dpi] ELSE w

Present ==
  /\ pc = "present"
  /\ \/ Presented.layout = None /\ Retire /\ Return
     \/ Presented.layout # None /\ CannotCreate /\ Fail
     \/ /\ Presented.layout # None
        /\ EnsureWindow
        /\ IF retiring' THEN Return ELSE Goto("prepare")
  /\ UNCHANGED <<outside, selection, timing>>

\* prepare, then Thumbnail::show where the picture is live.
Prepare ==
  /\ pc = "prepare"
  /\ LET live == Changed(window) /\ job.placeholder = None
     IN \/ Fault /\ Fail
        \/ /\ live /\ ~Related \* the compositor has dropped it
           /\ window' = Prepared(window) /\ Works
           /\ Goto("failed") /\ UNCHANGED <<thumbnail, retiring>>
        \/ /\ live => Related
           /\ window' = Prepared(window)
           /\ thumbnail' = IF live THEN [thumbnail EXCEPT !.layout = Presented.layout] ELSE thumbnail
           /\ Goto("show")
           /\ UNCHANGED <<retiring, budget>>
  /\ UNCHANGED <<outside, selection, timing>>

Show ==
  /\ pc = "show"
  /\ \/ ~Allowed(Request) /\ Cancel /\ Return
     \/ Allowed(Request) /\ Fault /\ Fail /\ UNCHANGED <<selection, timing>>
     \/ /\ Allowed(Request)
        /\ window' = [window EXCEPT !.visible = TRUE]
        /\ Return
        /\ UNCHANGED <<selection, thumbnail, retiring, timing, budget>>
  /\ UNCHANGED outside

Failed ==
  /\ pc = "failed"
  /\ Retire
  /\ retry' = (job.failed => retry)
  /\ IF job.failed \/ retiring' \/ ~Allowed(Request) THEN Return
     ELSE pc' = "present" /\ job' = [NoJob EXCEPT !.placeholder = "unavailable", !.failed = TRUE]
  /\ UNCHANGED <<outside, selection, check>>

\* A mutant: the window is destroyed whatever became of the lease.
NothingLeft == None
\* With a lease left, the hidden window is kept until the process ends.
LeftOver == IF retiring' THEN Hidden(window) ELSE None
Drop ==
  /\ pc = "idle"
  /\ Release
  /\ window' = LeftOver
  /\ pc' = "dropped"
  /\ UNCHANGED <<outside, job, selection, timing>>

Poll ==
  \/ Begin \/ Gate \/ Proceed \/ Inspect \/ Ensure \/ Attach \/ Register \/ Measure
  \/ Present \/ Prepare \/ Show \/ Failed

(***************************************************************************)
(* The rest of the user interface, between two polls.                      *)
(***************************************************************************)
still == <<pc, job, selection, thumbnail, retiring, timing>>
Choose ==
  /\ pc = "idle" /\ Spend("moves")
  /\ \E h \in Handles, s \in Surfaces : \E place \in Places[s] :
       /\ choice' = [source |-> Identity(h), surface |-> s, place |-> place]
       /\ foreground' = s
  /\ permitted' = (IF choice = None THEN TRUE ELSE permitted)
  /\ UNCHANGED <<source, room, window, still>>

\* The panel is laid out anew, or a surface is moved, to another size or monitor.
Relocate ==
  /\ pc = "idle" /\ choice # None /\ Spend("moves")
  /\ \E place \in Places[choice.surface] \ {choice.place} : choice' = [choice EXCEPT !.place = place]
  /\ UNCHANGED <<source, foreground, permitted, room, window, still>>

\* cancel_preview at the end of a session.
Leave ==
  /\ pc = "idle" /\ choice # None
  /\ choice' = None
  /\ Cancel
  /\ UNCHANGED <<source, foreground, permitted, room, pc, job>>

Repaint ==
  /\ pc = "idle" /\ Spend("changes")
  /\ room' \in Rooms \ {room}
  /\ UNCHANGED <<source, foreground, permitted, choice, window, still>>

\* The window_proc of the preview: hidden by WM_CLOSE, or destroyed.
Close ==
  /\ pc = "idle" /\ window # None /\ window.alive /\ Spend("changes")
  /\ \/ window' = [window EXCEPT !.visible = FALSE]
     \/ window' = [window EXCEPT !.visible = FALSE, !.alive = FALSE]
  /\ UNCHANGED <<outside, still>>

(***************************************************************************)
(* What happens at any time.                                               *)
(***************************************************************************)
inside == <<pc, job, selection, thumbnail, window, retiring, timing>>
Revoke ==
  /\ permitted /\ permitted' = FALSE
  /\ UNCHANGED <<source, foreground, choice, room, inside, budget>>

Leaves ==
  /\ foreground # None /\ Spend("changes")
  /\ foreground' = None
  /\ UNCHANGED <<source, permitted, choice, room, inside>>

Alter ==
  /\ Spend("changes")
  /\ \E h \in Handles :
       \/ /\ Exists(h)
          /\ \E shape \in {"open", "minimized", "protected", "unavailable", "closed"} \ {source[h].shape} :
               source' = [source EXCEPT ![h].shape = shape]
       \/ \* another window is given the handle, in a moment that nobody sees
          source' = [source EXCEPT ![h] = [generation |-> @.generation + 1, shape |-> "open"]]
  /\ UNCHANGED <<foreground, permitted, choice, room, inside>>

Tick ==
  /\ \/ /\ Request # None /\ ~selection.ready
        /\ selection' = [selection EXCEPT !.ready = TRUE] /\ UNCHANGED timing
     \/ check /\ check' = FALSE /\ UNCHANGED <<selection, retry>>
     \/ retry /\ retry' = FALSE /\ UNCHANGED <<selection, check>>
  /\ UNCHANGED <<outside, pc, job, thumbnail, window, retiring, budget>>

Init ==
  /\ source = [h \in Handles |-> [generation |-> 1, shape |-> "open"]]
  /\ foreground = None /\ permitted = FALSE /\ choice = None
  /\ room = Max(Rooms)
  /\ pc = "idle" /\ job = NoJob
  /\ selection = NoSelection
  /\ thumbnail = None /\ window = None /\ retiring = FALSE
  /\ check = FALSE /\ retry = FALSE
  /\ budget = [changes |-> MaxChanges, moves |-> MaxMoves, faults |-> MaxFaults]

Next == Poll \/ Drop \/ Choose \/ Relocate \/ Leave \/ Repaint \/ Close \/ Revoke \/ Leaves \/ Alter \/ Tick

Elapse == Request # None /\ ~selection.ready /\ Tick /\ selection'.ready
CheckElapses == check /\ Tick /\ ~check'
RetryElapses == retry /\ Tick /\ ~retry'
\* The input timer polls for ever, and time passes.
Fairness == WF_vars(Poll) /\ WF_vars(Elapse) /\ WF_vars(CheckElapses) /\ WF_vars(RetryElapses)
Spec == Init /\ [][Next]_vars /\ Fairness

(***************************************************************************)
(* Properties.                                                             *)
(***************************************************************************)
Shapes == {"open", "minimized", "protected", "unavailable", "closed"}
Placeholders == {None} \cup (Shapes \ {"open"})
Identities == [handle : Handles, generation : Nat]
Requests == [source : Identities, surface : Surfaces, place : Everywhere]
Calculated == {Layouts[place][size][bytes] : place \in Everywhere, size \in Sizes, bytes \in Rooms}
Presentations == [layout : Calculated, placeholder : Placeholders]
Windows ==
  [id : Nat, alive : BOOLEAN, visible : BOOLEAN, presentation : {None} \cup Presentations,
   dirty : BOOLEAN, dpi : Nat]
Leases == [source : Identities, destination : Nat, layout : {None} \cup Calculated]
Steps == {"inspect", "ensure", "attach", "register", "size", "present", "prepare", "show", "failed"}

ASSUME NoneAssumption ==
  None \notin Requests /\ None \notin Presentations /\ None \notin Windows
    /\ None \notin Leases /\ None \notin Shapes

\* Every variable has its type.
TypeOK ==
  /\ source \in [Handles -> [generation : Nat, shape : Shapes]]
  /\ foreground \in Surfaces \cup {None} /\ permitted \in BOOLEAN
  /\ choice \in Requests \cup {None} /\ room \in Rooms
  /\ pc \in Steps \cup {"idle", "gate", "wanted", "dropped"}
  /\ job \in [placeholder : Placeholders, size : Sizes, failed : BOOLEAN]
  /\ selection \in [request : Requests \cup {None}, ready : BOOLEAN]
  /\ thumbnail \in Leases \cup {None} /\ window \in Windows \cup {None}
  /\ retiring \in BOOLEAN /\ check \in BOOLEAN /\ retry \in BOOLEAN
  /\ budget \in [changes : Nat, moves : Nat, faults : Nat]

Live == Visible /\ window.presentation.placeholder = None /\ Related

\* What is seen live is the window that is selected, and no other: neither the
\* one selected before nor one that took over the handle.
PictureIsSelection ==
  Visible => Request # None /\ (Live => thumbnail.source = Request.source)

\* The lease never outlives the window it draws into, not even at the end.
LeaseHasWindow == thumbnail # None => window # None /\ thumbnail.destination = window.id

\* It lies in the work area, next to the surface from which windows are
\* selected, and has room for a content inside its padding.
LiesClear ==
  LET b == window.presentation.layout
      a == Request.place.anchor
      work == Request.place.work
  IN /\ work.left <= b.left /\ b.right <= work.right /\ work.top <= b.top /\ b.bottom <= work.bottom
     /\ b.right <= a.left \/ a.right <= b.left \/ b.bottom <= a.top \/ a.bottom <= b.top
     /\ b.left + 2 * b.padding < b.right /\ b.top + 2 * b.padding < b.bottom

\* Every poll that looks at the source leaves the preview clear of the surface
\* where that is now, or not visible.  One that does not look - within the
\* interval of the last look, or before the retry after a failure - may leave
\* it where it was (preview.rs:110, 126, 225, preview/layout.rs:30).
LooksClear ==
  [][ (pc # "idle" /\ pc' = "idle" /\ Visible') =>
        LiesClear' \/ (pc = "gate" /\ check) \/ (pc = "wanted" /\ retry) ]_vars

\* The preview is true to what the user interface selects: the picture is that
\* of the selected window, its lease does not outlive the window it draws into,
\* and it is laid out clear of the surface whenever a poll looks (preview.rs:209,
\* 225, 262).
PictureIsTrue == PictureIsSelection /\ LeaseHasWindow
PreviewIsTrue == []PictureIsTrue /\ LooksClear

\* What the user should see of the source.
Wanted ==
  LET placeholder == Placeholder(choice.source)
      size == IF placeholder = None THEN Size[choice.source.handle] ELSE Wide
  IN [layout |-> IF Layout(choice.place, Wide) = None THEN None ELSE Layout(choice.place, size),
      placeholder |-> placeholder]
Settled ==
  IF Requested = None \/ Wanted.layout = None THEN ~Visible
  ELSE /\ Visible /\ window.presentation = Wanted
       /\ Wanted.placeholder = None =>
            thumbnail # None /\ thumbnail.source = choice.source /\ thumbnail.layout = Wanted.layout

\* Once nothing changes any more the preview shows what it should, and goes on
\* showing it: the live picture, the placeholder of a window that has none, or
\* nothing at all; also after failures, a lost window and a lease kept back.
Settles == <>[](Settled \/ pc = "dropped")
=============================================================================
