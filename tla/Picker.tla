-------------------------------- MODULE Picker --------------------------------
(***************************************************************************)
(* The native list from which the user opens or closes a window: the       *)
(* search list and the list of one application's windows.  The window      *)
(* procedures (picker/messages.rs, picker/input.rs, picker/scrollbar.rs    *)
(* and picker/close_confirmation) only note what the user asks for in the  *)
(* view; a later turn of the UI thread (SearchSession::poll and            *)
(* WindowDetails::poll) acts on it, and in between the rows may be         *)
(* replaced by a new snapshot or by the answer of the search worker.       *)
(*                                                                         *)
(* A handler is an operator from a view to a view (the record v), a poll   *)
(* an operator on all the state (the record x).  Rows are numbered from 1. *)
(***************************************************************************)
EXTENDS Naturals, Sequences, FiniteSets, SequencesExt

CONSTANTS Windows,    \* the identities of the windows listed
          Instances,  \* see PickerAssumption
          None

\* An instance: the kind of list, whether rows can be closed and whether that
\* is asked first, what a snapshot may contain, how well a window matches each
\* query (0: not at all; the first query is the empty text), the rows listed
\* and shown at most, what the user has at hand, and bounds on the times the
\* text changes and a snapshot is taken.
ASSUME PickerAssumption ==
  \A i \in Instances :
    /\ i.kind \in {"Search", "Details"} /\ i.close \in BOOLEAN /\ i.confirm \in BOOLEAN
    /\ i.snapshots \subseteq Seq(Windows) /\ i.snapshots # {}
    /\ i.scores \in Seq([Windows -> Nat]) /\ i.scores # <<>>
    /\ i.hands \subseteq {"keys", "pointer", "wheel", "input method"}
    /\ i.limit \in Nat \ {0} /\ i.page \in Nat \ {0} /\ i.texts \in Nat /\ i.refreshes \in Nat

VARIABLES
  setup,    \* the instance
  view,     \* ViewState and CloseState, and the native controls
  session,  \* SearchSession or WindowDetails
  text,     \* the text of the edit control, as a query
  mail,     \* the mailbox of the search worker
  asked,    \* a window snapshot was requested and has not been delivered
  enter,    \* the Enter key
  user,     \* what the user saw when acting, for the properties
  budget    \* changes of the text and snapshots left

vars == <<setup, view, session, text, mail, asked, enter, user, budget>>

Minimum(a, b) == IF a < b THEN a ELSE b
Place(s, e) == IF \E i \in DOMAIN s : s[i] = e THEN CHOOSE i \in DOMAIN s : s[i] = e ELSE 0

(***************************************************************************)
(* The native list                                                         *)
(***************************************************************************)
LastTop(v) == IF Len(v.rows) > setup.page THEN Len(v.rows) - setup.page ELSE 0
SetTop(v, top) == [v EXCEPT !.top = Minimum(top, LastTop(v))]
Shows(v, i) == i > v.top /\ i <= v.top + setup.page
\* LB_SETCURSEL scrolls the row into view.
Select(v, i) ==
  LET w == [v EXCEPT !.sel = i]
  IN  IF Shows(w, i) \/ i = 0 THEN w
      ELSE SetTop(w, IF i > w.top THEN i - setup.page ELSE i - 1)
\* The row at the pointer, which rests on a place of the list and not on a row.
ItemAt(v) ==
  IF v.mouse # 0 /\ v.top + v.mouse <= Len(v.rows) THEN v.top + v.mouse ELSE 0
FocusTarget(v) ==
  IF setup.kind = "Details" /\ (v.busy \/ v.rows = <<>>) THEN "button" ELSE "field"

(***************************************************************************)
(* Closing a window: CloseState.  A target carries the epoch, the row and  *)
(* the identity that were displayed.                                       *)
(***************************************************************************)
TargetAt(v, i) ==
  IF setup.close /\ v.visible /\ ~v.busy /\ ~v.failed /\ ~v.composing /\ ~v.updating
       /\ i \in DOMAIN v.targets
  THEN [epoch |-> v.epoch, index |-> i, id |-> v.targets[i]]
  ELSE None
SelectedTarget(v) == TargetAt(v, v.sel)
CancelClose(v) == [v EXCEPT !.pending = None, !.request = None, !.notice = FALSE]
Confirming(v) == v.pending # None

Hovered(v) ==
  IF v.focus = "close" /\ v.offered # None
  THEN IF TargetAt(v, v.offered.index) = v.offered THEN v.offered ELSE None
  ELSE TargetAt(v, ItemAt(v))

CloseShown(v) == v.offered # None /\ ~Confirming(v) /\ Shows(v, v.offered.index)
AnswersShown(v) == v.offered # None /\ Confirming(v) /\ Shows(v, v.offered.index)
\* Hiding the focused button gives the focus to the parent, which passes it on.
Unfocused(v) ==
  IF (v.focus = "close" /\ ~CloseShown(v)) \/ (v.focus \in {"yes", "no"} /\ ~AnswersShown(v))
  THEN [v EXCEPT !.focus = FocusTarget(v)] ELSE v

Refresh(v) ==
  IF v.updating THEN v
  ELSE LET now  == SelectedTarget(v)
           seen == IF v.displayed = now THEN v
                   ELSE [CancelClose(v) EXCEPT !.displayed = now]
           kept == IF Confirming(seen) /\ seen.pending # now THEN CancelClose(seen) ELSE seen
       IN  Unfocused([kept EXCEPT !.offered =
             IF Confirming(kept) \/ kept.notice THEN now ELSE Hovered(kept)])

Ends == {"CHANGED", "CANCEL", "BACK"}
Signal(v, flags) ==
  LET w == Refresh(IF flags \cap Ends # {} THEN CancelClose(v) ELSE v)
  IN  IF w.visible THEN [w EXCEPT !.flags = @ \cup flags, !.posted = TRUE] ELSE w

\* What every command ends with.
Commanded(v) ==
  [Signal(Refresh(v), {"RELAYOUT"}) EXCEPT !.focus = FocusTarget(v), !.posted = TRUE]

CloseCommand(v) ==
  LET r == Refresh(v)
      target == SelectedTarget(r)
  IN  IF v.updating THEN v
      ELSE IF Confirming(r) \/ r.request # None THEN r
      ELSE IF target = None THEN Commanded(r)
      ELSE IF setup.confirm THEN Commanded([r EXCEPT !.pending = target])
      ELSE Commanded([r EXCEPT !.request = target])

YesCommand(v) ==
  LET r == Refresh(v)
  IN  IF v.updating THEN v
      ELSE Commanded([r EXCEPT !.pending = None,
                               !.request = IF Confirming(r) /\ SelectedTarget(r) = r.pending
                                           THEN r.pending ELSE @])

NoCommand(v) == IF v.updating THEN v ELSE Commanded(CancelClose(Refresh(v)))

\* The mutant selects the row the button was pressed on without looking again.
SelectPlace(v, target) ==
  IF Confirming(v) \/ v.request # None \/ target = None
  THEN [ok |-> FALSE, view |-> v]
  ELSE [ok |-> TRUE, view |-> Select(v, Minimum(target.index, Len(v.rows)))]

SelectOffered(v, target) ==
  IF Confirming(v) \/ v.request # None \/ target = None
       \/ TargetAt(v, target.index) # target \/ v.offered # target
  THEN [ok |-> FALSE, view |-> v]
  ELSE [ok |-> TRUE, view |-> Select(v, target.index)]

\* A click of a native button, which may have been pressed some time before.
NativeClose(v) ==
  LET target == IF v.down = None THEN v.offered ELSE v.down.at
      chosen == SelectOffered([v EXCEPT !.down = None], target)
  IN  IF chosen.ok THEN CloseCommand(chosen.view) ELSE Refresh(chosen.view)

NativeYes(v) ==
  IF v.down # None /\ (v.down.at = None \/ v.down.at # SelectedTarget(v))
  THEN Refresh([v EXCEPT !.down = None])
  ELSE YesCommand([v EXCEPT !.down = None])

(***************************************************************************)
(* Replacing the rows                                                      *)
(***************************************************************************)
PendingRows(v) ==
  LET w == [CancelClose(v) EXCEPT !.busy = TRUE, !.failed = FALSE, !.accept = None,
                                  !.pressed = None]
  IN  Refresh([w EXCEPT !.focus = IF @ = "field" THEN FocusTarget(w) ELSE @])

Failure(v) == Refresh([PendingRows(v) EXCEPT !.failed = TRUE])

FinishRows(v, epoch) ==
  LET w == [v EXCEPT !.resetScroll = FALSE, !.epoch = epoch, !.accept = None,
                     !.failed = FALSE, !.busy = FALSE]
  IN  Refresh([w EXCEPT !.focus = IF @ = "field" THEN FocusTarget(w) ELSE @])

\* The list is emptied and filled; with "ok" FALSE it cannot be filled.
Replace(v, rows, selected, epoch, ok) ==
  LET emptied == [v EXCEPT !.busy = TRUE, !.accept = None, !.rows = <<>>, !.sel = 0, !.top = 0]
      filled  == [emptied EXCEPT !.rows = rows]
  IN  IF ~ok THEN Failure(emptied)
      ELSE FinishRows(IF rows = <<>> THEN filled ELSE Select(filled, selected), epoch)

ReplaceRows(v, rows, selected, epoch, ok) ==
  LET anchor == IF v.resetScroll \/ v.top + 1 > Len(v.rows) THEN 0
                ELSE Place(rows, v.rows[v.top + 1])
      w == [v EXCEPT !.pressed = IF @ \in Range(rows) THEN @ ELSE None]
      replaced == Replace(w, rows, selected, epoch, ok)
  IN  IF ~v.resetScroll /\ rows = v.rows THEN FinishRows(w, epoch)
      ELSE IF ok /\ anchor # 0 THEN SetTop(replaced, anchor - 1) ELSE replaced

\* The mutant lets the messages below see the identities of the old rows.
UpdatesInTheOpen(v) == v
\* update_close_targets: messages sent by the replacement come back to the
\* view and refresh it, which "updating" forbids until the table is right.
Updates(v) == [v EXCEPT !.updating = TRUE]
UpdateCloseTargets(updated, ids, ok) ==
  LET new == [Refresh(updated) EXCEPT !.targets = ids, !.updating = FALSE]
      now == SelectedTarget(new)
  IN  Refresh(
        IF ~ok THEN CancelClose(new)
        ELSE IF ~Confirming(new) THEN new
        ELSE IF now # None /\ now.id = new.pending.id
        THEN [new EXCEPT !.pending = now, !.displayed = now]
        ELSE CancelClose(new))

(***************************************************************************)
(* Showing and hiding; the text                                            *)
(***************************************************************************)
\* The mutant leaves the old rows on offer until the answer comes.
ChangedOffering(v) ==
  LET w == [Refresh(CancelClose(v)) EXCEPT !.resetScroll = TRUE, !.failed = FALSE,
                                           !.accept = None, !.pressed = None]
  IN  IF w.composing THEN w ELSE Signal(w, {"CHANGED"})

Changed(v) ==
  LET w == [Refresh(CancelClose(v)) EXCEPT
              !.resetScroll = TRUE, !.busy = TRUE, !.failed = FALSE,
              !.accept = None, !.pressed = None]
  IN  IF w.composing THEN w ELSE Signal(w, {"CHANGED"})

Hide(v, typed) ==
  LET w == [CancelClose(v) EXCEPT
              !.visible = FALSE, !.accept = None, !.flags = {}, !.composing = FALSE,
              !.suppress = FALSE, !.busy = TRUE, !.failed = FALSE, !.pressed = None,
              !.drag = FALSE, !.resetScroll = TRUE, !.rows = <<>>, !.sel = 0, !.top = 0]
  IN  IF typed THEN Changed(w) ELSE w

Show(v) ==
  LET w == PendingRows([CancelClose(v) EXCEPT
             !.flags = {}, !.composing = FALSE, !.suppress = FALSE, !.visible = TRUE])
  IN  [w EXCEPT !.focus = FocusTarget(w)]

SelectionAvailable(v) == v.visible /\ ~v.busy /\ ~v.composing

Accept(v) ==
  IF SelectionAvailable(v) /\ v.sel # 0
  THEN [v EXCEPT !.accept = [epoch |-> v.epoch, index |-> v.sel], !.posted = TRUE]
  ELSE v

(***************************************************************************)
(* Polls of the UI thread.  "filled" is whether the native list could be   *)
(* filled, "granted" whether the activation passed its native checks.      *)
(***************************************************************************)
Now == [view |-> view, session |-> session, text |-> text, mail |-> mail,
        asked |-> asked, user |-> user, budget |-> budget]
Become(x) ==
  /\ view' = x.view /\ session' = x.session /\ text' = x.text /\ mail' = x.mail
  /\ asked' = x.asked /\ user' = x.user /\ budget' = x.budget

Cancelled(m) == [m EXCEPT !.gen = @ + 1, !.request = None, !.out = None]
NoSession == [source |-> None, results |-> <<>>, selected |-> None, generation |-> 0,
              displayed |-> 0, pending |-> FALSE, query |-> 1, failure |-> FALSE]

\* complete_switch, which closes the view and cancels the snapshot request.
Complete(x) ==
  [x EXCEPT !.view = Hide(@, x.text # 1), !.text = 1, !.asked = "no",
            !.session = [NoSession EXCEPT !.generation = x.session.generation,
                           !.displayed = IF setup.kind = "Details"
                                         THEN x.session.displayed ELSE 0],
            !.mail = IF setup.kind = "Search" THEN Cancelled(@) ELSE @]

Remembered(x) ==
  IF SelectionAvailable(x.view)
  THEN [x EXCEPT !.session.selected =
          IF x.view.sel \in DOMAIN x.session.results
          THEN x.session.results[x.view.sel] ELSE None]
  ELSE x

Request(x, queryChanged) ==
  LET y == [x EXCEPT !.session.pending = TRUE, !.session.failure = FALSE,
                     !.view = IF queryChanged \/ x.session.results = <<>>
                              THEN PendingRows(@) ELSE @]
      gen == x.mail.gen + 1
  IN  IF x.session.source = None THEN y
      ELSE [y EXCEPT !.session.generation = gen,
                     !.mail = [@ EXCEPT !.gen = gen, !.out = None,
                                 !.request = [source |-> x.session.source,
                                              query |-> x.session.query]]]

Snapshot(x, rows) ==
  LET y == Remembered(x) IN Request([y EXCEPT !.session.source = rows], FALSE)

Did(x, op, id, saw) ==
  [x EXCEPT !.user = [@ EXCEPT !.did = [op |-> op, id |-> id, saw |-> saw]]]

RequestClose(x, id) ==
  Did([x EXCEPT !.view = Refresh([@ EXCEPT !.notice = TRUE])], "close", id,
      IF setup.confirm THEN {x.user.asked, x.user.meant} ELSE {x.user.meant})

Invalidated(x) ==
  [x EXCEPT !.mail = Cancelled(@), !.session.source = None, !.session.pending = TRUE,
            !.view = PendingRows(@)]

Activate(x, id, granted) ==
  LET y == Did(x, "open", id, {x.user.chosen})
  IN  IF granted THEN Complete(y)
      ELSE [(IF setup.kind = "Search" THEN Invalidated(y) ELSE y)
              EXCEPT !.asked = "asked", !.budget.refreshes = @ - 1]

\* The row an event is about, when it is about the rows displayed.
ClosedRow(x) ==
  LET e == x.view.request
  IN  IF e # None /\ e.epoch = x.session.displayed /\ e.index \in DOMAIN x.session.results
        /\ x.session.results[e.index] = e.id
      THEN e.id ELSE None
AcceptedRow(x) ==
  LET e == x.view.accept
  IN  IF e # None /\ e.epoch = x.session.displayed /\ e.index \in DOMAIN x.session.results
      THEN x.session.results[e.index] ELSE None

Taken(x) == [x EXCEPT !.view = [@ EXCEPT !.request = None, !.flags = {}, !.accept = None]]

ApplyResult(x, filled) ==
  LET out == x.mail.out
      y == [x EXCEPT !.mail.out = None]
      keep == Place(out.rows, x.session.selected)
      row == IF x.session.selected = None \/ keep = 0 THEN 1 ELSE keep
      updated == ReplaceRows(Updates(y.view), out.rows, row, out.gen, filled)
      shown == [y EXCEPT !.view = UpdateCloseTargets(updated, out.rows, filled)]
  IN  IF out = None \/ out.gen # x.session.generation THEN y
      ELSE IF ~out.ok
      THEN [y EXCEPT !.view = Failure(@), !.session.pending = TRUE, !.session.failure = TRUE]
      ELSE IF ~filled THEN Complete(shown)
      ELSE [shown EXCEPT !.session.results = out.rows, !.session.displayed = out.gen,
                         !.session.pending = FALSE]

PollSearch(x, filled, granted) ==
  LET flags == x.view.flags
      t == Taken(x)
      r == Remembered(t)
      laid == IF "RELAYOUT" \in flags THEN [r EXCEPT !.view = Refresh(@)] ELSE r
      changed == IF "CHANGED" \notin flags THEN laid
                 ELSE Request([laid EXCEPT !.session.query = x.text,
                                           !.session.selected = None], TRUE)
      acts == "CHANGED" \notin flags /\ SelectionAvailable(changed.view)
      closed == ClosedRow([changed EXCEPT !.view.request = x.view.request])
      opened == AcceptedRow([changed EXCEPT !.view.accept = x.view.accept])
  IN  IF ~x.view.visible THEN x
      ELSE IF "CANCEL" \in flags THEN Complete(t)
      ELSE IF ~x.mail.alive
      THEN IF x.session.failure THEN t
           ELSE [t EXCEPT !.view = Failure(@), !.session.failure = TRUE,
                          !.session.pending = TRUE]
      ELSE IF changed.view.composing THEN changed
      ELSE IF acts /\ closed # None THEN RequestClose(changed, closed)
      ELSE IF acts /\ opened # None THEN Activate(changed, opened, granted)
      ELSE ApplyResult(changed, filled)

\* WindowDetails: its records are the session's results, its epoch the
\* session's displayed generation.
ReplaceRecords(x, rows, previous, filled) ==
  LET keep == Place(rows, previous)
      row == IF previous = None \/ keep = 0 THEN 1 ELSE keep
      epoch == x.session.displayed + 1
      updated == Replace(Updates(x.view), rows, row, epoch, filled)
      y == [x EXCEPT !.session.displayed = epoch,
                     !.view = UpdateCloseTargets(updated, rows, filled)]
  IN  IF filled THEN [y EXCEPT !.session.results = rows] ELSE Complete(y)

RefreshRecords(x, rows, filled) ==
  ReplaceRecords(x, rows,
    IF x.view.sel \in DOMAIN x.session.results THEN x.session.results[x.view.sel] ELSE None,
    filled)

PollDetails(x, granted) ==
  LET flags == x.view.flags
      t == Taken(x)
      laid == IF "RELAYOUT" \in flags THEN [t EXCEPT !.view = Refresh(@)] ELSE t
  IN  IF ~x.view.visible THEN x
      ELSE IF "CANCEL" \in flags THEN Complete(t)
      ELSE IF "BACK" \in flags THEN [Complete(t) EXCEPT !.asked = t.asked]
      ELSE IF ClosedRow(x) # None THEN RequestClose(laid, ClosedRow(x))
      ELSE IF AcceptedRow(x) # None THEN Activate(laid, AcceptedRow(x), granted)
      ELSE laid

(***************************************************************************)
(* The turn of the UI thread                                               *)
(***************************************************************************)
Forget(x) ==
  [x EXCEPT !.user = [@ EXCEPT !.meant = IF x.view.request = None THEN None ELSE @,
                               !.chosen = IF x.view.accept = None THEN None ELSE @,
                               !.asked = IF x.view.pending = None /\ x.view.request = None
                                         THEN None ELSE @]]

\* poll_switching: the snapshot that arrived, and a new one when the panel or
\* the list is old; then poll_search or poll_details.
Delivered(x, rows, filled) ==
  LET y == [x EXCEPT !.asked = "no"]
  IN  IF x.asked # "ready" THEN x
      ELSE IF ~x.view.visible THEN y
      ELSE IF setup.kind = "Search" THEN Snapshot(y, rows)
      ELSE RefreshRecords(y, rows, filled)

Renewed(x, again) ==
  IF again /\ x.asked = "no" /\ x.view.visible /\ x.budget.refreshes > 0
       /\ (setup.kind = "Search" => x.session.source # None)
  THEN [x EXCEPT !.asked = "asked", !.budget.refreshes = @ - 1]
  ELSE x

Polled(x, filled, granted) ==
  IF setup.kind = "Search" THEN PollSearch(x, filled, granted) ELSE PollDetails(x, granted)

Turn ==
  /\ view.posted
  /\ \E filled, granted, again \in BOOLEAN, rows \in setup.snapshots :
       /\ asked = "ready" \/ rows = CHOOSE r \in setup.snapshots : TRUE
       /\ granted \/ (view.accept # None /\ budget.refreshes > 0)
       /\ filled \/ asked = "ready" \/ mail.out # None
       /\ LET x == [Now EXCEPT !.view.posted = FALSE, !.user.did = None]
          IN  Become(Forget(
                Polled(Renewed(Delivered(x, rows, filled), again), filled, granted)))
  /\ UNCHANGED <<setup, enter>>

\* A hotkey opens the list when none is shown.
Open ==
  /\ ~view.visible /\ budget.refreshes > 0
  /\ LET x == [Now EXCEPT !.view = Show(@), !.session.pending = TRUE, !.asked = "asked",
                          !.user.did = None, !.budget.refreshes = @ - 1]
     IN  \E rows \in setup.snapshots :
           IF setup.kind = "Search" THEN Become(x)
           ELSE LET y == ReplaceRecords(x, rows, rows[1], TRUE)
                IN  Become([y EXCEPT !.view.focus = FocusTarget(y.view)])
  /\ enter' = [enter EXCEPT !.repeats = FALSE]
  /\ UNCHANGED setup

(***************************************************************************)
(* The user: messages the window procedures handle between two turns       *)
(***************************************************************************)
\* The view becomes w.  "shown" is the window named by the row the user acted
\* on when a command was given for it, "chosen" the one of a row opened.
Handle(w, shown, chosen) ==
  /\ view' = w
  /\ user' = [user EXCEPT
       !.did = None,
       !.asked = IF Confirming(w) /\ w.pending # view.pending THEN shown ELSE @,
       !.meant = IF view.request = None /\ w.request # None THEN shown
                 ELSE IF w.request = None THEN None ELSE @,
       !.chosen = IF w.accept # None /\ w.accept # view.accept THEN chosen
                  ELSE IF w.accept = None THEN None ELSE @]
  /\ UNCHANGED <<setup, session, mail, asked, budget>>

RowShown(v) == IF v.sel \in DOMAIN v.rows THEN v.rows[v.sel] ELSE None
Listening(hand) == view.visible /\ hand \in setup.hands
Quiet(w) == Handle(w, RowShown(view), RowShown(view)) /\ UNCHANGED text
Typed(w) == Quiet(w) /\ enter' = [enter EXCEPT !.repeats = FALSE]

CtrlW == Listening("keys") /\ ~view.composing /\ Typed(CloseCommand(view))

Escape ==
  /\ Listening("keys") /\ ~view.composing
  /\ Typed(IF Confirming(view) THEN NoCommand(view)
           ELSE Signal(view, {IF setup.kind = "Details" THEN "BACK" ELSE "CANCEL"}))

Arrow ==
  /\ Listening("keys") /\ ~view.composing /\ ~view.busy /\ view.focus = "field" /\ view.rows # <<>>
  /\ \E i \in {view.sel - 1, view.sel + 1} \cap DOMAIN view.rows :
       Typed(Signal(Select(view, i), {}))

TabOrder(v) ==
  SelectSeq(IF setup.kind = "Details" THEN <<"field", "button", "close", "yes", "no">>
            ELSE <<"button", "field", "close", "yes", "no">>,
            LAMBDA c : /\ c = "close" => CloseShown(v) /\ v.request = None
                       /\ c \in {"yes", "no"} => AnswersShown(v) /\ v.request = None
                       /\ c = "field" /\ setup.kind = "Details" => ~v.busy /\ v.rows # <<>>)
Tab ==
  /\ Listening("keys") /\ ~view.composing
  /\ LET order == TabOrder(view)
         n == Len(order)
         at == IF Place(order, view.focus) = 0 THEN 1 ELSE Place(order, view.focus)
     IN  \E i \in {(at % n) + 1, ((at + n - 2) % n) + 1} :
           Typed(Refresh([view EXCEPT !.focus = order[i]]))

\* The mutant takes a repetition of the key for another press.
EnterKeyRepeating(v, first) ==
  IF Confirming(v) THEN YesCommand([v EXCEPT !.suppress = TRUE])
  ELSE IF v.suppress THEN v
  ELSE IF v.focus = "close" THEN NativeClose([v EXCEPT !.suppress = TRUE])
  ELSE Accept(v)

\* Return: the first press and its repetitions by the keyboard.
EnterKey(v, first) ==
  IF Confirming(v)
  THEN IF ~first THEN v
       ELSE IF v.focus = "no" THEN NoCommand([v EXCEPT !.suppress = TRUE])
       ELSE YesCommand([v EXCEPT !.suppress = TRUE])
  ELSE IF v.suppress THEN v
  ELSE IF v.focus = "button"
  THEN IF setup.kind = "Details" THEN Signal(v, {"BACK"})
       ELSE Signal([v EXCEPT !.focus = "field"], {"RELAYOUT"})
  ELSE IF v.focus \in {"close", "yes", "no"}
  THEN IF first THEN NativeClose([v EXCEPT !.suppress = TRUE]) ELSE v
  ELSE Accept(v)

EnterDoes(v, w, first) ==
  IF v.composing THEN {"compose"}
  ELSE IF w.accept # v.accept /\ w.accept # None THEN {"accept"}
  ELSE IF Confirming(v) /\ ~Confirming(w) THEN {"answer"}
  ELSE IF (w.request # None /\ v.request = None) \/ (Confirming(w) /\ ~Confirming(v))
  THEN {"close"}
  ELSE {}

EnterDown ==
  /\ Listening("keys") /\ (enter.down => enter.repeats)
  /\ LET w == IF view.composing THEN view ELSE EnterKey(view, ~enter.down)
         aimed == IF view.focus = "close" /\ view.offered # None
                    /\ view.offered.index \in DOMAIN view.rows
                  THEN view.rows[view.offered.index] ELSE RowShown(view)
     IN  /\ Handle(w, IF Confirming(view) THEN RowShown(view) ELSE aimed, RowShown(view))
         /\ enter' = [down |-> TRUE, repeats |-> TRUE,
                      did |-> enter.did \cup EnterDoes(view, w, ~enter.down)]
  /\ UNCHANGED text

EnterUp ==
  /\ enter.down
  /\ enter' = [down |-> FALSE, repeats |-> FALSE, did |-> {}]
  /\ Quiet(IF view.visible THEN [view EXCEPT !.suppress = FALSE] ELSE view)

Edits(w) ==
  /\ view' = w /\ budget' = [budget EXCEPT !.texts = @ - 1]
  /\ user' = [user EXCEPT !.did = None, !.asked = None, !.meant = None, !.chosen = None]
  /\ UNCHANGED <<setup, session, mail, asked>>

\* EN_CHANGE, also while an input method composes.
Type ==
  /\ Listening("keys") /\ setup.kind = "Search" /\ view.focus = "field" /\ budget.texts > 0
  /\ \E q \in DOMAIN setup.scores \ {text} : text' = q
  /\ Edits(Changed(view))
  /\ enter' = [enter EXCEPT !.repeats = FALSE]

ComposeStarts(v) == Changed([v EXCEPT !.composing = TRUE])
\* The mutant does not take the end of a composition for a change.
ComposeEndsSilently(v, held) == [v EXCEPT !.composing = FALSE, !.suppress = held]
ComposeEnds(v, held) == Changed([v EXCEPT !.composing = FALSE, !.suppress = held])

Compose ==
  /\ Listening("input method") /\ setup.kind = "Search" /\ view.focus = "field"
  /\ \/ /\ ~view.composing /\ budget.texts > 0
        /\ Edits(ComposeStarts(view)) /\ enter' = [enter EXCEPT !.repeats = FALSE]
     \/ view.composing /\ Handle(ComposeEnds(view, enter.down), None, None) /\ UNCHANGED enter
  /\ UNCHANGED text

\* The pointer.  The buttons of a row lie over the list and keep the pointer's row.
PointerMoves ==
  /\ Listening("pointer")
  /\ \E p \in 0..setup.page : p # view.mouse /\ Quiet(Refresh([view EXCEPT !.mouse = p]))
  /\ UNCHANGED enter

ListDown(v) ==
  LET w == IF setup.kind = "Search"
           THEN [v EXCEPT !.pressed = IF ItemAt(v) = 0 THEN None ELSE v.rows[ItemAt(v)]]
           ELSE v
  IN  [Select(w, ItemAt(v)) EXCEPT !.focus = "field"]

ListUp(v) ==
  LET w == Signal([v EXCEPT !.pressed = None], {})
  IN  IF setup.kind = "Search" /\ v.pressed # None /\ ItemAt(w) # 0
           /\ w.rows[ItemAt(w)] = v.pressed
      THEN Accept(Select(w, ItemAt(w))) ELSE w

ListPressed ==
  /\ Listening("pointer") /\ ~view.busy /\ ~view.drag /\ ItemAt(view) # 0
  /\ Quiet(ListDown(view)) /\ UNCHANGED enter
ListReleased ==
  /\ Listening("pointer") /\ ~view.busy /\ ~view.drag /\ ItemAt(view) # 0
  /\ Handle(ListUp(view), RowShown(view), view.pressed) /\ UNCHANGED <<text, enter>>
DoubleClick ==
  /\ Listening("pointer") /\ setup.kind = "Details" /\ ItemAt(view) # 0
  /\ Handle(Accept(Select(view, ItemAt(view))), None, view.rows[ItemAt(view)])
  /\ UNCHANGED <<text, enter>>

\* Buttons of a row: pressed with the pointer or the space bar, later clicked,
\* or clicked by an accessibility client without being pressed.
Press(w) ==
  /\ view' = w
  /\ user' = [user EXCEPT !.did = None, !.aimed = view.rows[view.offered.index]]
  /\ UNCHANGED <<setup, session, text, mail, asked, budget>>
ButtonPressed ==
  /\ Listening("pointer") /\ view.request = None
  /\ \/ /\ CloseShown(view)
        /\ Press(Refresh([view EXCEPT !.down = [at |-> view.offered], !.focus = "close"]))
     \/ /\ AnswersShown(view)
        /\ Press(Refresh([view EXCEPT !.down = [at |-> SelectedTarget(view)], !.focus = "yes"]))
  /\ UNCHANGED enter

ButtonClicked ==
  /\ Listening("pointer") /\ view.request = None
  /\ \/ /\ CloseShown(view)
        /\ Handle(NativeClose(view),
             IF view.down # None THEN user.aimed ELSE view.rows[view.offered.index], None)
     \/ /\ AnswersShown(view) /\ Handle(NativeYes(view), RowShown(view), None)
  /\ UNCHANGED <<text, enter>>

\* The wheel, and the scroll indicator dragged to another row.
Scrolls ==
  /\ Listening("wheel") /\ ~view.busy /\ LastTop(view) > 0
  /\ \E top \in 0..LastTop(view) \ {view.top} :
       \/ ~view.drag /\ top \in {view.top - 1, view.top + 1}
            /\ Quiet(IF setup.kind = "Search"
                     THEN Signal([SetTop(view, top) EXCEPT !.pressed = None], {})
                     ELSE Refresh(SetTop(view, top)))
       \/ setup.kind = "Search"
            /\ Quiet(Signal([SetTop(view, top) EXCEPT
                              !.pressed = IF view.drag THEN @ ELSE None, !.drag = TRUE], {}))
  /\ UNCHANGED enter
DragEnds ==
  Listening("wheel") /\ view.drag /\ Quiet([view EXCEPT !.drag = FALSE]) /\ UNCHANGED enter

\* The window loses the activation or is closed; its size or style changes.
Deactivated == view.visible /\ Quiet(Signal(view, {"CANCEL"})) /\ UNCHANGED enter
Relayout == view.visible /\ Quiet(Signal(view, {"RELAYOUT"})) /\ UNCHANGED enter

User ==
  \/ CtrlW \/ Escape \/ Arrow \/ Tab \/ EnterDown \/ EnterUp \/ Type \/ Compose
  \/ PointerMoves \/ ListPressed \/ ListReleased \/ DoubleClick \/ ButtonPressed
  \/ ButtonClicked \/ Scrolls \/ DragEnds \/ Deactivated \/ Relayout

(***************************************************************************)
(* The workers                                                             *)
(***************************************************************************)
\* SearchIndex::find: the matching windows, best score first, then in the
\* order of the snapshot.
Found(source, q) ==
  LET score(i) == setup.scores[q][source[i]]
      order == SetToSortSeq({i \in DOMAIN source : score(i) # 0},
                 LAMBDA i, j : score(i) < score(j) \/ (score(i) = score(j) /\ i < j))
  IN  [k \in 1..Minimum(Len(order), setup.limit) |-> source[order[k]]]

WorkerAnswers ==
  /\ mail.alive /\ mail.request # None
  /\ \E ok \in BOOLEAN :
       mail' = [mail EXCEPT !.request = None,
                  !.out = [gen |-> mail.gen, ok |-> ok,
                           rows |-> IF ok THEN Found(mail.request.source, mail.request.query)
                                    ELSE <<>>]]
  /\ view' = [view EXCEPT !.posted = TRUE]
  /\ user' = [user EXCEPT !.did = None]
  /\ UNCHANGED <<setup, session, text, asked, enter, budget>>

\* The worker cannot enter its COM apartment when its thread starts.
WorkerFails ==
  /\ mail.alive /\ mail.gen = 0 /\ setup.kind = "Search"
  /\ mail' = [mail EXCEPT !.alive = FALSE]
  /\ view' = [view EXCEPT !.posted = TRUE]
  /\ user' = [user EXCEPT !.did = None]
  /\ UNCHANGED <<setup, session, text, asked, enter, budget>>

SnapshotArrives ==
  /\ asked = "asked" /\ asked' = "ready"
  /\ view' = [view EXCEPT !.posted = TRUE]
  /\ user' = [user EXCEPT !.did = None]
  /\ UNCHANGED <<setup, session, text, mail, enter, budget>>

InitView ==
  [visible |-> FALSE, busy |-> TRUE, failed |-> FALSE, composing |-> FALSE,
   suppress |-> FALSE, flags |-> {}, posted |-> FALSE, epoch |-> 0, accept |-> None,
   rows |-> <<>>, sel |-> 0, top |-> 0, mouse |-> 0, focus |-> "field",
   targets |-> <<>>, updating |-> FALSE, pending |-> None, displayed |-> None,
   request |-> None, offered |-> None, notice |-> FALSE, down |-> None,
   pressed |-> None, drag |-> FALSE, resetScroll |-> TRUE]

Init ==
  /\ setup \in Instances
  /\ view = InitView /\ session = NoSession /\ text = 1
  /\ mail = [alive |-> TRUE, gen |-> 0, request |-> None, out |-> None]
  /\ asked = "no"
  /\ enter = [down |-> FALSE, repeats |-> FALSE, did |-> {}]
  /\ user = [meant |-> None, asked |-> None, aimed |-> None, chosen |-> None, did |-> None]
  /\ budget = [texts |-> setup.texts, refreshes |-> setup.refreshes]

Next == Turn \/ Open \/ User \/ WorkerAnswers \/ WorkerFails \/ SnapshotArrives
Spec == Init /\ [][Next]_vars

\* The UI thread takes the message posted for it (only Turn does, and it can
\* whenever there is one), and the workers answer: all three run for as long
\* as the program does.
Fairness ==
  /\ []<>(~view.posted)
  /\ WF_vars(WorkerAnswers) /\ WF_vars(SnapshotArrives)
FairSpec == Spec /\ Fairness

(***************************************************************************)
(* Properties                                                              *)
(***************************************************************************)
\* The window a turn closes or opens is the one named by the row the user
\* acted on, both when asking to close it and when confirming, though the rows
\* may have been replaced, sorted or scrolled between the act and the turn
\* (the epoch and identity checks of CloseEvent and SearchSession::poll).
ActsOnWhatWasShown == user.did # None => user.did.saw = {user.did.id}

\* Rows that can be opened are the answer to the text the user has typed:
\* results of an earlier text are never on offer after a change.
RowsAnswerTheText ==
  setup.kind = "Search" /\ SelectionAvailable(view) /\ ~view.failed =>
    /\ session.query = text
    /\ \A i \in DOMAIN view.rows : setup.scores[text][view.rows[i]] # 0

\* One press of Return does one thing: a key that asks, answers or ends a
\* composition neither answers its own question nor opens a row by repeating.
ReturnActsOnce == Cardinality(enter.did) <= 1

\* A question survives the background replacement of the rows as long as the
\* window is still listed and the user has not moved on.
QuestionSurvives ==
  [][(/\ view.posted /\ ~view'.posted /\ Confirming(view) /\ view.flags \subseteq {"RELAYOUT"}
      /\ user.asked = RowShown(view) /\ SelectedTarget(view) = view.pending
      /\ SelectionAvailable(view') /\ user.asked \in Range(view'.rows))
     => (Confirming(view') /\ view'.pending.id = user.asked)]_vars

\* A list that is waiting is answered: it gets its rows, or says that it
\* failed (once for a worker that is gone), unless the user closes it or keeps
\* composing.
WaitingEnds ==
  (view.visible /\ view.busy /\ ~view.composing)
    ~> (~view.visible \/ ~view.busy \/ session.failure \/ view.composing)

\* What the user sees and does in a picker is what counts: the rows are the
\* answer to the text, what is done is done to the window that was shown, and
\* it is done once (picker/messages.rs:118, search.rs:199, picker/input.rs:237).
ActsAsMeant == ActsOnWhatWasShown /\ RowsAnswerTheText /\ ReturnActsOnce
=============================================================================
