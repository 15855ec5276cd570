------------------------------- MODULE Windows -------------------------------
(***************************************************************************)
(* What the program knows of the windows of the desktop.  The UI thread    *)
(* notes the native events (foreground.rs, window_snapshot/lifetimes.rs);  *)
(* the snapshot worker (window_snapshot.rs) resolves the process in the    *)
(* foreground, keeps the most-recently-used order (mru.rs) and scans the   *)
(* windows (window_snapshot/scan.rs).  The two share only atomics and      *)
(* mutexes the UI thread never waits for, so every read of one thread may  *)
(* be old when it is used; meanwhile windows come and go, and a handle or  *)
(* a process number may be used again.                                     *)
(***************************************************************************)
EXTENDS Naturals, Sequences, FiniteSets, SequencesExt

CONSTANTS Handles,    \* native window handles
          Processes,  \* process identities, records with the fields pid and created
          Setups,     \* see WindowsAssumption
          None

Kinds == {"Apps", "Windows", "Search"}

\* A setup: the windows at the start in z-order and the process of each; the
\* executable of a process, and the processes that cannot be queried or are
\* elevated; the handles of this program, the owner of a window, what a window
\* looks like and the filter of each kind; the blacklists; the grouping, the
\* kinds ordered by use and the limits of the tables; and bounds on the moves
\* of the desktop, the locks found busy and the snapshots asked for.
WindowsAssumption ==
  \A s \in Setups :
    /\ s.start \in Seq(Handles) /\ DOMAIN s.process = Handles /\ DOMAIN s.exe = Processes
    /\ \A h \in Handles : s.process[h] \in Processes /\ s.owner[h] \in Handles \cup {None}
    /\ s.denied \subseteq Processes /\ s.elevated \subseteq Processes /\ s.admin \in BOOLEAN
    /\ s.own \subseteq Handles /\ s.kinds \subseteq Kinds /\ s.mru \subseteq Kinds
    /\ s.opens \subseteq Handles \X Processes
    /\ {s.recent, s.cached, s.noted, s.capacity} \subseteq Nat \ {0}
    /\ s.expires \in BOOLEAN /\ s.moves \in Nat /\ s.busy \in Nat /\ s.scans \in Nat

VARIABLES
  setup,   \* the setup
  desk,    \* native windows, the foreground, and the events on their way
  life,    \* WindowLifetimes
  front,   \* ForegroundStatus
  ui,      \* the event the UI thread is handling
  worker,  \* the snapshot worker
  cache,   \* ProcessMetadataCache, least recently used first
  mru,     \* Mru
  mail,    \* the mailbox of the snapshot worker
  budget,  \* moves, busy locks and requests left
  ghost    \* what happened since the scan began, for the properties

vars == <<setup, desk, life, front, ui, worker, cache, mru, mail, budget, ghost>>

Own == [pid |-> 0, created |-> 0]   \* this process
Frame == "ApplicationFrameHost.exe"

(***************************************************************************)
(* The desktop.  "lives" counts the windows a handle has named.            *)
(***************************************************************************)
ProcessOf(h) == desk.process[h]
IsWindow(h) == h \in Range(desk.zorder)

Event(kind, h) == [kind |-> kind, h |-> h]
\* The hooks skip the windows of this process (WINEVENT_SKIPOWNPROCESS).
Told(d, kind, h) ==
  IF d.process[h] = Own THEN d ELSE [d EXCEPT !.events = Append(@, Event(kind, h))]
Fronted(d, h) ==
  Told([d EXCEPT !.fg = h, !.zorder = <<h>> \o SelectSeq(@, LAMBDA v : v # h)], "foreground", h)

Disturbed(touched) == ghost' = [ghost EXCEPT !.quiet = FALSE, !.steady = @ \ touched]

Move(d, touched) ==
  /\ budget.moves > 0 /\ budget' = [budget EXCEPT !.moves = @ - 1]
  /\ desk' = d /\ Disturbed(touched)
  /\ UNCHANGED <<setup, life, front, ui, worker, cache, mru, mail>>

OpenWindow ==
  \E o \in setup.opens :
    /\ ~IsWindow(o[1])
    /\ Move(Told([desk EXCEPT !.zorder = Append(@, o[1]), !.process[o[1]] = o[2],
                              !.lives[o[1]] = @ + 1], "lifetime", o[1]),
            {o[1]})

CloseWindow ==
  \E h \in Range(desk.zorder) :
    LET d == Told([desk EXCEPT !.zorder = SelectSeq(@, LAMBDA v : v # h)], "lifetime", h)
    IN  Move(IF desk.fg # h THEN d
             ELSE IF d.zorder = <<>> THEN [d EXCEPT !.fg = None]
             ELSE Fronted(d, d.zorder[1]), {h})

FocusWindow ==
  \E h \in Range(desk.zorder) : h # desk.fg /\ Move(Fronted(desk, h), {})

Desktop == OpenWindow \/ CloseWindow \/ FocusWindow

(***************************************************************************)
(* WindowLifetimes.  A lock may be found busy: the caller never waits.     *)
(***************************************************************************)
Busy == {FALSE} \cup {b \in {TRUE} : budget.busy > 0}
Spent(b) == budget' = IF b THEN [budget EXCEPT !.busy = @ - 1] ELSE budget

Sequence(h) == IF h \in DOMAIN life.entries THEN life.entries[h] ELSE 0
Stamp(h) == [epoch |-> life.epoch, sequence |-> Sequence(h)]
Matches(h, stamp) == stamp = Stamp(h)

InvalidateAll(l) == [l EXCEPT !.epoch = @ + 1, !.revision = @ + 1]
\* The mutant forgets the full table without a new epoch.
NotedSilently(l, h, sequence) ==
  LET full == Cardinality(DOMAIN l.entries) >= setup.noted
      kept == IF full THEN {} ELSE DOMAIN l.entries
  IN  [l EXCEPT !.entries = [g \in kept \cup {h} |-> IF g = h THEN sequence ELSE l.entries[g]]]
Noted(l, h, sequence) ==
  LET full == Cardinality(DOMAIN l.entries) >= setup.noted
      kept == IF full THEN {} ELSE DOMAIN l.entries
  IN  [l EXCEPT !.entries = [g \in kept \cup {h} |-> IF g = h THEN sequence ELSE l.entries[g]],
                !.epoch = IF full THEN @ + 1 ELSE @]

(***************************************************************************)
(* Native events on the UI thread: win_event_proc.  ForegroundStatus's     *)
(* request and WindowLifetimes' event are two steps each.                  *)
(***************************************************************************)
Deliver ==
  /\ ui.pc = "idle" /\ desk.events # <<>>
  /\ desk' = [desk EXCEPT !.events = Tail(@)]
  /\ LET e == Head(desk.events)
     IN  IF e.kind = "foreground" /\ e.h \in setup.own
         THEN UNCHANGED <<front, ui, life>>
         ELSE IF e.kind = "foreground"
         THEN /\ front' = [front EXCEPT !.requested = e.h]
              /\ ui' = [pc |-> "version", h |-> e.h, sequence |-> 0] /\ UNCHANGED life
         ELSE /\ life' = [life EXCEPT !.revision = @ + 1]
              /\ ui' = [pc |-> "entry", h |-> e.h, sequence |-> life.revision + 1]
              /\ UNCHANGED front
  /\ UNCHANGED <<setup, worker, cache, mru, mail, budget, ghost>>

RequestVersion ==
  /\ ui.pc = "version" /\ ui' = [ui EXCEPT !.pc = "idle"]
  /\ front' = [front EXCEPT !.version = @ + 1]
  /\ UNCHANGED <<setup, desk, life, worker, cache, mru, mail, budget, ghost>>

NoteEntry ==
  /\ ui.pc = "entry" /\ ui' = [ui EXCEPT !.pc = "idle"]
  /\ \E b \in Busy :
       /\ life' = IF b THEN InvalidateAll(life) ELSE Noted(life, ui.h, ui.sequence)
       /\ Spent(b)
       /\ ghost' = IF life'.epoch = life.epoch THEN [ghost EXCEPT !.steady = @ \ {ui.h}]
                   ELSE [quiet |-> FALSE, steady |-> {}, lost |-> TRUE]
  /\ UNCHANGED <<setup, desk, front, worker, cache, mru, mail>>

\* The snapshot requests and cancellations of the sessions.
Ask ==
  /\ budget.scans > 0 /\ budget' = [budget EXCEPT !.scans = @ - 1]
  /\ \E kind \in setup.kinds :
       mail' = [gen |-> mail.gen + 1, request |-> kind, out |-> None]
  /\ UNCHANGED <<setup, desk, life, front, ui, worker, cache, mru, ghost>>

CancelScan ==
  /\ worker.list # <<>> /\ worker.gen = mail.gen
  /\ mail' = [gen |-> mail.gen + 1, request |-> None, out |-> None]
  /\ UNCHANGED <<setup, desk, life, front, ui, worker, cache, mru, budget, ghost>>

(***************************************************************************)
(* ForegroundStatus: may the keyboard hook act on a hotkey now?            *)
(***************************************************************************)
\* "unknown" is the policy of the configuration.
Blacklist(apps) == IF apps THEN setup.appsBlacklist ELSE setup.windowsBlacklist
Allows(apps, unknown) ==
  LET s == front.snapshot
      owned == desk.fg # None /\ desk.fg \in setup.own
  IN  IF desk.fg = None THEN unknown
      ELSE IF Blacklist(apps) = {} THEN TRUE
      ELSE IF s = None \/ s.version # front.version \/ ~(s.window = desk.fg \/ owned) THEN unknown
      ELSE IF apps THEN s.apps ELSE s.windows

(***************************************************************************)
(* ProcessMetadataCache::lookup by process number, of the process that has *)
(* it now.  "expired" is whether an entry found is too old.  A failed      *)
(* query is remembered too.                                                *)
(***************************************************************************)
Latest(s, n) == SubSeq(s, IF Len(s) > n THEN Len(s) - n + 1 ELSE 1, Len(s))
Ages == IF setup.expires THEN BOOLEAN ELSE {FALSE}
Cached(p) == {i \in DOMAIN cache : cache[i].process = p}
Fresh(p) == [process |-> p, value |-> IF p \in setup.denied THEN None ELSE setup.exe[p]]
\* The mutant finds an entry by the process number alone.
LookupByNumber(p, expired) ==
  LET hits == {i \in DOMAIN cache : cache[i].process.pid = p.pid}
      e == IF hits # {} /\ ~expired THEN cache[CHOOSE i \in hits : TRUE] ELSE Fresh(p)
      rest == SelectSeq(cache, LAMBDA c : c # e)
  IN  [value |-> e.value, cache |-> Append(Latest(rest, setup.cached - 1), e)]
Lookup(p, expired) ==
  LET hit == Cached(p) # {} /\ ~expired
      e == IF hit THEN cache[CHOOSE i \in Cached(p) : TRUE] ELSE Fresh(p)
      rest == SelectSeq(cache, LAMBDA c : IF hit THEN c # e ELSE c.process.pid # p.pid)
  IN  [value |-> e.value, cache |-> Append(Latest(rest, setup.cached - 1), e)]

(***************************************************************************)
(* The worker.  Between two windows of a scan and between two requests it  *)
(* resolves the foreground and observes it in the MRU; "then" says where   *)
(* it goes on.                                                             *)
(***************************************************************************)
Idle == [pc |-> "receive", then |-> "receive", version |-> 0, h |-> None, process |-> None,
         value |-> None, stamp |-> None, resolved |-> 0, gen |-> 0, kind |-> None,
         list |-> <<>>, next |-> 1, records |-> <<>>]
At(pc) == worker.pc = pc
Goto(pc) == [worker EXCEPT !.pc = pc]
\* The local variables of a call are gone when it returns.
Return(pc) == [worker EXCEPT !.pc = pc, !.version = 0, !.h = None, !.process = None,
                             !.value = None, !.stamp = None]
\* The next window of the scan; and the end of the scan.
Skip == [Return(IF worker.next = Len(worker.list) THEN "publish" ELSE "resolve")
           EXCEPT !.next = @ + 1]
Rest == [Idle EXCEPT !.pc = "resolve", !.resolved = worker.resolved]
Steady == UNCHANGED <<setup, desk, life, front, ui>>

\* resolve_pending: the version, then the window and its process, then the
\* comparison with what was requested meanwhile, then the new snapshot.
ResolveVersion ==
  /\ At("resolve")
  /\ worker' = [worker EXCEPT !.version = front.version, !.process = None,
                  !.pc = IF worker.resolved = front.version THEN "observe" ELSE "query"]
  /\ Steady /\ UNCHANGED <<cache, mru, mail, budget, ghost>>

ResolveQuery ==
  /\ At("query")
  /\ LET h == front.requested
     IN  \E expired \in Ages :
           IF h = None \/ ~IsWindow(h)
           THEN ~expired /\ UNCHANGED cache /\ worker' = [Goto("compare") EXCEPT !.h = h]
           ELSE LET found == Lookup(ProcessOf(h), expired)
                IN  /\ expired => Cached(ProcessOf(h)) # {}
                    /\ cache' = found.cache
                    /\ worker' = [worker EXCEPT !.pc = "compare", !.h = h, !.value = found.value,
                                    !.process = IF found.value = None THEN None ELSE ProcessOf(h)]
  /\ Steady /\ UNCHANGED <<mru, mail, budget, ghost>>

ResolveCompare ==
  /\ At("compare")
  /\ worker' = IF front.version = worker.version /\ front.requested = worker.h
               THEN Goto("conclude")
               ELSE [worker EXCEPT !.pc = "observe", !.process = None]
  /\ Steady /\ UNCHANGED <<cache, mru, mail, budget, ghost>>

Conclusion ==
  IF worker.value = None THEN None
  ELSE [window |-> worker.h, version |-> worker.version,
        windows |-> worker.value \notin setup.windowsBlacklist,
        apps |-> worker.value \notin setup.appsBlacklist]
\* The mutant takes the version as it is when the query is over.
ResolvedNow == front.version
ResolvedVersion == worker.version
ResolveConclude ==
  /\ At("conclude")
  /\ front' = [front EXCEPT !.snapshot = Conclusion]
  /\ worker' = [worker EXCEPT !.pc = "observe", !.resolved = ResolvedVersion]
  /\ UNCHANGED <<setup, desk, life, ui, cache, mru, mail, budget, ghost>>

\* Mru::observe_foreground: forget the windows that are gone, then note the
\* foreground if its identity can be taken.
Enabled == setup.mru # {}
Pruned(m, busy) ==
  IF m.revision = life.revision THEN m
  ELSE [m EXCEPT !.revision = life.revision,
                 !.recent = SelectSeq(@, LAMBDA e : e.id.h # busy /\ Matches(e.id.h, e.id.stamp))]
Observe ==
  /\ At("observe")
  /\ \E b \in Busy, h \in Handles \cup {None} :
       /\ IF b THEN Enabled /\ mru.revision # life.revision
                    /\ \E i \in DOMAIN mru.recent : mru.recent[i].id.h = h
          ELSE h = None
       /\ mru' = IF Enabled THEN Pruned(mru, h) ELSE mru
       /\ Spent(b)
       /\ ghost' = IF b THEN [ghost EXCEPT !.quiet = FALSE, !.lost = TRUE] ELSE ghost
  /\ worker' = IF worker.process = None \/ ~Enabled THEN Return(worker.then) ELSE Goto("stamp")
  /\ Steady /\ UNCHANGED <<cache, mail>>

\* WindowIdentity::from_process, for the foreground and for a scanned window:
\* the lifetime, then the process, then the lifetime again.
TakeStamp ==
  /\ worker.pc \in {"stamp", "inspect stamp"}
  /\ \E b \in Busy :
       /\ worker' = IF b THEN IF At("stamp") THEN Return(worker.then) ELSE Skip
                    ELSE [worker EXCEPT !.stamp = Stamp(worker.h),
                            !.pc = IF At("stamp") THEN "note" ELSE "admit"]
       /\ Spent(b)
       /\ ghost' = IF b THEN [quiet |-> FALSE, steady |-> ghost.steady \ {worker.h},
                              lost |-> ghost.lost \/ At("stamp")] ELSE ghost
  /\ Steady /\ UNCHANGED <<cache, mru, mail>>

Identified(b) ==
  /\ ~b /\ IsWindow(worker.h) /\ ProcessOf(worker.h).pid = worker.process.pid
  /\ Matches(worker.h, worker.stamp)
Identity ==
  [id |-> [h |-> worker.h, process |-> worker.process, stamp |-> worker.stamp],
   life |-> desk.lives[worker.h]]

\* The mutant leaves a window it knows where it is.
ObservedOnce(recent, e) ==
  IF \E i \in DOMAIN recent : recent[i].id = e.id THEN recent
  ELSE LET all == <<e>> \o SelectSeq(recent, LAMBDA o : o.id.h # e.id.h)
       IN  SubSeq(all, 1, IF Len(all) > setup.recent THEN setup.recent ELSE Len(all))
Observed(recent, e) ==
  IF recent # <<>> /\ Head(recent).id = e.id THEN recent
  ELSE LET all == <<e>> \o SelectSeq(recent, LAMBDA o : o.id.h # e.id.h)
       IN  SubSeq(all, 1, IF Len(all) > setup.recent THEN setup.recent ELSE Len(all))

NoteForeground ==
  /\ At("note")
  /\ \E b \in Busy :
       /\ mru' = IF Identified(b) THEN [mru EXCEPT !.recent = Observed(@, Identity)] ELSE mru
       /\ Spent(b)
       /\ ghost' = [ghost EXCEPT !.quiet = ~b /\ @,
                      !.lost = IF b THEN TRUE ELSE IF Identified(b) THEN FALSE ELSE @]
  /\ worker' = Return(worker.then)
  /\ Steady /\ UNCHANGED <<cache, mail>>

(***************************************************************************)
(* A scan                                                                  *)
(***************************************************************************)
\* EnumWindows into a bounded list; when it is full the windows of this
\* process give way.  The overflow is an error of the snapshot.
External(h) == ProcessOf(h) # Own
\* The mutant cuts the list short without saying so.
CollectedQuietly(zorder) ==
  LET n == IF Len(zorder) > setup.capacity THEN setup.capacity ELSE Len(zorder)
  IN  [windows |-> SubSeq(zorder, 1, n), overflow |-> FALSE]
Collected(zorder) ==
  LET outside == SelectSeq(zorder, External)
  IN  IF Len(zorder) <= setup.capacity THEN [windows |-> zorder, overflow |-> FALSE]
      ELSE [windows |-> outside, overflow |-> Len(outside) > setup.capacity]

Receive ==
  /\ At("receive")
  /\ IF mail.request # None
     THEN LET c == Collected(desk.zorder)
          IN  /\ mail' = [mail EXCEPT !.request = None,
                            !.out = IF c.overflow THEN [ok |-> FALSE] ELSE @]
              /\ worker' = IF c.overflow \/ c.windows = <<>>
                           THEN [worker EXCEPT !.pc = IF c.overflow THEN "resolve" ELSE "publish",
                                   !.then = "receive", !.gen = mail.gen, !.kind = mail.request,
                                   !.list = <<>>, !.records = <<>>]
                           ELSE [worker EXCEPT !.pc = "resolve", !.then = "inspect",
                                   !.gen = mail.gen, !.kind = mail.request, !.list = c.windows,
                                   !.next = 1, !.records = <<>>]
              /\ ghost' = [ghost EXCEPT
                   !.quiet = desk.events = <<>> /\ ui.pc = "idle" /\ ~ghost.lost
                             /\ worker.resolved = front.version /\ front.requested = desk.fg,
                   !.steady = Range(desk.zorder)]
     ELSE /\ worker.resolved # front.version \/ (Enabled /\ mru.revision # life.revision)
          /\ worker' = [worker EXCEPT !.pc = "resolve", !.then = "receive"]
          /\ UNCHANGED <<mail, ghost>>
  /\ Steady /\ UNCHANGED <<cache, mru, budget>>

\* WindowFilter: style, process, content.
Accepted(f, w) ==
  /\ w.visible \/ (f.hiddenMinimized /\ w.iconic)
  /\ ~(f.ignoreMinimal /\ w.iconic)
  /\ f.tool \/ ~w.tool
  /\ f.topmost \/ ~w.topmost
  /\ ~w.cloaked
  /\ w.visible \/ w.size > 0
  /\ w.size * 96 >= f.minSize * w.dpi
  /\ f.untitled \/ w.title # ""
  /\ w.title \notin f.titles
Filter == setup.filters[worker.kind]

\* The end of the pause between two windows: the scan goes on while the
\* request is current.
Inspect ==
  /\ At("inspect")
  /\ IF worker.gen # mail.gen
     THEN /\ worker' = Rest
          /\ UNCHANGED cache
     ELSE LET h == worker.list[worker.next]
              seen == IsWindow(h) /\ Accepted(Filter, setup.looks[h]) /\ External(h)
          IN  \E expired \in Ages :
                LET found == Lookup(ProcessOf(h), expired)
                IN  IF seen
                    THEN /\ expired => Cached(ProcessOf(h)) # {}
                         /\ cache' = found.cache
                         /\ worker' =
                              IF found.value = None THEN Skip
                              ELSE [worker EXCEPT !.pc = "inspect stamp", !.h = h,
                                      !.process = ProcessOf(h), !.value = found.value]
                    ELSE ~expired /\ worker' = Skip /\ UNCHANGED cache
  /\ Steady /\ UNCHANGED <<mru, mail, budget, ghost>>

\* The process of a frame window is that of the first external window it owns.
FirstExternal(owner) ==
  LET s == SelectSeq(worker.list, LAMBDA h : setup.owner[h] = owner /\ External(h))
  IN  IF s = <<>> \/ ~IsWindow(s[1]) THEN None ELSE ProcessOf(s[1])
Shown ==
  LET p == IF worker.value = Frame THEN FirstExternal(worker.h) ELSE worker.process
  IN  IF p = None \/ p \in setup.denied \/ setup.exe[p] = Frame
           \/ setup.exe[p] \in Filter.processes \/ (~setup.admin /\ p \in setup.elevated)
      THEN None ELSE p

Admit ==
  /\ At("admit")
  /\ \E b \in Busy :
       /\ worker' = [Skip EXCEPT !.records =
            IF Identified(b) /\ Shown # None
            THEN Append(@, [id |-> Identity.id, life |-> Identity.life, process |-> Shown])
            ELSE @]
       /\ Spent(b)
       /\ ghost' = IF b THEN [ghost EXCEPT !.quiet = FALSE, !.steady = @ \ {worker.h}] ELSE ghost
  /\ Steady /\ UNCHANGED <<cache, mru, mail>>

(***************************************************************************)
(* The snapshot: groups in the order of their first window, by application *)
(* or by process, then ordered by use                                      *)
(***************************************************************************)
Grouped(records, byProcess) ==
  LET key(r) == IF byProcess THEN r.process ELSE setup.exe[r.process]
      firsts == {i \in DOMAIN records : \A j \in 1..(i - 1) : key(records[j]) # key(records[i])}
      order == SetToSortSeq(firsts, <)
  IN  [k \in DOMAIN order |->
        SelectSeq(records, LAMBDA r : key(r) = key(records[order[k]]))]
Regrouped(groups, kind) ==
  IF setup.byProcess /\ kind # "Windows" THEN Grouped(FlattenSeq(groups), TRUE) ELSE groups

Seeded(m, groups) ==
  LET Add(recent, r) ==
        IF Len(recent) < setup.recent /\ ~\E i \in DOMAIN recent : recent[i].id = r.id
        THEN Append(recent, [id |-> r.id, life |-> r.life]) ELSE recent
  IN  IF m.seeded THEN m
      ELSE [m EXCEPT !.seeded = TRUE, !.recent = FoldLeft(Add, @, FlattenSeq(groups))]

Rank(recent, r) ==
  LET at == {i \in DOMAIN recent : recent[i].id = r.id}
  IN  IF at = {} THEN setup.recent + 1 ELSE CHOOSE i \in at : TRUE
ByRank(s, rank) ==
  LET order == SetToSortSeq(DOMAIN s, LAMBDA i, j :
        rank[i] < rank[j] \/ (rank[i] = rank[j] /\ i < j))
  IN  [k \in DOMAIN s |-> s[order[k]]]
Ordered(groups, recent) ==
  LET Ranks(s) == [i \in DOMAIN s |-> Rank(recent, s[i])]
      within == [k \in DOMAIN groups |-> ByRank(groups[k], Ranks(groups[k]))]
  IN  ByRank(within, Ranks([k \in DOMAIN within |-> within[k][1]]))

Publish ==
  /\ At("publish")
  /\ LET groups == Regrouped(Grouped(worker.records, FALSE), worker.kind)
         ordered == worker.kind \in setup.mru /\ worker.kind # "Search"
         m == Seeded(mru, groups)
     IN  IF worker.gen # mail.gen THEN UNCHANGED <<mru, mail>>
         ELSE /\ mru' = IF ordered THEN m ELSE mru
              /\ mail' = [mail EXCEPT !.out =
                   [ok |-> TRUE,
                    groups |-> IF ordered THEN Ordered(groups, m.recent) ELSE groups]]
  /\ worker' = Rest
  /\ Steady /\ UNCHANGED <<cache, budget, ghost>>

Init ==
  /\ setup \in Setups
  /\ desk = [zorder |-> setup.start, process |-> setup.process, lives |-> [h \in Handles |-> 0],
             fg |-> IF setup.start = <<>> THEN None ELSE setup.start[1], events |-> <<>>]
  /\ life = [epoch |-> 0, revision |-> 0, entries |-> <<>>]
  \* The foreground may have changed before the hooks were set.
  /\ \E h \in Range(setup.start) \cup {None} :
       front = [requested |-> h, version |-> 1, snapshot |-> None]
  /\ ui = [pc |-> "idle", h |-> None, sequence |-> 0]
  /\ worker = Idle /\ cache = <<>>
  /\ mru = [recent |-> <<>>, seeded |-> FALSE, revision |-> 0]
  /\ mail = [gen |-> 0, request |-> None, out |-> None]
  /\ budget = [moves |-> setup.moves, busy |-> setup.busy, scans |-> setup.scans]
  /\ ghost = [quiet |-> FALSE, steady |-> {}, lost |-> TRUE]

Worker ==
  \/ ResolveVersion \/ ResolveQuery \/ ResolveCompare \/ ResolveConclude
  \/ Observe \/ TakeStamp \/ NoteForeground \/ Receive \/ Inspect \/ Admit \/ Publish
Ui == Deliver \/ RequestVersion \/ NoteEntry
Next == Desktop \/ Ui \/ Ask \/ CancelScan \/ Worker
Spec == Init /\ [][Next]_vars

\* Both threads run for as long as the program does.
FairSpec == Spec /\ WF_vars(Ui) /\ WF_vars(Worker)

(***************************************************************************)
(* Properties                                                              *)
(***************************************************************************)
Events(kind) == \E i \in DOMAIN desk.events : desk.events[i].kind = kind
Pending(h) ==
  \/ \E i \in DOMAIN desk.events : desk.events[i] = Event("lifetime", h)
  \/ ui.pc = "entry" /\ ui.h = h

\* When every change of the foreground has been delivered, a hotkey is judged
\* by the blacklist entry of the process in the foreground or as unknown: the
\* conclusion on an earlier window, or on an earlier process with the same
\* number or handle, is never used (foreground.rs, the version and the window).
VerdictOfForeground ==
  (desk.fg # None /\ desk.fg \notin setup.own /\ ~Events("foreground") /\ ui.pc # "version") =>
    \A apps \in BOOLEAN :
      Allows(apps, TRUE) = Allows(apps, FALSE) =>
        Allows(apps, TRUE) = (setup.exe[ProcessOf(desk.fg)] \notin Blacklist(apps))

\* Once the foreground stops changing, its resolution ends, and what is
\* concluded is for the last change: no late result takes its place for good.
SettlesOnForeground ==
  <>[](/\ worker.resolved = front.version
       /\ front.snapshot # None => front.snapshot.version = front.version)

\* An identity that still matches the registry, with no event of its handle on
\* the way, names the window it was taken from, and that window is open: not
\* one that got the handle later, whatever was lost to a busy lock or a full
\* table (window_snapshot/lifetimes.rs).  Of the windows of this process there
\* are no events: the order of use may keep one that is gone, but no snapshot.
Held ==
  {e \in Range(mru.recent) : e.id.process # Own} \cup Range(worker.records)
    \cup (IF mail.out # None /\ mail.out.ok THEN Range(FlattenSeq(mail.out.groups)) ELSE {})
LifetimeIdentifies ==
  \A e \in Held :
    Matches(e.id.h, e.id.stamp) /\ ~Pending(e.id.h) =>
      IsWindow(e.id.h) /\ desk.lives[e.id.h] = e.life

Published == mail'.out # None /\ mail'.out # mail.out /\ mail'.out.ok
Listed(h) ==
  {r \in Range(FlattenSeq(mail'.out.groups)) : r.id.h = h}

\* With the order by use the first window of a snapshot is the one in the
\* foreground, so that one step goes to another window: when nothing moved and
\* no lock was busy since the foreground was observed.
FirstIsForeground ==
  [][(Published /\ ghost.quiet /\ worker.kind \in setup.mru \ {"Search"}
        /\ desk.fg # None /\ Listed(desk.fg) # {})
     => mail'.out.groups[1][1].id.h = desk.fg]_vars

\* A snapshot is complete: a window that was open, accepted and readable all
\* through the scan is in it, once; when the list of handles was too short
\* there is no snapshot.
Wanted(h) ==
  /\ Accepted(Filter, setup.looks[h]) /\ External(h)
  /\ LET p == ProcessOf(h)
     IN  /\ p \notin setup.denied /\ setup.exe[p] # Frame
         /\ setup.exe[p] \notin Filter.processes /\ (setup.admin \/ p \notin setup.elevated)
NoneForgotten ==
  [][Published => \A h \in ghost.steady : Wanted(h) => Cardinality(Listed(h)) = 1]_vars

=============================================================================
