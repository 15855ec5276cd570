------------------------------- MODULE Icons -------------------------------
(***************************************************************************)
(* The icons (icon_cache.rs, icon_loader.rs, icon_loader/service.rs,       *)
(* icon_loader/native.rs, app/panel.rs, app/search.rs).  The UI asks for   *)
(* the icons of the windows of the visible page; one thread answers from a *)
(* cache of few entries and few bytes, or looks for an icon in the sources *)
(* of the application.  The bytes of an image are leased until nobody      *)
(* holds it: the cache, a result on its way, or the page.  The mailbox in  *)
(* between is that of Mailbox.tla: a new request drops the results of the  *)
(* one before, and a full mailbox holds the thread up.                     *)
(***************************************************************************)
EXTENDS Integers, Sequences, SequencesExt, FiniteSetsExt

CONSTANTS Keys, Setups, None

\* A setup: the kind of surface, the images that fit (icon_cache_mb), the
\* entries kept (icon_cache_limit), the results in the mailbox (16 in the
\* code), and bounds on pages, deaths, changes of sources and failures.
IconsAssumption ==
  \A s \in Setups :
    /\ {s.room, s.limit, s.results} \subseteq Nat \ {0}
    /\ {s.pages, s.deaths, s.changes, s.faults} \subseteq Nat

VARIABLES
  setup,       \* the setup
  current,     \* the keys whose window is still the one the key is for
  override,    \* the version of the configured icon of a key, 0: there is none
  pixels,      \* what each image shows, by the number of its lease
  cache,       \* the entries
  recency,     \* the keys of the entries, the least recently used first
  mailbox,     \* the request that waits, and the results
  loader,      \* the thread
  page,        \* the keys of the page, None: no surface is open
  asked,       \* the keys last asked for
  due,         \* a refresh is due
  icon,        \* the images on the page
  remembered,  \* weak references to the images last received, oldest first
  budget       \* what may still happen

ui == <<page, asked, due, icon, remembered>>
world == <<current, override>>
vars == <<setup, world, pixels, cache, recency, mailbox, loader, ui, budget>>

(***************************************************************************)
(* Images.                                                                 *)
(***************************************************************************)
Leases == 1 .. setup.room
\* An icon of the executable, a configured one of some version, or the generic.
Executable == [good |-> TRUE, version |-> 0]
Configured(v) == [good |-> TRUE, version |-> v]
Generic == [good |-> FALSE, version |-> 0]
\* query: the configured icon first, then that of the executable.
Best(k) == IF override[k] = 0 THEN Executable ELSE Configured(override[k])

Cached == {k \in Keys : cache[k] # None}
InCache == {cache[k].image : k \in Cached}
InUse ==
  {mailbox.results[i].image : i \in DOMAIN mailbox.results} \cup {icon[k] : k \in Keys}
    \cup {loader.previous, loader.lease, loader.image}
Live == (InCache \cup InUse) \ {None}
\* A weak reference: the image if somebody still holds it.
Upgrade(k) ==
  LET found == {i \in DOMAIN remembered : remembered[i].key = k /\ remembered[i].image \in Live}
  IN IF found = {} THEN None ELSE remembered[Max(found)].image

(***************************************************************************)
(* The cache.                                                              *)
(***************************************************************************)
Entry(image, stamp, successful) ==
  [image |-> image, stamp |-> stamp, successful |-> successful, fresh |-> TRUE]
Touched(k) == Append(SelectSeq(recency, LAMBDA other : other # k), k)

\* get: an entry that has not expired, and whose sources are as they were.
Valid(k) ==
  k \in Cached /\ cache[k].fresh /\ cache[k].stamp \in {None, override[k]}

\* A mutant: what the page holds is evicted too.
HasImage(k) == cache[k].image # None
\* evict(true): the image of the entry is in nobody else's hands.
Reclaimable(k) == cache[k].image # None /\ cache[k].image \notin InUse

\* reserve: the least recently used entries go until a lease is free.
Victims ==
  IF Live # Leases THEN {}
  ELSE LET found == SelectSeq(recency, LAMBDA k : Reclaimable(k))
       IN IF found = <<>> THEN {} ELSE {Head(found)}
Without(entries, keys) == [k \in Keys |-> IF k \in keys THEN None ELSE entries[k]]
\* evict(false): the least recently used entry goes, whoever holds its image.
Surplus(k) ==
  IF k \notin Cached /\ Cardinality(Cached) >= setup.limit THEN {Head(recency)} ELSE {}

\* A mutant: once there is an image it stays.
KeepsAny(previous, was, image) == previous # None
\* insert: a good image outlives failures, and an image its equal.
Keeps(previous, was, image) ==
  /\ previous # None
  /\ \/ image = None
     \/ was /\ ~image.good
     \/ image = pixels[previous]

\* What insert makes of the image found; the lease is given back if unused.
Insert(image, stamp) ==
  LET k == loader.key
      keep == Keeps(loader.previous, loader.was, image)
      kept == IF keep THEN loader.previous ELSE IF image = None THEN None ELSE loader.lease
      loaded == image # None /\ image.good
  IN /\ cache' = [Without(cache, Surplus(k)) EXCEPT ![k] =
                    Entry(kept, stamp, loaded \/ (keep /\ loader.was))]
     /\ recency' = SelectSeq(Touched(k), LAMBDA other : other \notin Surplus(k))
     /\ pixels' = IF kept # None /\ kept = loader.lease
                  THEN [pixels EXCEPT ![kept] = image] ELSE pixels
     /\ loader' = [loader EXCEPT !.pc = "publish", !.image = kept,
                                 !.previous = None, !.lease = None, !.stamp = None]

(***************************************************************************)
(* The thread.                                                             *)
(***************************************************************************)
Waiting == [pc |-> "wait", todo |-> <<>>, key |-> None, wanted |-> TRUE, previous |-> None, was |-> FALSE,
            lease |-> None, stamp |-> None, image |-> None, current |-> FALSE]
Skip == [Waiting EXCEPT !.pc = "next", !.todo = loader.todo, !.current = loader.current]
Allowed == loader.current
Goto(pc) == loader' = [loader EXCEPT !.pc = pc]
\* break when the request was given up, continue when the window is gone.
GivesUp == loader' = IF Allowed THEN Skip ELSE Waiting

Receive ==
  /\ loader.pc = "wait" /\ mailbox.request # <<>>
  /\ loader' = [Skip EXCEPT !.todo = mailbox.request, !.current = TRUE]
  /\ mailbox' = [mailbox EXCEPT !.request = <<>>]
  /\ UNCHANGED <<setup, world, pixels, cache, recency, ui, budget>>

\* The next key: nothing but its name, a hit, or the stale image while it loads.
Consider ==
  /\ loader.pc = "next"
  /\ IF ~Allowed \/ loader.todo = <<>> THEN loader' = Waiting /\ UNCHANGED recency
     ELSE LET request == Head(loader.todo)
              k == request.key
              next == [Skip EXCEPT !.todo = Tail(@), !.key = k, !.wanted = request.image]
              stale == IF k \in Cached THEN cache[k].image ELSE None
          IN IF k \notin current THEN loader' = [Skip EXCEPT !.todo = Tail(@)] /\ UNCHANGED recency
             ELSE /\ recency' = IF request.image /\ k \in Cached THEN Touched(k) ELSE recency
                  /\ loader' =
                       IF ~request.image \/ Valid(k)
                       THEN [next EXCEPT !.pc = "publish", !.image = IF request.image THEN stale ELSE None]
                       ELSE [next EXCEPT !.pc = IF stale = None THEN "reserve" ELSE "stale",
                                         !.previous = stale, !.was = stale # None /\ cache[k].successful]
  /\ UNCHANGED <<setup, world, pixels, cache, mailbox, ui, budget>>

Room == Len(mailbox.results) < setup.results
Result(image, complete) ==
  [key |-> loader.key, image |-> image, complete |-> complete]
Publish(image, complete) ==
  mailbox' = [mailbox EXCEPT !.results = Append(@, Result(image, complete))]

PublishStale ==
  /\ loader.pc = "stale"
  /\ IF ~Allowed THEN loader' = Waiting /\ UNCHANGED mailbox
     ELSE Room /\ Publish(loader.previous, FALSE) /\ Goto("reserve")
  /\ UNCHANGED <<setup, world, pixels, cache, recency, ui, budget>>

Reserve ==
  /\ loader.pc = "reserve"
  /\ CASE Victims # {} ->
            /\ cache' = Without(cache, Victims)
            /\ recency' = SelectSeq(recency, LAMBDA k : k \notin Victims)
            /\ UNCHANGED <<pixels, loader, remembered>>
       [] Victims = {} /\ Live # Leases ->
            /\ LET lease == Min(Leases \ Live)
               IN /\ loader' = [loader EXCEPT !.pc = "query", !.lease = lease, !.stamp = override[loader.key]]
                  /\ remembered' = [i \in DOMAIN remembered |->
                       IF remembered[i].image = lease THEN [remembered[i] EXCEPT !.image = None] ELSE remembered[i]]
            /\ UNCHANGED <<pixels, cache, recency>>
       [] OTHER -> Insert(None, None) /\ UNCHANGED remembered
  /\ UNCHANGED <<setup, world, mailbox, page, asked, due, icon, budget>>

\* What a query finds: a source that fails, or the deadline, leave a lesser
\* icon, the generic one, or none at all.
Found(image) ==
  \/ image = Best(loader.key) /\ UNCHANGED budget
  \/ /\ image \in {Executable, Generic, None}
     /\ budget.faults > 0 /\ budget' = [budget EXCEPT !.faults = @ - 1]

Query ==
  /\ loader.pc = "query"
  /\ IF ~Allowed \/ loader.key \notin current
     THEN GivesUp /\ UNCHANGED <<pixels, cache, recency, budget>>
     ELSE \E image \in {Executable, Generic, None, Best(loader.key)} :
            Found(image) /\ Insert(image, loader.stamp)
  /\ UNCHANGED <<setup, world, mailbox, ui>>

PublishComplete ==
  /\ loader.pc = "publish"
  /\ IF ~Allowed \/ loader.key \notin current THEN GivesUp /\ UNCHANGED mailbox
     ELSE Room /\ Publish(loader.image, TRUE) /\ loader' = Skip
  /\ UNCHANGED <<setup, world, pixels, cache, recency, ui, budget>>

Loader == Receive \/ Consider \/ PublishStale \/ Reserve \/ Query \/ PublishComplete

\* An entry expires, after the refresh interval or that of failures.
Expire(k) ==
  /\ k \in Cached /\ cache[k].fresh
  /\ cache' = [cache EXCEPT ![k].fresh = FALSE]
  /\ UNCHANGED <<setup, world, pixels, recency, mailbox, loader, ui, budget>>

(***************************************************************************)
(* The UI.                                                                 *)
(***************************************************************************)
Open == page # None
OnPage(k) == Open /\ k \in Range(page)
Overtaken == loader' = [loader EXCEPT !.current = FALSE]

Remember(k, image) ==
  LET others == SelectSeq(remembered, LAMBDA r : r.key # k)
  IN Append(SubSeq(others, Max({1, Len(others) - setup.limit + 2}), Len(others)), [key |-> k, image |-> image])

Applied(result) == [icon EXCEPT ![result.key] = result.image]

\* poll_icons: results for windows that are gone, or without an image, change nothing.
Poll ==
  /\ Open /\ mailbox.results # <<>>
  /\ LET result == Head(mailbox.results)
     IN IF result.key \in current /\ result.image # None
        THEN /\ icon' = Applied(result)
             /\ remembered' = Remember(result.key, result.image)
        ELSE UNCHANGED <<icon, remembered>>
  /\ mailbox' = [mailbox EXCEPT !.results = Tail(@)]
  /\ UNCHANGED <<setup, world, pixels, cache, recency, loader, page, asked, due, budget>>

RequestFor(keys, image) == [i \in DOMAIN keys |-> [key |-> keys[i], image |-> image]]
SearchRequest == RequestFor(page, TRUE)
\* The panel asks for the names of the other windows as well.
PanelRequest == RequestFor(page, TRUE) \o RequestFor(SetToSeq(Keys \ Range(page)), FALSE)

\* A new request: images off the page are let go, and a search shows what is
\* remembered.
Flush ==
  /\ Open /\ (asked # page \/ due \/ \E k \in Keys : icon[k] # None /\ ~OnPage(k))
  /\ icon' = [k \in Keys |->
       IF ~OnPage(k) THEN None
       ELSE IF setup.kind = "search" /\ (asked # page \/ due) /\ Upgrade(k) # None THEN Upgrade(k)
       ELSE icon[k]]
  /\ IF asked # page \/ due
     THEN /\ mailbox' = [request |-> IF setup.kind = "search" THEN SearchRequest ELSE PanelRequest,
                         results |-> <<>>]
          /\ asked' = page /\ due' = FALSE
          /\ Overtaken
     ELSE UNCHANGED <<mailbox, asked, due, loader>>
  /\ UNCHANGED <<setup, world, pixels, cache, recency, page, remembered, budget>>

\* A refresh is due once the page was answered: loading takes less than the
\* time between two refreshes.
Tick ==
  /\ Open /\ ~due /\ asked = page
  /\ loader.pc = "wait" /\ mailbox.request = <<>> /\ mailbox.results = <<>>
  /\ due' = TRUE
  /\ UNCHANGED <<setup, world, pixels, cache, recency, mailbox, loader, page, asked, icon, remembered, budget>>

Spend(what) == budget[what] > 0 /\ budget' = [budget EXCEPT ![what] = @ - 1]

Pages == {p \in SeqOf(Keys, Cardinality(Keys)) : p # <<>> /\ IsInjective(p)}
\* Another page of the panel, or a new snapshot, which gives every window its
\* old icon or the one remembered.
Turn ==
  /\ Spend("pages")
  /\ page' \in Pages \ {page}
  /\ icon' = IF setup.kind = "panel"
             THEN [k \in Keys |-> IF icon[k] # None THEN icon[k] ELSE Upgrade(k)] ELSE icon
  /\ UNCHANGED <<setup, world, pixels, cache, recency, mailbox, loader, asked, due, remembered>>

\* hide_apps, and a search without rows: the request is given up.
Hide ==
  /\ Open
  /\ page' = None /\ asked' = <<>> /\ due' = FALSE
  /\ icon' = [k \in Keys |-> None]
  /\ mailbox' = [request |-> <<>>, results |-> <<>>]
  /\ Overtaken
  /\ UNCHANGED <<setup, world, pixels, cache, recency, remembered, budget>>

(***************************************************************************)
(* Windows and files.                                                      *)
(***************************************************************************)
Die ==
  /\ Spend("deaths")
  /\ \E k \in current : current' = current \ {k}
  /\ UNCHANGED <<setup, override, pixels, cache, recency, mailbox, loader, ui>>

Change ==
  /\ Spend("changes")
  /\ \E k \in Keys, v \in 0 .. 2 : v # override[k] /\ override' = [override EXCEPT ![k] = v]
  /\ UNCHANGED <<setup, current, pixels, cache, recency, mailbox, loader, ui>>

Init ==
  /\ setup \in Setups
  /\ current = Keys
  /\ override = [k \in Keys |-> 0]
  /\ pixels = [l \in Leases |-> Generic]
  /\ cache = [k \in Keys |-> None] /\ recency = <<>>
  /\ mailbox = [request |-> <<>>, results |-> <<>>]
  /\ loader = Waiting
  /\ page = None /\ asked = <<>> /\ due = FALSE
  /\ icon = [k \in Keys |-> None] /\ remembered = <<>>
  /\ budget = [pages |-> setup.pages, deaths |-> setup.deaths, changes |-> setup.changes, faults |-> setup.faults]

Next ==
  \/ Loader \/ Poll \/ Flush \/ Tick \/ Turn \/ Hide \/ Die \/ Change
  \/ \E k \in Keys : Expire(k)

Fairness ==
  /\ WF_vars(Loader) /\ WF_vars(Poll) /\ WF_vars(Flush) /\ WF_vars(Tick)
  /\ \A k \in Keys : WF_vars(Expire(k))
Spec == Init /\ [][Next]_vars /\ Fairness

(***************************************************************************)
(* Properties.                                                             *)
(***************************************************************************)
Shows(k, image) == icon[k] # None /\ pixels[icon[k]] = image
Good(k) == icon[k] # None /\ pixels[icon[k]].good

\* Where there is an entry for each window, the image a page shows is neither
\* dropped by the cache for want of room nor replaced by the generic icon.
ShownStaysCached ==
  [][ setup.limit >= Cardinality(Keys) =>
        \A k \in Cached : cache[k].image = icon[k] /\ Good(k) =>
          cache'[k] # None /\ cache'[k].image # None /\ pixels'[cache'[k].image].good ]_vars

\* A window that stays on the page in the end shows its icon as its sources
\* now have it, whatever failed, changed or was given up before.
SettlesOnSource ==
  \A k \in Keys :
    <>[](k \in current /\ OnPage(k)) => <>[]Shows(k, Best(k))
=============================================================================
