----------------------------- MODULE MCPresentation -----------------------------
(***************************************************************************)
(* The two things a surface shows beside its text, its icons and the       *)
(* preview, in one run.  They share nothing - icon_cache.rs and preview.rs *)
(* have state of their own, and drain_input polls one after the other - so *)
(* an execution is of one part, and the other stays as it begins.          *)
(***************************************************************************)
EXTENDS MCPreview

CONSTANTS k1, k2, IconSetups

VARIABLES part, setup, current, override, pixels, cache, recency, mailbox, loader,
          page, asked, due, icon, remembered, iconBudget

iconVars == <<setup, current, override, pixels, cache, recency, mailbox, loader,
              page, asked, due, icon, remembered, iconBudget>>
Icons == INSTANCE Icons WITH Keys <- {k1, k2}, Setups <- IconSetups, budget <- iconBudget

Base == [kind |-> "panel", room |-> 3, limit |-> 2, results |-> 1,
         pages |-> 1, deaths |-> 0, changes |-> 1, faults |-> 1]
\* No more images fit than the page shows.
Tight == [Base EXCEPT !.room = 2, !.pages = 2, !.changes = 0, !.faults = 0]
\* Fewer entries than windows, of which one goes away.
Narrow == [Base EXCEPT !.kind = "search", !.limit = 1, !.pages = 2, !.changes = 0, !.faults = 0, !.deaths = 1]
MCIconSetups == {Base, Tight, Narrow}

ASSUME Icons!IconsAssumption

AllVars == <<part, vars, iconVars>>
AllInit ==
  /\ part \in {"preview", "icons"}
  /\ Init
  /\ Icons!Init /\ (part # "icons" => setup = Base)

AllNext ==
  \/ part = "preview" /\ Next /\ UNCHANGED <<part, iconVars>>
  \/ part = "icons" /\ Icons!Next /\ UNCHANGED <<part, vars>>

\* The fairness of both parts; as only one of them ever moves, fairness of two
\* steps, one of each, is fairness of either.
Either(step, other) ==
  \/ part = "preview" /\ step /\ UNCHANGED <<part, iconVars>>
  \/ part = "icons" /\ other /\ UNCHANGED <<part, vars>>
AllFairness ==
  /\ WF_AllVars(Either(Poll, Icons!Loader)) /\ WF_AllVars(Either(Elapse, Icons!Poll))
  /\ WF_AllVars(Either(CheckElapses, Icons!Flush)) /\ WF_AllVars(Either(RetryElapses, Icons!Tick))
  /\ \A k \in {k1, k2} : WF_AllVars(part = "icons" /\ Icons!Expire(k) /\ UNCHANGED <<part, vars>>)

AllSpec == AllInit /\ [][AllNext]_AllVars /\ AllFairness

\* As Icons says: what a page shows stays in the cache (icon_cache.rs:179).
ShownStaysCached == Icons!ShownStaysCached
\* As Preview and Icons say: in the end the preview and the page show what their
\* sources now have (preview.rs:130, icon_cache.rs:129, 228).
SurfacesSettle == Settles /\ Icons!SettlesOnSource
=============================================================================
