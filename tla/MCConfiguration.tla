--------------------------- MODULE MCConfiguration ---------------------------
(* Setups for model checking Configuration. *)
EXTENDS Configuration

Search == Entry("search", "enable")
SearchKey == Entry("search", "hotkey")

MCTemplate ==
  <<Block("", <<Note(Tray), Assign("trayicon", "yes")>>),
    Block("input", <<Note(Paused), Assign("paused", "no"), Note(PauseKey), Assign("pause_hotkey", "")>>),
    Block("search", <<Note(Search), Assign("enable", "no"), Note(SearchKey), Assign("hotkey", "f9")>>)>>

MCDomain ==
  [e \in {Tray, Paused, PauseKey, Search, SearchKey} |->
     CASE e = PauseKey -> {"", "f9", "f10"}
       [] e = SearchKey -> {"f9", "f10"}
       [] OTHER -> {"yes", "no"}]

MCBindings == {[key |-> PauseKey, when |-> {}], [key |-> SearchKey, when |-> {Search}]}

\* What a user may have written: settings, values out of range, hotkeys that
\* collide, sections in pieces, notes out of place, and values of somebody else.
Written1 == {Assign("paused", "yes"), Assign("paused", "no"), Assign("x", "1"), Note(Paused),
             Assign("pause_hotkey", "f9"), [Assign("x", "1") EXCEPT !.rest = <<Assign("paused", "yes")>>]}
Parts == {<<>>} \cup {<<l>> : l \in Written1} \cup {<<l, Assign("paused", "yes")>> : l \in Written1}
Tops == {<<>>, <<Assign("trayicon", "no")>>, <<Assign("trayicon", "maybe")>>, <<Junk>>}
Ends == {<<>>, <<Block("search", <<Assign("enable", "yes")>>)>>, <<Block("input", <<Assign("paused", "no")>>)>>,
         <<Block("other", <<Assign("x", "1")>>), Block("input", <<Assign("pause_hotkey", "f9")>>)>>}
Texts == {<<Block("", top)>> : top \in Tops}
           \cup {<<Block("", top), Block("input", part)>> \o end : top \in Tops, part \in Parts, end \in Ends}

Full(paused, x) ==
  [MCTemplate EXCEPT ![2].lines[2] = Assign("paused", paused)] \o <<Block("other", <<Assign("x", x)>>)>>
Short(x) == <<Block("", <<>>), Block("input", <<Assign("paused", "no"), Assign("x", x)>>)>>
Broken == <<Block("", <<>>), Block("input", <<Assign("paused", "maybe")>>)>>

Base == [start |-> {Full("no", "1")}, running |-> TRUE, edits |-> {}, deletes |-> FALSE,
         tray |-> {Search}, operations |-> {}, watches |-> FALSE, limit |-> 2, edited |-> 0,
         asked |-> 0, launches |-> 0, exits |-> 0, faults |-> 0, failures |-> 0]

MCSetups ==
  { \* completing whatever the user wrote, and saving a setting in it
    [Base EXCEPT !.start = Texts \cup {None}, !.running = FALSE, !.launches = 1],
    [Base EXCEPT !.start = {d \in Texts : Usable(d)}, !.asked = 1,
                 !.operations = {"quick", "pause"}],
    \* writers that fail, die and meet an editor and each other
    [Base EXCEPT !.start = {Short("1")}, !.edits = {Short("2"), Short("3")}, !.edited = 2, !.deletes = TRUE,
                 !.operations = {"pause"}, !.asked = 1, !.launches = 2, !.exits = 2, !.faults = 1],
    \* the watcher, while versions come and go
    [Base EXCEPT !.edits = {Full("no", "2"), Short("3"), Broken, Empty}, !.edited = 3, !.deletes = TRUE,
                 !.watches = TRUE, !.failures = 1],
    \* settings, pausing and reading beside the watcher
    [Base EXCEPT !.edits = {Full("yes", "2"), Full("no", "3")}, !.edited = 1, !.watches = TRUE,
                 !.operations = {"quick", "pause", "read"}, !.asked = 2, !.failures = 1] }
=============================================================================
