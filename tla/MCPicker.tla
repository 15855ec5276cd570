------------------------------- MODULE MCPicker -------------------------------
(***************************************************************************)
(* Picker on two windows and a list that shows one of them at a time.      *)
(***************************************************************************)
EXTENDS Picker

CONSTANTS w1, w2

MCWindows == {w1, w2}
Every == [w \in MCWindows |-> 1]
Second == [w \in MCWindows |-> IF w = w2 THEN 1 ELSE 2]
OnlySecond == [w \in MCWindows |-> IF w = w2 THEN 1 ELSE 0]
Instance(kind, close, confirm, snapshots, scores, hands, texts, refreshes) ==
  [kind |-> kind, close |-> close, confirm |-> confirm, snapshots |-> snapshots,
   scores |-> scores, limit |-> 2, page |-> 1, hands |-> hands, texts |-> texts,
   refreshes |-> refreshes]
Orders == {<<w1, w2>>, <<w2, w1>>}
Texts == <<Every, OnlySecond>>
Ranked == <<Second>>
MCInstances ==
  {Instance("Search", TRUE, TRUE, Orders, Ranked, {"keys"}, 0, 2),
   Instance("Search", TRUE, TRUE, Orders, <<Every>>, {"pointer"}, 0, 2),
   Instance("Search", TRUE, FALSE, {<<w1, w2>>}, <<Every>>, {"pointer", "wheel"}, 0, 1),
   Instance("Search", TRUE, FALSE, {<<w1, w2>>}, Texts, {"keys", "input method"}, 2, 1),
   Instance("Details", TRUE, TRUE, {<<w1, w2>>}, <<Every>>, {"keys"}, 0, 2),
   Instance("Details", TRUE, FALSE, Orders, <<Every>>, {"pointer", "wheel"}, 0, 2)}

=============================================================================
