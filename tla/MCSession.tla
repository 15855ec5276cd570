------------------------------- MODULE MCSession -------------------------------
(***************************************************************************)
(* Session on three windows of one application, or of two.                 *)
(***************************************************************************)
EXTENDS Session

CONSTANTS w1, w2, w3, g1, g2, g3

MCWindows == {w1, w2, w3}
One == [w \in MCWindows |-> g1]
Two == [w \in MCWindows |-> IF w = w2 THEN g2 ELSE g1]
Three == [w \in MCWindows |-> CASE w = w1 -> g1 [] w = w2 -> g2 [] OTHER -> g3]
Setup(group, mru, reverse, kinds, details, grants, moves) ==
  [zorder |-> <<w1, w2, w3>>, group |-> group, mru |-> mru, reverse |-> reverse,
   kinds |-> kinds, details |-> details, grants |-> grants, moves |-> moves]
First == Setup(One, FALSE, FALSE, {"Windows"}, FALSE, BOOLEAN, 3)
MCSetups ==
  {First,
   Setup(One, TRUE, TRUE, {"Windows"}, FALSE, {TRUE}, 3),
   Setup(Three, TRUE, FALSE, {"Apps"}, FALSE, {TRUE}, 2),
   Setup(Two, FALSE, TRUE, {"Apps"}, TRUE, BOOLEAN, 2),
   Setup(Two, FALSE, FALSE, Kinds, FALSE, {TRUE}, 2)}

=============================================================================
