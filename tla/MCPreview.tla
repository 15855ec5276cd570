----------------------------- MODULE MCPreview -----------------------------
(***************************************************************************)
(* Two windows of different shapes, a panel on the left of the monitor     *)
(* that grows to its middle, and a search on one with the double scale.    *)
(***************************************************************************)
EXTENDS Preview, TLC

CONSTANTS h1, h2, panel, search

Rect(l, t, r, b) == [left |-> l, top |-> t, right |-> r, bottom |-> b]
Screen == Rect(0, 0, 24, 18)
Place(anchor, dpi) == [anchor |-> anchor, dpi |-> dpi, work |-> Screen]
MCPlaces ==
  (panel :> {Place(Rect(1, 5, 8, 13), 1), Place(Rect(1, 5, 14, 13), 1)})
    @@ (search :> {Place(Rect(4, 3, 16, 7), 2)})
MCSize == (h1 :> [x |-> 3, y |-> 2]) @@ (h2 :> [x |-> 1, y |-> 2])
=============================================================================
