--------------------------- MODULE Preview_proofs ---------------------------
(***************************************************************************)
(* The preview is true for any windows, surfaces, monitors and budgets.    *)
(* The first half is about numbers: every layout that PreviewLayout        *)
(* calculates lies in the work area and beside its surface, wherever that  *)
(* is.  The second half is about the poll: what its step promises of the   *)
(* window and of the lease (Control), which source a lease can have        *)
(* (Lease), what a window may present (Picture), and that nothing is       *)
(* presented before the delay of the selection is over (Delayed).          *)
(***************************************************************************)
EXTENDS Preview, FiniteSetTheorems, WellFoundedInduction, TLAPS

(***************************************************************************)
(* The invariant.                                                          *)
(***************************************************************************)
\* What holds whenever the poll stands at a step.
Control ==
  /\ pc \in Steps => Request # None /\ ~retiring
  /\ pc = "wanted" => ~retiring
  /\ pc \in {"attach", "register", "size", "prepare", "show"} => window # None /\ window.alive
  /\ pc = "register" => thumbnail = None
  /\ (pc \in {"present", "prepare", "show"} /\ job.placeholder = None) =>
       /\ window # None /\ window.alive
       /\ thumbnail # None /\ thumbnail.source = Request.source
  /\ pc \in {"prepare", "show"} => Presented.layout # None
  /\ pc = "show" => window.presentation = Presented

\* The lease is of this window; unless it could not be given back, it is of the
\* handle that is selected - though not yet of the window that was.
Lease ==
  thumbnail # None =>
    /\ window # None /\ thumbnail.destination = window.id
    /\ ~retiring => Request # None /\ thumbnail.source.handle = Request.source.handle

\* What the window presents is live only with a lease of the very window that
\* was selected.
Shows(w) ==
  /\ w.visible => w.presentation # None
  /\ w.presentation # None =>
       /\ Request # None /\ w.presentation.layout # None
       /\ w.presentation.placeholder = None =>
            thumbnail # None /\ thumbnail.source = Request.source
Picture == window # None => Shows(window)

Inv == TypeOK /\ Control /\ Lease /\ Picture

\* Nothing is presented, and no step of a poll begun, before the delay is over.
Delayed ==
  pc \in Steps \/ (window # None /\ window.presentation # None) => selection.ready

(***************************************************************************)
(* Numbers.                                                                *)
(***************************************************************************)
LEMMA Least ==
  ASSUME NEW S \in SUBSET Nat, S # {}
  PROVE  \E x \in S : \A y \in S : x <= y
<1>1. PICK x \in S : \A y \in S : ~(<<y, x>> \in OpToRel(<, Nat))
  BY NatLessThanWellFounded, WFMin
<1>2. ASSUME NEW y \in S PROVE x <= y
  <2>1. <<y, x>> \in Nat \X Nat /\ <<y, x>>[1] = y /\ <<y, x>>[2] = x
    OBVIOUS
  <2>2. ~(y < x)
    BY <1>1, <2>1, Zenon DEF OpToRel
  <2> QED BY <2>2
<1> QED BY <1>2

LEMMA MinIsLeast ==
  ASSUME NEW S \in SUBSET Nat, S # {}
  PROVE  Min(S) \in S /\ \A y \in S : Min(S) <= y
BY Least DEF Min

LEMMA MaxIsGreatest ==
  ASSUME NEW S \in SUBSET Nat, S # {}, NEW n \in Nat, \A x \in S : x <= n
  PROVE  Max(S) \in S /\ \A y \in S : y <= Max(S)
<1> DEFINE T == {n - x : x \in S}
<1>1. T \in SUBSET Nat /\ T # {}
  <2>1. \A x \in S : x \in Nat /\ x <= n
    OBVIOUS
  <2>2. \A x \in S : n - x \in Nat
    BY <2>1
  <2> QED BY <2>2
<1> HIDE DEF T
<1>2. PICK t \in T : \A u \in T : t <= u
  BY <1>1, Least
<1>3. PICK x \in S : t = n - x
  BY <1>2 DEF T
<1>4. ASSUME NEW y \in S PROVE x >= y
  <2>1. n - y \in T
    BY DEF T
  <2>2. n - x <= n - y
    BY <1>2, <1>3, <2>1
  <2>3. x \in Nat /\ y \in Nat
    OBVIOUS
  <2> QED BY <2>2, <2>3
<1> QED BY <1>4 DEF Max

\* The budget the preview begins with is one of the budgets there are.
LEMMA MaxOfFinite ==
  ASSUME NEW S \in SUBSET Nat, S # {}, IsFiniteSet(S)
  PROVE  Max(S) \in S
<1> DEFINE Above(x) == {y \in S : y > x}
           T == {Above(x) : x \in S}
<1>1. T \subseteq FiniteSubsetsOf(S) /\ T # {}
  <2>1. \A x \in S : Above(x) \in SUBSET S
    OBVIOUS
  <2>2. T \in SUBSET (SUBSET S) /\ T # {}
    BY <2>1
  <2> QED BY <2>2, FS_FiniteSubsetsOfFinite, Zenon
<1>2. PICK U \in T : \A V \in T : ~(<<V, U>> \in StrictSubsetOrdering(S))
  BY <1>1, FS_StrictSubsetOrderingWellFounded, WFMin, Zenon
<1>3. PICK x \in S : U = Above(x)
  OBVIOUS
<1>4. ASSUME NEW y \in S PROVE x >= y
  <2> SUFFICES ASSUME y > x PROVE FALSE
    OBVIOUS
  <2>0. x \in Nat /\ y \in Nat /\ ~(y > y)
    OBVIOUS
  <2>1. Above(y) \subseteq Above(x) /\ y \in Above(x) /\ y \notin Above(y)
    <3>1. \A z \in S : z > y => z > x
      BY <2>0
    <3> QED BY <2>0, <3>1
  <2>2. <<Above(y), U>> \in StrictSubsetOrdering(S)
    <3>1. <<Above(y), U>> \in (SUBSET S) \X (SUBSET S)
      BY <1>3
    <3>2. Above(y) \subseteq U /\ Above(y) # U
      BY <1>3, <2>1
    <3> QED BY <3>1, <3>2 DEF StrictSubsetOrdering
  <2>3. Above(y) \in T
    OBVIOUS
  <2> QED BY <1>2, <2>2, <2>3
<1> QED BY <1>4 DEF Max

LEMMA ClampFacts ==
  ASSUME NEW x \in Int, NEW low \in Int, NEW high \in Int, low <= high
  PROVE  /\ Clamp(x, low, high) \in Int
         /\ low <= Clamp(x, low, high) /\ Clamp(x, low, high) <= high
         /\ Clamp(x, low, high) < high => x <= Clamp(x, low, high)
         /\ low < Clamp(x, low, high) => Clamp(x, low, high) <= x
BY DEF Clamp

LEMMA HalfType ==
  ASSUME NEW x \in Int
  PROVE  Half(x) \in Int
<1>1. \A y \in Int : y \div 2 \in Int
  OBVIOUS
<1> QED BY <1>1 DEF Half

LEMMA PlaceFacts ==
  ASSUME NEW place \in Everywhere
  PROVE  /\ place.anchor \in Corners /\ place.work \in Corners /\ place.dpi \in Nat \ {0}
         /\ place.work.left <= place.work.right /\ place.work.top <= place.work.bottom
<1>1. PICK s \in Surfaces : place \in Places[s]
  BY DEF Everywhere
<1> QED BY <1>1, PreviewAssumption

LEMMA ScaleFacts ==
  ASSUME NEW place \in Everywhere
  PROVE  /\ Gap(place) \in Nat \ {0} /\ Padding(place) \in Nat \ {0}
         /\ Px(MaxWidth, place) \in Nat /\ Px(MaxHeight, place) \in Nat
<1>1. place.dpi \in Nat \ {0} /\ MaxWidth \in Nat /\ MaxHeight \in Nat
  BY PlaceFacts, PreviewAssumption
<1>2. \A a, b \in Nat : a * b \in Nat
  OBVIOUS
<1>3. \A a \in Nat : 1 * a = a
  OBVIOUS
<1> QED BY <1>1, <1>2, <1>3 DEF Gap, Padding, Px

LEMMA SizeFacts ==
  ASSUME NEW size \in Sizes
  PROVE  size.x \in Nat \ {0} /\ size.y \in Nat \ {0}
BY PreviewAssumption DEF Sizes, Wide

(***************************************************************************)
(* Layout.                                                                 *)
(***************************************************************************)
\* r lies in the work area and leaves the surface free.
Inside(r, work) ==
  work.left <= r.left /\ r.right <= work.right /\ work.top <= r.top /\ r.bottom <= work.bottom
Beside(r, a) == r.right <= a.left \/ a.right <= r.left \/ r.bottom <= a.top \/ a.bottom <= r.top
Clear(r, place) ==
  /\ Inside(r, place.work) /\ Beside(r, place.anchor)
  /\ r.left + 2 * r.padding < r.right /\ r.top + 2 * r.padding < r.bottom

LEMMA SlotFacts ==
  ASSUME NEW place \in Everywhere, NEW i \in 1 .. 4
  PROVE  /\ Slots(place)[i] \in Corners /\ Inside(Slots(place)[i], place.work)
         /\ (Width(Slots(place)[i]) > 0 /\ Height(Slots(place)[i]) > 0) => Beside(Slots(place)[i], place.anchor)
<1> DEFINE a == place.anchor
           work == place.work
           g == Gap(place)
<1>1. a \in Corners /\ work \in Corners /\ work.left <= work.right /\ work.top <= work.bottom
  BY PlaceFacts
<1>2. g \in Nat
  BY ScaleFacts
<1> DEFINE c1 == Clamp(a.right + g, work.left, work.right)
           c2 == Clamp(a.left - g, work.left, work.right)
           c3 == Clamp(a.bottom + g, work.top, work.bottom)
           c4 == Clamp(a.top - g, work.top, work.bottom)
<1>3. /\ c1 \in Int /\ work.left <= c1 /\ c1 <= work.right /\ (c1 < work.right => a.right + g <= c1)
      /\ c2 \in Int /\ work.left <= c2 /\ c2 <= work.right /\ (work.left < c2 => c2 <= a.left - g)
      /\ c3 \in Int /\ work.top <= c3 /\ c3 <= work.bottom /\ (c3 < work.bottom => a.bottom + g <= c3)
      /\ c4 \in Int /\ work.top <= c4 /\ c4 <= work.bottom /\ (work.top < c4 => c4 <= a.top - g)
  <2>1. /\ a.left \in Int /\ a.right \in Int /\ a.top \in Int /\ a.bottom \in Int
        /\ work.left \in Int /\ work.right \in Int /\ work.top \in Int /\ work.bottom \in Int
    BY <1>1 DEF Corners
  <2> HIDE DEF a, g, work
  <2>2. a.right + g \in Int /\ a.left - g \in Int /\ a.bottom + g \in Int /\ a.top - g \in Int
    BY <1>2, <2>1
  <2>3. /\ c1 \in Int /\ work.left <= c1 /\ c1 <= work.right /\ (c1 < work.right => a.right + g <= c1)
    BY <1>1, <2>1, <2>2, ClampFacts
  <2>4. /\ c2 \in Int /\ work.left <= c2 /\ c2 <= work.right /\ (work.left < c2 => c2 <= a.left - g)
    BY <1>1, <2>1, <2>2, ClampFacts
  <2>5. /\ c3 \in Int /\ work.top <= c3 /\ c3 <= work.bottom /\ (c3 < work.bottom => a.bottom + g <= c3)
    BY <1>1, <2>1, <2>2, ClampFacts
  <2>6. /\ c4 \in Int /\ work.top <= c4 /\ c4 <= work.bottom /\ (work.top < c4 => c4 <= a.top - g)
    BY <1>1, <2>1, <2>2, ClampFacts
  <2> HIDE DEF c1, c2, c3, c4
  <2> QED BY <2>3, <2>4, <2>5, <2>6
<1>4. Slots(place) = << [work EXCEPT !.left = c1], [work EXCEPT !.right = c2],
                    [work EXCEPT !.top = c3], [work EXCEPT !.bottom = c4] >>
  BY DEF Slots
<1> HIDE DEF a, g, work, c1, c2, c3, c4
<1>5. CASE i = 1
  <2>1. Slots(place)[i] = [work EXCEPT !.left = c1]
    BY <1>4, <1>5
  <2> QED BY <1>1, <1>2, <1>3, <2>1 DEF Corners, Inside, Beside, Width, Height, a, work
<1>6. CASE i = 2
  <2>1. Slots(place)[i] = [work EXCEPT !.right = c2]
    BY <1>4, <1>6
  <2> QED BY <1>1, <1>2, <1>3, <2>1 DEF Corners, Inside, Beside, Width, Height, a, work
<1>7. CASE i = 3
  <2>1. Slots(place)[i] = [work EXCEPT !.top = c3]
    BY <1>4, <1>7
  <2> QED BY <1>1, <1>2, <1>3, <2>1 DEF Corners, Inside, Beside, Width, Height, a, work
<1>8. CASE i = 4
  <2>1. Slots(place)[i] = [work EXCEPT !.bottom = c4]
    BY <1>4, <1>8
  <2> QED BY <1>1, <1>2, <1>3, <2>1 DEF Corners, Inside, Beside, Width, Height, a, work
<1> QED BY <1>5, <1>6, <1>7, <1>8

LEMMA FitFacts ==
  ASSUME NEW size \in Sizes, NEW width \in Int, NEW height \in Int,
         NEW padding \in Nat, NEW bytes \in Nat,
         Fit(size, width, height, padding, bytes) # None
  PROVE  LET fit == Fit(size, width, height, padding, bytes)
         IN /\ fit.width \in Int /\ 2 * padding < fit.width /\ fit.width <= width
            /\ fit.height \in Int /\ 2 * padding < fit.height /\ fit.height <= height
            /\ fit.bytes \in Nat /\ fit.bytes <= bytes
<1> DEFINE tall(w) == Max({(w * size.y) \div size.x, 1})
           area(w) == (w + 2 * padding) * (tall(w) + 2 * padding) * 4
           fits == {w \in 1 .. width - 2 * padding :
                      tall(w) <= height - 2 * padding /\ area(w) <= bytes}
           fit == Fit(size, width, height, padding, bytes)
<1>1. fits # {}
  BY DEF Fit
<1>2. width - 2 * padding \in Nat
  <2>1. width - 2 * padding \in Int
    OBVIOUS
  <2>2. PICK v : v \in fits
    BY <1>1
  <2>3. v \in 1 .. width - 2 * padding
    BY <2>2
  <2> HIDE DEF fits
  <2> QED BY <2>1, <2>3
<1>3. Max(fits) \in fits
  <2>1. fits \in SUBSET Nat /\ \A x \in fits : x <= width - 2 * padding
    OBVIOUS
  <2> HIDE DEF fits
  <2> QED BY <1>1, <1>2, <2>1, MaxIsGreatest
<1> DEFINE w == Max(fits)
<1>4. fit = [width |-> w + 2 * padding, height |-> tall(w) + 2 * padding, bytes |-> area(w)]
  BY <1>1 DEF Fit
<1>5. w \in Nat /\ 1 <= w /\ w <= width - 2 * padding /\ tall(w) <= height - 2 * padding /\ area(w) <= bytes
  <2>1. w \in fits
    BY <1>3
  <2> HIDE DEF w, tall, area
  <2>2. w \in 1 .. width - 2 * padding /\ tall(w) <= height - 2 * padding /\ area(w) <= bytes
    BY <2>1
  <2> QED BY <1>2, <2>2
<1>6. tall(w) \in Nat /\ 1 <= tall(w)
  <2> HIDE DEF w
  <2> DEFINE d == (w * size.y) \div size.x
  <2>1. size.x \in Nat \ {0} /\ size.y \in Nat \ {0}
    BY SizeFacts
  <2>2. w * size.y \in Nat
    BY <1>5, <2>1
  <2>3. d \in Nat
    BY <2>1, <2>2
  <2> HIDE DEF d
  <2>4. {d, 1} \in SUBSET Nat /\ \A x \in {d, 1} : x <= d + 1
    BY <2>3
  <2>5. Max({d, 1}) \in {d, 1} /\ 1 <= Max({d, 1})
    BY <2>3, <2>4, MaxIsGreatest
  <2> QED BY <2>3, <2>5 DEF d
<1>7. area(w) \in Nat
  <2> HIDE DEF tall, w
  <2>1. w + 2 * padding \in Nat /\ tall(w) + 2 * padding \in Nat
    BY <1>5, <1>6
  <2>2. \A m, n \in Nat : m * n \in Nat
    OBVIOUS
  <2> QED BY <2>1, <2>2
<1> HIDE DEF w, tall, area, fits, fit
<1> QED BY <1>4, <1>5, <1>6, <1>7 DEF fit

LEMMA PlacedFacts ==
  ASSUME NEW place \in Everywhere, NEW slot \in Corners, NEW fit,
         fit.width \in Int, fit.width <= Width(slot), 2 * Padding(place) < fit.width,
         fit.height \in Int, fit.height <= Height(slot), 2 * Padding(place) < fit.height
  PROVE  LET r == Placed(slot, place, fit)
         IN /\ slot.left <= r.left /\ r.right <= slot.right
            /\ slot.top <= r.top /\ r.bottom <= slot.bottom
            /\ r.left \in Int /\ r.right \in Int /\ r.top \in Int /\ r.bottom \in Int
            /\ r.left + 2 * r.padding < r.right /\ r.top + 2 * r.padding < r.bottom
<1> DEFINE a == place.anchor
           x == a.left + Half(Width(a) - fit.width)
           y == a.top + Half(Height(a) - fit.height)
           left == Clamp(x, slot.left, slot.right - fit.width)
           top == Clamp(y, slot.top, slot.bottom - fit.height)
           r == Placed(slot, place, fit)
<1>1. a \in Corners /\ Padding(place) \in Nat
  BY PlaceFacts, ScaleFacts
<1>2. Width(a) - fit.width \in Int /\ Height(a) - fit.height \in Int /\ a.left \in Int /\ a.top \in Int
  BY <1>1 DEF Width, Height, Corners
<1>3. x \in Int /\ y \in Int
  BY <1>2, HalfType
<1>4. r = [left |-> left, top |-> top, right |-> left + fit.width, bottom |-> top + fit.height,
           bytes |-> fit.bytes, padding |-> Padding(place)]
  BY DEF Placed
<1>5. /\ slot.left \in Int /\ slot.right - fit.width \in Int /\ slot.left <= slot.right - fit.width
      /\ slot.top \in Int /\ slot.bottom - fit.height \in Int /\ slot.top <= slot.bottom - fit.height
      /\ slot.right \in Int /\ slot.bottom \in Int
  BY DEF Width, Height, Corners
<1> HIDE DEF x, y
<1>6. /\ left \in Int /\ slot.left <= left /\ left <= slot.right - fit.width
      /\ top \in Int /\ slot.top <= top /\ top <= slot.bottom - fit.height
  BY <1>3, <1>5, ClampFacts
<1> HIDE DEF left, top, r
<1> QED BY <1>1, <1>4, <1>5, <1>6 DEF r

LEMMA LayoutClear ==
  ASSUME NEW place \in Everywhere, NEW size \in Sizes, NEW bytes \in Rooms,
         Layouts[place][size][bytes] # None
  PROVE  Clear(Layouts[place][size][bytes], place)
<1> DEFINE room2(i) == Min({Width(Slots(place)[i]), Px(MaxWidth, place)})
           high(i) == Min({Height(Slots(place)[i]), Px(MaxHeight, place)})
           fits == [i \in 1 .. 4 |-> Fit(size, room2(i), high(i), Padding(place), bytes)]
           usable == {i \in 1 .. 4 : fits[i] # None}
           best == {i \in usable : \A j \in usable : fits[j].bytes <= fits[i].bytes}
           i == Min(best)
<1>1. Layouts[place][size][bytes] = Calculate(place, size, bytes)
  BY DEF Layouts
<1>2. usable # {} /\ Calculate(place, size, bytes) = Placed(Slots(place)[i], place, fits[i])
  BY <1>1 DEF Calculate
<1>3. bytes \in Nat /\ Padding(place) \in Nat
  BY PreviewAssumption, ScaleFacts
<1>4. ASSUME NEW k \in 1 .. 4
      PROVE  /\ room2(k) \in Int /\ room2(k) <= Width(Slots(place)[k])
             /\ high(k) \in Int /\ high(k) <= Height(Slots(place)[k])
  <2>1. Width(Slots(place)[k]) \in Int /\ Height(Slots(place)[k]) \in Int
    BY SlotFacts DEF Corners, Width, Height
  <2>2. Px(MaxWidth, place) \in Int /\ Px(MaxHeight, place) \in Int
    BY ScaleFacts
  <2>3. \A m, n \in Int : Min({m, n}) \in Int /\ Min({m, n}) <= m
    <3> SUFFICES ASSUME NEW m \in Int, NEW n \in Int
                 PROVE  Min({m, n}) \in Int /\ Min({m, n}) <= m
      OBVIOUS
    <3>1. \E x \in {m, n} : \A y \in {m, n} : x <= y
      OBVIOUS
    <3>2. Min({m, n}) \in {m, n} /\ \A y \in {m, n} : Min({m, n}) <= y
      BY <3>1 DEF Min
    <3> QED BY <3>2
  <2> QED BY <2>1, <2>2, <2>3
<1>5. ASSUME NEW k \in usable
      PROVE  /\ fits[k].width \in Int /\ 2 * Padding(place) < fits[k].width
             /\ fits[k].width <= Width(Slots(place)[k])
             /\ fits[k].height \in Int /\ 2 * Padding(place) < fits[k].height
             /\ fits[k].height <= Height(Slots(place)[k])
             /\ fits[k].bytes \in Nat /\ fits[k].bytes <= bytes
  <2>1. /\ room2(k) \in Int /\ room2(k) <= Width(Slots(place)[k])
        /\ high(k) \in Int /\ high(k) <= Height(Slots(place)[k])
    BY <1>4
  <2>2. fits[k] = Fit(size, room2(k), high(k), Padding(place), bytes) /\ fits[k] # None
    OBVIOUS
  <2>3. Width(Slots(place)[k]) \in Int /\ Height(Slots(place)[k]) \in Int
    BY SlotFacts DEF Corners, Width, Height
  <2> HIDE DEF room2, high, fits
  <2> DEFINE fit == Fit(size, room2(k), high(k), Padding(place), bytes)
  <2>4. /\ fit.width \in Int /\ 2 * Padding(place) < fit.width /\ fit.width <= room2(k)
        /\ fit.height \in Int /\ 2 * Padding(place) < fit.height /\ fit.height <= high(k)
        /\ fit.bytes \in Nat /\ fit.bytes <= bytes
    BY <1>3, <2>1, <2>2, FitFacts
  <2> HIDE DEF fit
  <2>5. fits[k] = fit
    BY <2>2 DEF fit
  <2> QED BY <2>1, <2>3, <2>4, <2>5
<1>6. best # {}
  <2> HIDE DEF fits
  <2> DEFINE T == {fits[j].bytes : j \in usable}
  <2>1. T \in SUBSET Nat /\ T # {} /\ \A t \in T : t <= bytes
    BY <1>2, <1>5
  <2> HIDE DEF T
  <2>2. Max(T) \in T /\ \A t \in T : t <= Max(T)
    BY <1>3, <2>1, MaxIsGreatest
  <2>3. PICK k \in usable : Max(T) = fits[k].bytes
    BY <2>2 DEF T
  <2>4. k \in best
    BY <2>2, <2>3 DEF T
  <2> QED BY <2>4
<1>7. i \in best
  <2>1. best \in SUBSET Nat
    OBVIOUS
  <2> HIDE DEF best
  <2> QED BY <1>6, <2>1, MinIsLeast
<1>8. i \in usable /\ i \in 1 .. 4
  BY <1>7
<1> HIDE DEF i, best, usable, fits
<1> DEFINE slot == Slots(place)[i]
           r == Placed(slot, place, fits[i])
<1>9. slot \in Corners /\ Inside(slot, place.work) /\ ((Width(slot) > 0 /\ Height(slot) > 0) => Beside(slot, place.anchor))
  BY <1>8, SlotFacts
<1>10. /\ fits[i].width \in Int /\ 2 * Padding(place) < fits[i].width /\ fits[i].width <= Width(slot)
       /\ fits[i].height \in Int /\ 2 * Padding(place) < fits[i].height /\ fits[i].height <= Height(slot)
  BY <1>5, <1>8
<1>11. Width(slot) > 0 /\ Height(slot) > 0
  BY <1>3, <1>9, <1>10 DEF Width, Height, Corners
<1> HIDE DEF slot
<1>12. /\ slot.left <= r.left /\ r.right <= slot.right
       /\ slot.top <= r.top /\ r.bottom <= slot.bottom
       /\ r.left \in Int /\ r.right \in Int /\ r.top \in Int /\ r.bottom \in Int
       /\ r.left + 2 * r.padding < r.right /\ r.top + 2 * r.padding < r.bottom
  BY <1>9, <1>10, PlacedFacts
<1> HIDE DEF r
<1>13. Layouts[place][size][bytes] = r
  BY <1>1, <1>2 DEF r, slot
<1>14. place.work \in Corners /\ place.anchor \in Corners
  BY PlaceFacts
<1>15. Inside(r, place.work)
  BY <1>9, <1>12, <1>14 DEF Inside, Corners
<1>16. Beside(r, place.anchor)
  BY <1>9, <1>11, <1>12, <1>14 DEF Beside, Corners
<1> QED BY <1>12, <1>13, <1>15, <1>16 DEF Clear

(***************************************************************************)
(* The window and the lease.                                               *)
(***************************************************************************)
Budgets == [changes : Nat, moves : Nat, faults : Nat]

LEMMA WindowFacts ==
  /\ \A n \in Nat : /\ NewWindow(n) \in Windows /\ NewWindow(n).id = n /\ NewWindow(n).alive
                    /\ NewWindow(n).presentation = None /\ ~NewWindow(n).visible
  /\ \A w \in Windows : /\ Hidden(w) \in Windows /\ Hidden(w).id = w.id /\ Hidden(w).alive = w.alive
                        /\ Hidden(w).presentation = None /\ ~Hidden(w).visible
  /\ Hidden(None) = None /\ None \notin Windows
<1>1. \A n \in Nat : /\ NewWindow(n) \in Windows /\ NewWindow(n).id = n /\ NewWindow(n).alive
                     /\ NewWindow(n).presentation = None /\ ~NewWindow(n).visible
  BY DEF NewWindow, Windows
<1>2. ASSUME NEW w \in Windows
      PROVE  /\ Hidden(w) \in Windows /\ Hidden(w).id = w.id /\ Hidden(w).alive = w.alive
             /\ Hidden(w).presentation = None /\ ~Hidden(w).visible
  <2>1. w # None
    BY NoneAssumption
  <2>2. Hidden(w) = [w EXCEPT !.presentation = None, !.dirty = TRUE, !.visible = FALSE]
    BY <2>1 DEF Hidden
  <2> QED BY <2>2 DEF Windows
<1>3. Hidden(None) = None /\ None \notin Windows
  BY NoneAssumption DEF Hidden
<1> QED BY <1>1, <1>2, <1>3

LEMMA SpendType ==
  ASSUME budget \in Budgets, NEW what \in {"changes", "moves", "faults"}, Spend(what)
  PROVE  budget' \in Budgets
<1>1. budget[what] \in Nat /\ budget[what] > 0 /\ budget' = [budget EXCEPT ![what] = budget[what] - 1]
  BY DEF Spend, Budgets
<1>2. budget[what] - 1 \in Nat
  BY <1>1
<1> QED BY <1>1, <1>2 DEF Budgets

LEMMA ReleaseFacts ==
  ASSUME TypeOK, Release
  PROVE  /\ thumbnail' \in Leases \cup {None} /\ retiring' \in BOOLEAN /\ budget' \in Budgets
         /\ thumbnail' # None => retiring' /\ thumbnail' = thumbnail
<1>1. budget \in Budgets /\ thumbnail \in Leases \cup {None}
  BY DEF TypeOK, Budgets
<1>2. CASE thumbnail' = None /\ retiring' = FALSE /\ Works
  BY <1>1, <1>2 DEF Works
<1>3. CASE Related /\ Fault /\ thumbnail' = thumbnail /\ retiring' = TRUE
  BY <1>1, <1>3, SpendType DEF Fault
<1> QED BY <1>2, <1>3 DEF Release

\* Whatever is selected next: what is left of the lease waits for its release,
\* and nothing is seen.
LEMMA RetireKeeps ==
  ASSUME TypeOK, Lease, Retire
  PROVE  /\ thumbnail' \in Leases \cup {None} /\ retiring' \in BOOLEAN /\ budget' \in Budgets
         /\ window' \in Windows \cup {None}
         /\ ~retiring' => thumbnail' = None
         /\ Lease' /\ Picture'
<1>1. window \in Windows \cup {None}
  BY DEF TypeOK
<1>2. window' = Hidden(window) /\ Release
  BY DEF Retire
<1>3. /\ thumbnail' \in Leases \cup {None} /\ retiring' \in BOOLEAN /\ budget' \in Budgets
      /\ thumbnail' # None => retiring' /\ thumbnail' = thumbnail
  BY <1>2, ReleaseFacts
<1>4. CASE window = None
  <2>1. window' = None /\ thumbnail' = None
    BY <1>2, <1>3, <1>4, WindowFacts DEF Lease
  <2> QED BY <1>3, <2>1 DEF Lease, Picture
<1>5. CASE window \in Windows
  <2>1. /\ window' \in Windows /\ window' # None /\ window'.id = window.id
        /\ window'.presentation = None /\ ~window'.visible
    BY <1>2, <1>5, WindowFacts
  <2>2. Lease'
    BY <1>3, <2>1 DEF Lease
  <2>3. Picture'
    BY <2>1 DEF Picture, Shows
  <2> QED BY <1>3, <2>1, <2>2, <2>3
<1> QED BY <1>1, <1>4, <1>5

\* A window is there afterwards, unless a lease keeps the dead one.
LEMMA EnsureKeeps ==
  ASSUME TypeOK, Lease, Picture, EnsureWindow, ~retiring, selection' = selection
  PROVE  /\ thumbnail' \in Leases \cup {None} /\ retiring' \in BOOLEAN /\ budget' \in Budgets
         /\ window' \in Windows
         /\ ~retiring' => window'.alive
         /\ retiring' => window'.presentation = None /\ ~window'.visible
         /\ (window # None /\ window.alive) => UNCHANGED <<window, thumbnail, retiring>>
         /\ Lease' /\ Picture'
<1>1. /\ window \in Windows \cup {None} /\ budget \in Budgets /\ thumbnail \in Leases \cup {None}
      /\ retiring \in BOOLEAN
  BY DEF TypeOK, Budgets
<1>2. CASE window = None /\ window' = NewWindow(1) /\ Works /\ UNCHANGED <<thumbnail, retiring>>
  <2>1. /\ window' \in Windows /\ window'.alive /\ window'.presentation = None /\ ~window'.visible
    BY <1>2, WindowFacts
  <2>2. thumbnail' = None /\ thumbnail = None
    BY <1>2 DEF Lease
  <2> QED BY <1>1, <1>2, <2>1, <2>2 DEF Lease, Picture, Shows, Works, Request
<1>3. CASE window # None /\ window.alive /\ Works /\ UNCHANGED <<window, thumbnail, retiring>>
  <2>1. Lease' /\ Picture'
    BY <1>3 DEF Lease, Picture, Shows, Request
  <2> QED BY <1>1, <1>3, <2>1 DEF Works
<1>4. CASE window # None /\ ~window.alive /\ Replaces
  <2>1. window \in Windows
    BY <1>1, <1>4
  <2>2. window.id \in Nat /\ window.id + 1 \in Nat
    BY <2>1 DEF Windows
  <2>3. Release /\ window' = IF retiring' THEN Hidden(window) ELSE NewWindow(window.id + 1)
    BY <1>4 DEF Replaces
  <2>4. /\ thumbnail' \in Leases \cup {None} /\ retiring' \in BOOLEAN /\ budget' \in Budgets
        /\ thumbnail' # None => retiring' /\ thumbnail' = thumbnail
    BY <2>3, ReleaseFacts
  <2>5. CASE retiring'
    <3>1. /\ window' \in Windows /\ window'.id = window.id
          /\ window'.presentation = None /\ ~window'.visible /\ window' # None
      BY <2>1, <2>3, <2>5, WindowFacts
    <3>2. Lease'
      BY <2>4, <2>5, <3>1 DEF Lease
    <3>3. Picture'
      BY <3>1 DEF Picture, Shows
    <3> QED BY <1>4, <2>4, <2>5, <3>1, <3>2, <3>3
  <2>6. CASE ~retiring'
    <3>1. /\ window' \in Windows /\ window'.alive
          /\ window'.presentation = None /\ ~window'.visible
      BY <2>2, <2>3, <2>6, WindowFacts
    <3>2. thumbnail' = None
      BY <2>4, <2>6
    <3> QED BY <1>4, <2>4, <2>6, <3>1, <3>2 DEF Lease, Picture, Shows
  <2> QED BY <2>5, <2>6
<1> QED BY <1>2, <1>3, <1>4 DEF EnsureWindow

\* Between the steps of a poll nothing is promised.
LEMMA RestControl ==
  ASSUME pc' \in {"idle", "gate", "dropped"}
  PROVE  Control'
BY DEF Control, Steps

\* An error of a step is presented or given up: only the selection matters.
LEMMA FailControl ==
  ASSUME Control, pc \in Steps, pc' = "failed", selection' = selection, retiring' = retiring
  PROVE  Control'
BY DEF Control, Steps, Request

\* What neither the poll nor the preview does.
LEMMA ElsewhereKeeps ==
  ASSUME Control, Lease, Picture, selection'.request = selection.request,
         UNCHANGED <<room, pc, job, window, thumbnail, retiring>>
  PROVE  Control' /\ Lease' /\ Picture'
<1>1. Request' = Request
  BY DEF Request
<1>2. Presented' = Presented
  BY <1>1 DEF Presented, Layout
<1>3. Control'
  BY <1>1, <1>2 DEF Control
<1>4. Lease'
  BY <1>1 DEF Lease
<1>5. Picture'
  BY <1>1 DEF Picture, Shows
<1> QED BY <1>3, <1>4, <1>5

LEMMA RequestFacts ==
  ASSUME TypeOK
  PROVE  /\ Request \in Requests \cup {None}
         /\ Requested \in Requests \cup {None}
         /\ \A h \in Handles : Identity(h) \in Identities
         /\ Request # None => /\ Request.source \in Identities /\ Request.source.handle \in Handles
                              /\ Request.place \in Everywhere
         /\ NoSelection \in [request : Requests \cup {None}, ready : BOOLEAN]
         /\ NoJob \in [placeholder : Placeholders, size : Sizes, failed : BOOLEAN]
<1>1. Request \in Requests \cup {None} /\ Requested \in Requests \cup {None}
  BY DEF TypeOK, Request, Requested
<1>2. \A h \in Handles : Identity(h) \in Identities
  BY DEF TypeOK, Identity, Identities
<1>3. Request # None => /\ Request.source \in Identities /\ Request.source.handle \in Handles
                        /\ Request.place \in Everywhere
  BY <1>1 DEF Requests, Identities
<1>4. /\ NoSelection \in [request : Requests \cup {None}, ready : BOOLEAN]
      /\ NoJob \in [placeholder : Placeholders, size : Sizes, failed : BOOLEAN]
  BY DEF NoSelection, NoJob, Placeholders, Sizes
<1> QED BY <1>1, <1>2, <1>3, <1>4

(***************************************************************************)
(* The steps of a poll.                                                    *)
(***************************************************************************)
LEMMA BeginStep == Inv /\ Begin => Inv'
<1> SUFFICES ASSUME Inv, Begin PROVE Inv'
  OBVIOUS
<1>0. TypeOK /\ Control /\ Lease /\ Picture
  BY DEF Inv
<1>1. pc' = "gate" /\ job' = job /\ UNCHANGED outside
  BY DEF Begin, Goto
<1>2. Control'
  BY <1>1, RestControl
<1>3. CASE /\ Same(Request, Requested)
           /\ selection' = [selection EXCEPT !.request = Requested]
           /\ UNCHANGED <<thumbnail, window, retiring, timing, budget>>
  <2>1. selection \in [request : Requests \cup {None}, ready : BOOLEAN] /\ Requested \in Requests \cup {None}
    BY <1>0, RequestFacts DEF TypeOK
  <2>2. selection' \in [request : Requests \cup {None}, ready : BOOLEAN] /\ Request' = Requested
    BY <1>3, <2>1 DEF Request
  <2>3. TypeOK'
    BY <1>0, <1>1, <1>3, <2>2 DEF TypeOK, outside, timing
  <2>4. Request # None => Request' # None /\ Request'.source = Request.source
    BY <1>3, <2>2 DEF Same
  <2>5. Lease' /\ Picture'
    BY <1>0, <1>3, <2>4 DEF Lease, Picture, Shows
  <2> QED BY <1>2, <2>3, <2>5 DEF Inv
<1>4. CASE /\ selection' = [request |-> Requested, ready |-> FALSE]
           /\ Retire
           /\ check' = FALSE /\ retry' = FALSE
  <2>1. /\ thumbnail' \in Leases \cup {None} /\ retiring' \in BOOLEAN /\ budget' \in Budgets
        /\ window' \in Windows \cup {None} /\ Lease' /\ Picture'
    BY <1>0, <1>4, RetireKeeps
  <2>2. selection' \in [request : Requests \cup {None}, ready : BOOLEAN]
    BY <1>0, <1>4, RequestFacts
  <2>3. TypeOK'
    BY <1>0, <1>1, <1>4, <2>1, <2>2 DEF TypeOK, outside, Budgets
  <2> QED BY <1>2, <2>1, <2>3 DEF Inv
<1> QED BY <1>3, <1>4 DEF Begin

LEMMA GateStep == Inv /\ Gate => Inv'
<1> SUFFICES ASSUME Inv, Gate PROVE Inv'
  OBVIOUS
<1>0. TypeOK /\ Control /\ Lease /\ Picture /\ NoJob \in [placeholder : Placeholders, size : Sizes, failed : BOOLEAN]
  BY RequestFacts DEF Inv
<1>1. /\ UNCHANGED <<outside, selection, retry>>
      /\ (pc' = "idle" /\ job' = NoJob) \/ (pc' = "wanted" /\ job' = job /\ ~retiring')
      /\ \/ UNCHANGED <<thumbnail, window, retiring, check, budget>>
         \/ Retire /\ check' = TRUE
  BY <1>0 DEF Gate, Goto, Return, TypeOK
<1>2. Control'
  BY <1>1 DEF Control, Steps
<1>3. CASE UNCHANGED <<thumbnail, window, retiring, check, budget>>
  <2>1. TypeOK'
    BY <1>0, <1>1, <1>3 DEF TypeOK, outside, Steps
  <2>2. Lease' /\ Picture'
    BY <1>0, <1>1, <1>3 DEF Lease, Picture, Shows, Request
  <2> QED BY <1>2, <2>1, <2>2 DEF Inv
<1>4. CASE Retire /\ check' = TRUE
  <2>1. /\ thumbnail' \in Leases \cup {None} /\ retiring' \in BOOLEAN /\ budget' \in Budgets
        /\ window' \in Windows \cup {None} /\ Lease' /\ Picture'
    BY <1>0, <1>4, RetireKeeps
  <2>2. TypeOK'
    BY <1>0, <1>1, <1>4, <2>1 DEF TypeOK, outside, Budgets
  <2> QED BY <1>2, <2>1, <2>2 DEF Inv
<1> QED BY <1>1, <1>3, <1>4

LEMMA ProceedStep == Inv /\ Proceed => Inv'
<1> SUFFICES ASSUME Inv, Proceed PROVE Inv'
  OBVIOUS
<1>0. TypeOK /\ Control /\ Lease /\ Picture /\ NoJob \in [placeholder : Placeholders, size : Sizes, failed : BOOLEAN]
  BY RequestFacts DEF Inv
<1>1. /\ UNCHANGED <<outside, selection, thumbnail, window, retiring, retry, budget>>
      /\ check' = check \/ check' = TRUE
      /\ \/ pc' = "idle" /\ job' = NoJob
         \/ pc' = "inspect" /\ job' = job /\ Request # None
      /\ pc = "wanted"
  BY DEF Proceed, Goto, Return
<1>2. Control'
  BY <1>0, <1>1 DEF Control, Steps, Request
<1>3. TypeOK'
  <2>1. /\ check' \in BOOLEAN /\ job' \in [placeholder : Placeholders, size : Sizes, failed : BOOLEAN]
        /\ pc' \in Steps \cup {"idle", "gate", "wanted", "dropped"}
    BY <1>0, <1>1 DEF TypeOK, Steps
  <2> QED BY <1>0, <1>1, <2>1 DEF TypeOK, outside
<1>4. Lease' /\ Picture'
  BY <1>0, <1>1 DEF Lease, Picture, Shows, Request
<1> QED BY <1>2, <1>3, <1>4 DEF Inv

LEMMA InspectStep == Inv /\ Inspect => Inv'
<1> SUFFICES ASSUME Inv, Inspect PROVE Inv'
  OBVIOUS
<1> DEFINE status == Placeholder(Request.source)
           show == pc' = "present" /\ job' = [NoJob EXCEPT !.placeholder = status]
<1>0. TypeOK /\ Control /\ Lease /\ Picture /\ NoJob \in [placeholder : Placeholders, size : Sizes, failed : BOOLEAN]
  BY RequestFacts DEF Inv
<1>1. /\ UNCHANGED <<outside, selection, timing>> /\ pc = "inspect"
      /\ Request # None /\ ~retiring
  BY <1>0 DEF Inspect, Control, Steps
<1>2. Request' = Request
  BY <1>1 DEF Request
<1>3. status \in Placeholders
  <2>1. Request.source.handle \in Handles
    BY <1>0, <1>1, RequestFacts
  <2>2. source[Request.source.handle].shape \in Shapes
    BY <1>0, <2>1 DEF TypeOK
  <2> QED BY <2>2 DEF Placeholder, IsCurrent, Placeholders, Shapes
<1>4. /\ Retire \/ (UNCHANGED <<thumbnail, window, retiring>> /\ (Fault \/ UNCHANGED budget))
      /\ \/ Return
         \/ ~retiring' /\ show /\ status # None
         \/ ~retiring' /\ (Goto("failed") \/ Goto("ensure"))
  <2> HIDE DEF status
  <2>1. CASE UnexpectedlyHidden /\ Retire /\ Return
    BY <2>1
  <2>2. CASE Fault /\ Goto("failed") /\ UNCHANGED <<thumbnail, window, retiring>>
    BY <1>1, <2>2
  <2>3. CASE /\ status = None
             /\ IF Layout(Request.place, Wide) = None THEN Retire /\ Return
                ELSE Goto("ensure") /\ UNCHANGED <<thumbnail, window, retiring, budget>>
    BY <1>1, <2>3
  <2>4. CASE status # None /\ thumbnail = None /\ show /\ UNCHANGED <<thumbnail, window, retiring, budget>>
    BY <1>1, <2>4
  <2>5. CASE status # None /\ thumbnail # None /\ Retire /\ IF retiring' THEN Return ELSE show
    BY <2>5
  <2>6. \/ UnexpectedlyHidden /\ Retire /\ Return
        \/ Fault /\ Goto("failed") /\ UNCHANGED <<thumbnail, window, retiring>>
        \/ IF status = None
           THEN IF Layout(Request.place, Wide) = None THEN Retire /\ Return
                ELSE Goto("ensure") /\ UNCHANGED <<thumbnail, window, retiring, budget>>
           ELSE IF thumbnail = None
           THEN show /\ UNCHANGED <<thumbnail, window, retiring, budget>>
           ELSE Retire /\ IF retiring' THEN Return ELSE show
    BY DEF Inspect, status
  <2> QED BY <2>1, <2>2, <2>3, <2>4, <2>5, <2>6
<1>5. /\ thumbnail' \in Leases \cup {None} /\ retiring' \in BOOLEAN /\ budget' \in Budgets
      /\ window' \in Windows \cup {None} /\ Lease' /\ Picture'
  <2>1. CASE Retire
    BY <1>0, <2>1, RetireKeeps
  <2>2. CASE UNCHANGED <<thumbnail, window, retiring>> /\ (Fault \/ UNCHANGED budget)
    <3>1. Lease' /\ Picture'
      BY <1>0, <1>2, <2>2 DEF Lease, Picture, Shows
    <3>2. budget' \in Budgets
      BY <1>0, <2>2, SpendType DEF TypeOK, Budgets, Fault
    <3> QED BY <1>0, <2>2, <3>1, <3>2 DEF TypeOK
  <2> QED BY <1>4, <2>1, <2>2
<1>6. CASE Return
  <2>1. TypeOK'
    BY <1>0, <1>1, <1>5, <1>6 DEF TypeOK, outside, timing, Budgets, Return
  <2>2. Control'
    BY <1>6, RestControl DEF Return
  <2> QED BY <1>5, <2>1, <2>2 DEF Inv
<1>7. CASE ~retiring' /\ show /\ status # None
  <2>1. job' \in [placeholder : Placeholders, size : Sizes, failed : BOOLEAN] /\ job'.placeholder = status
    BY <1>0, <1>3, <1>7 DEF NoJob
  <2> HIDE DEF status
  <2>2. TypeOK'
    BY <1>0, <1>1, <1>5, <1>7, <2>1 DEF TypeOK, outside, timing, Budgets, Steps
  <2>3. Control'
    BY <1>1, <1>2, <1>7, <2>1 DEF Control, Steps
  <2> QED BY <1>5, <2>2, <2>3 DEF Inv
<1>8. CASE ~retiring' /\ (Goto("failed") \/ Goto("ensure"))
  <2>1. TypeOK'
    BY <1>0, <1>1, <1>5, <1>8 DEF TypeOK, outside, timing, Budgets, Goto, Steps
  <2>2. Control'
    BY <1>1, <1>2, <1>8 DEF Control, Goto, Steps
  <2> QED BY <1>5, <2>1, <2>2 DEF Inv
<1> QED BY <1>4, <1>6, <1>7, <1>8

LEMMA EnsureStep == Inv /\ Ensure => Inv'
<1> SUFFICES ASSUME Inv, Ensure PROVE Inv'
  OBVIOUS
<1>0. TypeOK /\ Control /\ Lease /\ Picture /\ NoJob \in [placeholder : Placeholders, size : Sizes, failed : BOOLEAN]
  BY RequestFacts DEF Inv
<1>1. /\ UNCHANGED <<outside, selection, timing>> /\ pc = "ensure"
      /\ Request # None /\ ~retiring
  BY <1>0 DEF Ensure, Control, Steps
<1>2. Request' = Request
  BY <1>1 DEF Request
<1>3. CASE EnsureWindow /\ IF retiring' THEN Return ELSE Goto("attach")
  <2>1. /\ thumbnail' \in Leases \cup {None} /\ retiring' \in BOOLEAN /\ budget' \in Budgets
        /\ window' \in Windows /\ (~retiring' => window'.alive) /\ Lease' /\ Picture'
    BY <1>0, <1>1, <1>3, EnsureKeeps
  <2>2. window' # None
    BY <2>1, WindowFacts
  <2>3. TypeOK'
    BY <1>0, <1>1, <1>3, <2>1 DEF TypeOK, outside, timing, Budgets, Return, Goto, Steps
  <2>4. Control'
    BY <1>1, <1>2, <1>3, <2>1, <2>2 DEF Control, Return, Goto, Steps
  <2> QED BY <2>1, <2>3, <2>4 DEF Inv
<1>4. CASE CannotCreate /\ Fail
  <2>1. budget' \in Budgets
    BY <1>0, <1>4, SpendType DEF TypeOK, Budgets, Fault, CannotCreate
  <2>2. TypeOK'
    BY <1>0, <1>1, <1>4, <2>1 DEF TypeOK, outside, timing, Budgets, Fail, Steps
  <2>3. Control'
    BY <1>1, <1>2, <1>4 DEF Control, Fail, Steps
  <2>4. Lease' /\ Picture'
    BY <1>0, <1>2, <1>4 DEF Lease, Picture, Shows, Fail
  <2> QED BY <2>2, <2>3, <2>4 DEF Inv
<1> QED BY <1>3, <1>4 DEF Ensure

LEMMA AttachStep == Inv /\ Attach => Inv'
<1> SUFFICES ASSUME Inv, Attach PROVE Inv'
  OBVIOUS
<1>0. /\ TypeOK /\ Control /\ Lease /\ Picture
      /\ NoJob \in [placeholder : Placeholders, size : Sizes, failed : BOOLEAN]
      /\ NoSelection \in [request : Requests \cup {None}, ready : BOOLEAN]
  BY RequestFacts DEF Inv
<1>1. /\ UNCHANGED outside /\ pc = "attach"
      /\ Request # None /\ ~retiring /\ window # None /\ window.alive
  BY <1>0 DEF Attach, Control, Steps
<1>2. CASE Cancel /\ Return
  <2>1. /\ thumbnail' \in Leases \cup {None} /\ retiring' \in BOOLEAN /\ budget' \in Budgets
        /\ window' \in Windows \cup {None} /\ Lease' /\ Picture'
    BY <1>0, <1>2, RetireKeeps DEF Cancel
  <2>2. TypeOK'
    BY <1>0, <1>1, <1>2, <2>1 DEF TypeOK, outside, Budgets, Return, Cancel
  <2>3. Control'
    BY <1>2, RestControl DEF Return
  <2> QED BY <2>1, <2>2, <2>3 DEF Inv
<1>3. CASE /\ UNCHANGED <<selection, thumbnail, window, retiring, timing, budget>>
           /\ Goto("size") \/ (thumbnail = None /\ Goto("register"))
  <2>1. Request' = Request
    BY <1>3 DEF Request
  <2>2. TypeOK'
    BY <1>0, <1>1, <1>3 DEF TypeOK, outside, timing, Goto, Steps
  <2>3. Control'
    BY <1>1, <1>3, <2>1 DEF Control, Goto, Steps
  <2>4. Lease' /\ Picture'
    BY <1>0, <1>3, <2>1 DEF Lease, Picture, Shows
  <2> QED BY <2>2, <2>3, <2>4 DEF Inv
<1> QED BY <1>2, <1>3 DEF Attach

LEMMA RegisterStep == Inv /\ Register => Inv'
<1> SUFFICES ASSUME Inv, Register PROVE Inv'
  OBVIOUS
<1>0. TypeOK /\ Control /\ Lease /\ Picture
  BY DEF Inv
<1>1. /\ UNCHANGED <<outside, selection, timing>> /\ pc = "register"
      /\ Request # None /\ ~retiring /\ window # None /\ window.alive /\ thumbnail = None
  BY <1>0 DEF Register, Control, Steps
<1>2. Request' = Request
  BY <1>1 DEF Request
<1> DEFINE h == Request.source.handle
<1>3. CASE /\ thumbnail' = [source |-> Identity(h), destination |-> window.id, layout |-> None]
           /\ Goto("size")
           /\ UNCHANGED <<window, retiring, budget>>
  <2>1. /\ Identity(h) \in Identities /\ Identity(h).handle = h
    BY <1>0, <1>1, RequestFacts DEF Identity
  <2>2. window \in Windows /\ window.id \in Nat
    BY <1>0, <1>1 DEF TypeOK, Windows
  <2>3. /\ thumbnail' \in Leases /\ thumbnail'.source.handle = h
        /\ thumbnail'.destination = window.id
    BY <1>3, <2>1, <2>2 DEF Leases
  <2>4. TypeOK'
    BY <1>0, <1>1, <1>3, <2>3 DEF TypeOK, outside, timing, Goto, Steps
  <2>5. Control'
    BY <1>1, <1>2, <1>3 DEF Control, Goto, Steps
  <2>6. Lease'
    BY <1>1, <1>2, <1>3, <2>3 DEF Lease
  <2>7. Picture'
    BY <1>0, <1>1, <1>2, <1>3 DEF Picture, Shows
  <2> QED BY <2>4, <2>5, <2>6, <2>7 DEF Inv
<1>4. CASE (Works \/ Fault) /\ Fail
  <2>1. budget' \in Budgets
    BY <1>0, <1>4, SpendType DEF TypeOK, Budgets, Fault, Works
  <2>2. TypeOK'
    BY <1>0, <1>1, <1>4, <2>1 DEF TypeOK, outside, timing, Budgets, Fail, Steps
  <2>3. Control'
    BY <1>1, <1>2, <1>4 DEF Control, Fail, Steps
  <2>4. Lease' /\ Picture'
    BY <1>0, <1>2, <1>4 DEF Lease, Picture, Shows, Fail
  <2> QED BY <2>2, <2>3, <2>4 DEF Inv
<1> QED BY <1>3, <1>4 DEF Register

\* Where the lease is related to a window and the selection is still the window
\* of its handle, the two are one: the live picture is that of the selection.
LEMMA MeasureStep == Inv /\ Measure => Inv'
<1> SUFFICES ASSUME Inv, Measure PROVE Inv'
  OBVIOUS
<1>0. TypeOK /\ Control /\ Lease /\ Picture /\ NoJob \in [placeholder : Placeholders, size : Sizes, failed : BOOLEAN]
  BY RequestFacts DEF Inv
<1>1. /\ UNCHANGED <<outside, selection, timing>> /\ pc = "size"
      /\ Request # None /\ ~retiring /\ window # None /\ window.alive
  BY <1>0 DEF Measure, Control, Steps
<1>2. Request' = Request
  BY <1>1 DEF Request
<1>3. CASE Retire /\ Return
  <2>1. /\ thumbnail' \in Leases \cup {None} /\ retiring' \in BOOLEAN /\ budget' \in Budgets
        /\ window' \in Windows \cup {None} /\ Lease' /\ Picture'
    BY <1>0, <1>3, RetireKeeps
  <2>2. TypeOK'
    BY <1>0, <1>1, <1>3, <2>1 DEF TypeOK, outside, timing, Budgets, Return
  <2>3. Control'
    BY <1>3, RestControl DEF Return
  <2> QED BY <2>1, <2>2, <2>3 DEF Inv
<1>4. CASE (Works \/ Fault) /\ Fail
  <2>1. budget' \in Budgets
    BY <1>0, <1>4, SpendType DEF TypeOK, Budgets, Fault, Works
  <2>2. TypeOK'
    BY <1>0, <1>1, <1>4, <2>1 DEF TypeOK, outside, timing, Budgets, Fail, Steps
  <2>3. Control'
    BY <1>1, <1>2, <1>4 DEF Control, Fail, Steps
  <2>4. Lease' /\ Picture'
    BY <1>0, <1>2, <1>4 DEF Lease, Picture, Shows, Fail
  <2> QED BY <2>2, <2>3, <2>4 DEF Inv
<1>5. CASE /\ Related /\ StillSource(Request.source)
           /\ pc' = "present" /\ job' = [NoJob EXCEPT !.size = Size[Request.source.handle]]
           /\ UNCHANGED <<thumbnail, window, retiring, budget>>
  <2>1. thumbnail # None /\ thumbnail.source.handle = Request.source.handle
    BY <1>0, <1>1, <1>5 DEF Related, Lease
  <2>2. thumbnail.source = Identity(thumbnail.source.handle)
        /\ Request.source = Identity(Request.source.handle)
    BY <1>5 DEF Related, StillSource, IsCurrent
  <2>3. thumbnail.source = Request.source
    BY <2>1, <2>2
  <2>4. Request.source.handle \in Handles
    BY <1>0, <1>1, RequestFacts
  <2>5. Size[Request.source.handle] \in Sizes
    BY <2>4 DEF Sizes
  <2>6. job' \in [placeholder : Placeholders, size : Sizes, failed : BOOLEAN]
    BY <1>0, <1>5, <2>5
  <2>7. TypeOK'
    BY <1>0, <1>1, <1>5, <2>6 DEF TypeOK, outside, timing, Steps
  <2>8. Control'
    BY <1>1, <1>2, <1>5, <2>1, <2>3 DEF Control, Steps
  <2>9. Lease' /\ Picture'
    BY <1>0, <1>2, <1>5 DEF Lease, Picture, Shows
  <2> QED BY <2>7, <2>8, <2>9 DEF Inv
<1> QED BY <1>3, <1>4, <1>5 DEF Measure

LEMMA PresentStep == Inv /\ Present => Inv'
<1> SUFFICES ASSUME Inv, Present PROVE Inv'
  OBVIOUS
<1>0. TypeOK /\ Control /\ Lease /\ Picture /\ NoJob \in [placeholder : Placeholders, size : Sizes, failed : BOOLEAN]
  BY RequestFacts DEF Inv
<1>1. /\ UNCHANGED <<outside, selection, timing>> /\ pc = "present"
      /\ Request # None /\ ~retiring
      /\ job.placeholder = None =>
           window # None /\ window.alive /\ thumbnail # None /\ thumbnail.source = Request.source
  BY <1>0 DEF Present, Control, Steps
<1>2. Request' = Request
  BY <1>1 DEF Request
<1>3. CASE Retire /\ Return
  <2>1. /\ thumbnail' \in Leases \cup {None} /\ retiring' \in BOOLEAN /\ budget' \in Budgets
        /\ window' \in Windows \cup {None} /\ Lease' /\ Picture'
    BY <1>0, <1>3, RetireKeeps
  <2>2. TypeOK'
    BY <1>0, <1>1, <1>3, <2>1 DEF TypeOK, outside, timing, Budgets, Return
  <2>3. Control'
    BY <1>3, RestControl DEF Return
  <2> QED BY <2>1, <2>2, <2>3 DEF Inv
<1>4. CASE CannotCreate /\ Fail
  <2>1. budget' \in Budgets
    BY <1>0, <1>4, SpendType DEF TypeOK, Budgets, Fault, CannotCreate
  <2>2. TypeOK'
    BY <1>0, <1>1, <1>4, <2>1 DEF TypeOK, outside, timing, Budgets, Fail, Steps
  <2>3. Control'
    BY <1>1, <1>2, <1>4 DEF Control, Fail, Steps
  <2>4. Lease' /\ Picture'
    BY <1>0, <1>2, <1>4 DEF Lease, Picture, Shows, Fail
  <2> QED BY <2>2, <2>3, <2>4 DEF Inv
<1>5. CASE /\ Presented.layout # None
           /\ EnsureWindow
           /\ IF retiring' THEN Return ELSE Goto("prepare")
  <2>1. /\ thumbnail' \in Leases \cup {None} /\ retiring' \in BOOLEAN /\ budget' \in Budgets
        /\ window' \in Windows /\ (~retiring' => window'.alive) /\ Lease' /\ Picture'
        /\ (window # None /\ window.alive) => UNCHANGED <<window, thumbnail, retiring>>
    BY <1>0, <1>1, <1>5, EnsureKeeps
  <2>2. window' # None
    BY <2>1, WindowFacts
  <2>3. TypeOK'
    BY <1>0, <1>1, <1>5, <2>1 DEF TypeOK, outside, timing, Budgets, Return, Goto, Steps
  <2>4. CASE Return
    BY <2>1, <2>3, <2>4, RestControl DEF Return, Inv
  <2>5. CASE ~retiring' /\ Goto("prepare")
    <3>1. Presented' = Presented
      BY <1>1, <1>2, <2>5 DEF Presented, Layout, Goto, outside
    <3>2. Control'
      BY <1>1, <1>2, <1>5, <2>1, <2>2, <2>5, <3>1 DEF Control, Goto, Steps
    <3> QED BY <2>1, <2>3, <3>2 DEF Inv
  <2> QED BY <1>5, <2>4, <2>5
<1> QED BY <1>3, <1>4, <1>5 DEF Present

\* What is prepared is a layout for the place of the selection; it is live only
\* with the lease of the selection, as the step before saw.
LEMMA PreparedFacts ==
  ASSUME TypeOK, Control, Picture, pc \in {"prepare", "show"}
  PROVE  /\ Presented \in Presentations
         /\ window \in Windows /\ Prepared(window) \in Windows /\ Prepared(window) # None
         /\ Prepared(window).id = window.id /\ Prepared(window).alive = window.alive
         /\ Prepared(window).visible = window.visible
         /\ Prepared(window).presentation = Presented
         /\ Shows(Prepared(window))
<1>1. /\ Request # None /\ window # None /\ Presented.layout # None
      /\ job.placeholder = None => thumbnail # None /\ thumbnail.source = Request.source
  BY DEF Control, Steps
<1>2. Request.place \in Everywhere /\ job.size \in Sizes /\ room \in Rooms /\ job.placeholder \in Placeholders
  BY <1>1, RequestFacts DEF TypeOK
<1>3. Presented.layout = Layouts[Request.place][job.size][room] /\ Presented.placeholder = job.placeholder
  BY DEF Presented, Layout
<1>4. Presented \in Presentations
  BY <1>2 DEF Presented, Presentations, Calculated, Layout
<1>5. window \in Windows
  BY <1>1 DEF TypeOK
<1>6. Request.place.dpi \in Nat
  BY <1>2, PlaceFacts
<1>7. /\ Prepared(window) \in Windows
      /\ Prepared(window).id = window.id /\ Prepared(window).alive = window.alive
      /\ Prepared(window).visible = window.visible
      /\ Prepared(window).presentation = Presented
  <2>1. CASE ~Changed(window)
    BY <1>5, <2>1 DEF Prepared, Changed
  <2>2. CASE Changed(window)
    <3>1. Prepared(window) = [window EXCEPT !.presentation = Presented, !.dirty = FALSE,
                                            !.dpi = Request.place.dpi]
      BY <2>2 DEF Prepared
    <3> QED BY <1>4, <1>5, <1>6, <3>1 DEF Windows
  <2> QED BY <2>1, <2>2
<1>8. Prepared(window) # None /\ Presented # None
  BY <1>4, <1>7, NoneAssumption
<1>9. Shows(Prepared(window))
  <2> HIDE DEF Prepared
  <2> QED BY <1>1, <1>3, <1>7, <1>8 DEF Shows
<1> QED BY <1>4, <1>5, <1>7, <1>8, <1>9

LEMMA PrepareStep == Inv /\ Prepare => Inv'
<1> SUFFICES ASSUME Inv, Prepare PROVE Inv'
  OBVIOUS
<1>0. TypeOK /\ Control /\ Lease /\ Picture
  BY DEF Inv
<1>1. /\ UNCHANGED <<outside, selection, timing>> /\ pc = "prepare"
      /\ Request # None /\ ~retiring /\ window # None /\ window.alive
      /\ job.placeholder = None => thumbnail # None /\ thumbnail.source = Request.source
      /\ Presented.layout # None
  BY <1>0 DEF Prepare, Control, Steps
<1>2. Request' = Request
  BY <1>1 DEF Request
<1> DEFINE w == Prepared(window)
<1>3. /\ Presented \in Presentations
      /\ w \in Windows /\ w # None /\ w.id = window.id /\ w.alive = window.alive
      /\ w.presentation = Presented /\ Shows(w)
  BY <1>0, <1>1, PreparedFacts
<1> HIDE DEF w
<1>4. CASE Fault /\ Fail
  <2>1. budget' \in Budgets
    BY <1>0, <1>4, SpendType DEF TypeOK, Budgets, Fault
  <2>2. TypeOK'
    BY <1>0, <1>1, <1>4, <2>1 DEF TypeOK, outside, timing, Budgets, Fail, Steps
  <2>3. Control'
    BY <1>1, <1>2, <1>4 DEF Control, Fail, Steps
  <2>4. Lease' /\ Picture'
    BY <1>0, <1>2, <1>4 DEF Lease, Picture, Shows, Fail
  <2> QED BY <2>2, <2>3, <2>4 DEF Inv
<1>5. CASE /\ window' = w /\ Works
           /\ Goto("failed") /\ UNCHANGED <<thumbnail, retiring>>
  <2>1. TypeOK'
    BY <1>0, <1>1, <1>3, <1>5 DEF TypeOK, outside, timing, Goto, Steps, Works
  <2>2. Control'
    BY <1>1, <1>2, <1>5 DEF Control, Goto, Steps
  <2>3. Lease'
    BY <1>0, <1>1, <1>2, <1>3, <1>5 DEF Lease
  <2>4. Picture'
    BY <1>2, <1>3, <1>5 DEF Picture, Shows
  <2> QED BY <2>1, <2>2, <2>3, <2>4 DEF Inv
<1> DEFINE live == Changed(window) /\ job.placeholder = None
<1>6. CASE /\ live => Related
           /\ window' = w
           /\ thumbnail' = IF live THEN [thumbnail EXCEPT !.layout = Presented.layout] ELSE thumbnail
           /\ Goto("show")
           /\ UNCHANGED <<retiring, budget>>
  <2>1. /\ thumbnail' \in Leases \cup {None}
        /\ thumbnail = None <=> thumbnail' = None
        /\ thumbnail # None => /\ thumbnail'.source = thumbnail.source
                               /\ thumbnail'.destination = thumbnail.destination
    <3>1. CASE ~live
      BY <1>0, <1>6, <3>1 DEF TypeOK
    <3>2. CASE live
      <4>1. thumbnail \in Leases
        BY <1>0, <1>6, <3>2 DEF Related, TypeOK
      <4>2. thumbnail' = [thumbnail EXCEPT !.layout = Presented.layout] /\ Presented.layout \in Calculated
        BY <1>3, <1>6, <3>2 DEF Presentations
      <4>3. /\ thumbnail' \in Leases /\ thumbnail'.source = thumbnail.source
            /\ thumbnail'.destination = thumbnail.destination
        BY <4>1, <4>2 DEF Leases
      <4> QED BY <4>1, <4>3, NoneAssumption
    <3> QED BY <3>1, <3>2
  <2> HIDE DEF live
  <2>2. TypeOK'
    BY <1>0, <1>1, <1>3, <1>6, <2>1 DEF TypeOK, outside, timing, Goto, Steps
  <2>3. Presented' = Presented
    BY <1>1, <1>2, <1>6 DEF Presented, Layout, Goto, outside
  <2>4. Control'
    BY <1>1, <1>2, <1>3, <1>6, <2>1, <2>3 DEF Control, Goto, Steps
  <2>5. Lease'
    BY <1>0, <1>1, <1>2, <1>3, <1>6, <2>1 DEF Lease
  <2>6. Picture'
    BY <1>2, <1>3, <1>6, <2>1 DEF Picture, Shows
  <2> QED BY <2>2, <2>4, <2>5, <2>6 DEF Inv
<1> QED BY <1>4, <1>5, <1>6 DEF Prepare, w

LEMMA ShowStep == Inv /\ Show => Inv'
<1> SUFFICES ASSUME Inv, Show PROVE Inv'
  OBVIOUS
<1>0. /\ TypeOK /\ Control /\ Lease /\ Picture
      /\ NoJob \in [placeholder : Placeholders, size : Sizes, failed : BOOLEAN]
      /\ NoSelection \in [request : Requests \cup {None}, ready : BOOLEAN]
  BY RequestFacts DEF Inv
<1>1. /\ UNCHANGED outside /\ pc = "show"
      /\ Request # None /\ ~retiring /\ window # None
      /\ window.presentation = Presented
  BY <1>0 DEF Show, Control, Steps
<1>2. CASE Cancel /\ Return
  <2>1. /\ thumbnail' \in Leases \cup {None} /\ retiring' \in BOOLEAN /\ budget' \in Budgets
        /\ window' \in Windows \cup {None} /\ Lease' /\ Picture'
    BY <1>0, <1>2, RetireKeeps DEF Cancel
  <2>2. TypeOK'
    BY <1>0, <1>1, <1>2, <2>1 DEF TypeOK, outside, Budgets, Return, Cancel
  <2>3. Control'
    BY <1>2, RestControl DEF Return
  <2> QED BY <2>1, <2>2, <2>3 DEF Inv
<1>3. CASE Fault /\ Fail /\ UNCHANGED <<selection, timing>>
  <2>0. Request' = Request
    BY <1>3 DEF Request
  <2>1. budget' \in Budgets
    BY <1>0, <1>3, SpendType DEF TypeOK, Budgets, Fault
  <2>2. TypeOK'
    BY <1>0, <1>1, <1>3, <2>1 DEF TypeOK, outside, timing, Budgets, Fail, Steps
  <2>3. Control'
    BY <1>1, <1>3, <2>0 DEF Control, Fail, Steps
  <2>4. Lease' /\ Picture'
    BY <1>0, <1>3, <2>0 DEF Lease, Picture, Shows, Fail
  <2> QED BY <2>2, <2>3, <2>4 DEF Inv
<1>4. CASE /\ window' = [window EXCEPT !.visible = TRUE]
           /\ Return
           /\ UNCHANGED <<selection, thumbnail, retiring, timing, budget>>
  <2>0. Request' = Request
    BY <1>4 DEF Request
  <2>1. Presented \in Presentations /\ window \in Windows
    BY <1>0, <1>1, PreparedFacts
  <2>2. /\ window' \in Windows /\ window'.id = window.id /\ window'.presentation = window.presentation
    BY <1>4, <2>1 DEF Windows
  <2>3. window'.presentation # None
    BY <1>1, <2>1, <2>2, NoneAssumption
  <2>4. TypeOK'
    BY <1>0, <1>1, <1>4, <2>2 DEF TypeOK, outside, timing, Return
  <2>5. Control'
    BY <1>4, RestControl DEF Return
  <2>6. Lease'
    BY <1>0, <1>1, <1>4, <2>0, <2>2, WindowFacts DEF Lease
  <2>7. Picture'
    BY <1>0, <1>1, <1>4, <2>0, <2>2, <2>3 DEF Picture, Shows
  <2> QED BY <2>4, <2>5, <2>6, <2>7 DEF Inv
<1> QED BY <1>2, <1>3, <1>4 DEF Show

LEMMA FailedStep == Inv /\ Failed => Inv'
<1> SUFFICES ASSUME Inv, Failed PROVE Inv'
  OBVIOUS
<1>0. TypeOK /\ Control /\ Lease /\ Picture /\ NoJob \in [placeholder : Placeholders, size : Sizes, failed : BOOLEAN]
  BY RequestFacts DEF Inv
<1>1. /\ UNCHANGED <<outside, selection, check>> /\ pc = "failed" /\ Retire
      /\ Request # None /\ retry' \in BOOLEAN
  BY <1>0 DEF Failed, Control, Steps, TypeOK
<1>2. Request' = Request
  BY <1>1 DEF Request
<1>3. /\ thumbnail' \in Leases \cup {None} /\ retiring' \in BOOLEAN /\ budget' \in Budgets
      /\ window' \in Windows \cup {None} /\ Lease' /\ Picture'
  BY <1>0, <1>1, RetireKeeps
<1>4. CASE Return
  <2>1. TypeOK'
    BY <1>0, <1>1, <1>3, <1>4 DEF TypeOK, outside, Budgets, Return
  <2>2. Control'
    BY <1>4, RestControl DEF Return
  <2> QED BY <1>3, <2>1, <2>2 DEF Inv
<1>5. CASE /\ ~retiring'
           /\ pc' = "present" /\ job' = [NoJob EXCEPT !.placeholder = "unavailable", !.failed = TRUE]
  <2>1. job' \in [placeholder : Placeholders, size : Sizes, failed : BOOLEAN]
        /\ job'.placeholder = "unavailable" /\ "unavailable" # None
    BY <1>0, <1>5, NoneAssumption DEF Placeholders, Shapes
  <2>2. TypeOK'
    BY <1>0, <1>1, <1>3, <1>5, <2>1 DEF TypeOK, outside, Budgets, Steps
  <2>3. Control'
    BY <1>1, <1>2, <1>5, <2>1 DEF Control, Steps
  <2> QED BY <1>3, <2>2, <2>3 DEF Inv
<1> QED BY <1>4, <1>5 DEF Failed

(***************************************************************************)
(* The end, and what happens between the polls or at any time.             *)
(***************************************************************************)
LEMMA DropStep == Inv /\ Drop => Inv'
<1> SUFFICES ASSUME Inv, Drop PROVE Inv'
  OBVIOUS
<1>0. TypeOK /\ Control /\ Lease /\ Picture /\ window \in Windows \cup {None}
  BY DEF Inv, TypeOK
<1>1. /\ UNCHANGED <<outside, job, selection, timing>> /\ pc' = "dropped" /\ Release
      /\ window' = IF retiring' THEN Hidden(window) ELSE None
  BY DEF Drop, LeftOver
<1>2. /\ thumbnail' \in Leases \cup {None} /\ retiring' \in BOOLEAN /\ budget' \in Budgets
      /\ thumbnail' # None => retiring' /\ thumbnail' = thumbnail
  BY <1>0, <1>1, ReleaseFacts
<1>3. window' \in Windows \cup {None}
  BY <1>0, <1>1, WindowFacts
<1>4. Lease'
  <2> SUFFICES ASSUME thumbnail' # None
               PROVE  window' # None /\ thumbnail'.destination = window'.id /\ retiring'
    BY DEF Lease
  <2>1. /\ retiring' /\ thumbnail' = thumbnail
        /\ window \in Windows /\ thumbnail.destination = window.id
    BY <1>0, <1>2 DEF Lease
  <2>2. window' = Hidden(window)
    BY <1>1, <2>1
  <2> QED BY <2>1, <2>2, WindowFacts
<1>5. Picture'
  <2> SUFFICES ASSUME window' # None PROVE Shows(window)'
    BY DEF Picture
  <2>1. window' = Hidden(window) /\ window \in Windows
    BY <1>0, <1>1, WindowFacts
  <2>2. window'.presentation = None /\ ~window'.visible
    BY <2>1, WindowFacts
  <2> QED BY <2>2 DEF Shows
<1>6. TypeOK'
  BY <1>0, <1>1, <1>2, <1>3 DEF TypeOK, outside, timing, Budgets
<1>7. Control'
  BY <1>1, RestControl
<1> QED BY <1>4, <1>5, <1>6, <1>7 DEF Inv

LEMMA ChooseStep == Inv /\ Choose => Inv'
<1> SUFFICES ASSUME Inv, Choose PROVE Inv'
  OBVIOUS
<1>0. TypeOK /\ Control /\ Lease /\ Picture
  BY DEF Inv
<1>1. PICK h \in Handles, s \in Surfaces : \E place \in Places[s] :
        choice' = [source |-> Identity(h), surface |-> s, place |-> place] /\ foreground' = s
  BY DEF Choose
<1>2. /\ UNCHANGED <<source, room, window, still>> /\ permitted' \in BOOLEAN
      /\ budget' \in Budgets
  BY <1>0, SpendType DEF Choose, TypeOK, Budgets
<1>3. choice' \in Requests
  BY <1>0, <1>1, RequestFacts DEF Requests, Everywhere
<1>4. TypeOK'
  BY <1>0, <1>1, <1>2, <1>3 DEF TypeOK, still, timing, Budgets
<1>5. Control' /\ Lease' /\ Picture'
  BY <1>0, <1>2, ElsewhereKeeps DEF still
<1> QED BY <1>4, <1>5 DEF Inv

LEMMA RelocateStep == Inv /\ Relocate => Inv'
<1> SUFFICES ASSUME Inv, Relocate PROVE Inv'
  OBVIOUS
<1>0. TypeOK /\ Control /\ Lease /\ Picture
  BY DEF Inv
<1>1. choice \in Requests /\ choice.surface \in Surfaces
  BY <1>0 DEF Relocate, TypeOK, Requests
<1>2. PICK place \in Places[choice.surface] : choice' = [choice EXCEPT !.place = place]
  BY DEF Relocate
<1>3. choice' \in Requests
  BY <1>1, <1>2 DEF Requests, Everywhere
<1>4. UNCHANGED <<source, foreground, permitted, room, window, still>> /\ budget' \in Budgets
  BY <1>0, SpendType DEF Relocate, TypeOK, Budgets
<1>5. TypeOK'
  BY <1>0, <1>3, <1>4 DEF TypeOK, still, timing, Budgets
<1>6. Control' /\ Lease' /\ Picture'
  BY <1>0, <1>4, ElsewhereKeeps DEF still
<1> QED BY <1>5, <1>6 DEF Inv

LEMMA LeaveStep == Inv /\ Leave => Inv'
<1> SUFFICES ASSUME Inv, Leave PROVE Inv'
  OBVIOUS
<1>0. TypeOK /\ Control /\ Lease /\ Picture /\ NoSelection \in [request : Requests \cup {None}, ready : BOOLEAN]
  BY RequestFacts DEF Inv
<1>1. /\ UNCHANGED <<source, foreground, permitted, room, pc, job>> /\ pc = "idle"
      /\ choice' = None /\ selection' = NoSelection /\ Retire /\ check' = FALSE /\ retry' = FALSE
  BY DEF Leave, Cancel
<1>2. /\ thumbnail' \in Leases \cup {None} /\ retiring' \in BOOLEAN /\ budget' \in Budgets
      /\ window' \in Windows \cup {None} /\ Lease' /\ Picture'
  BY <1>0, <1>1, RetireKeeps
<1>3. TypeOK'
  BY <1>0, <1>1, <1>2 DEF TypeOK, Budgets
<1>4. Control'
  BY <1>1, RestControl
<1> QED BY <1>2, <1>3, <1>4 DEF Inv

\* The budget of the bytes changes only between two polls: what the poll has
\* calculated stays what it presents.
LEMMA RepaintStep == Inv /\ Repaint => Inv'
<1> SUFFICES ASSUME Inv, Repaint PROVE Inv'
  OBVIOUS
<1>0. TypeOK /\ Control /\ Lease /\ Picture
  BY DEF Inv
<1>1. /\ UNCHANGED <<source, foreground, permitted, choice, window, still>> /\ pc = "idle"
      /\ room' \in Rooms /\ budget' \in Budgets
  BY <1>0, SpendType DEF Repaint, TypeOK, Budgets
<1>2. TypeOK'
  BY <1>0, <1>1 DEF TypeOK, still, timing, Budgets
<1>3. Control'
  BY <1>1, RestControl DEF still
<1>4. Lease' /\ Picture'
  BY <1>0, <1>1 DEF Lease, Picture, Shows, Request, still
<1> QED BY <1>2, <1>3, <1>4 DEF Inv

LEMMA CloseStep == Inv /\ Close => Inv'
<1> SUFFICES ASSUME Inv, Close PROVE Inv'
  OBVIOUS
<1>0. TypeOK /\ Control /\ Lease /\ Picture
  BY DEF Inv
<1>1. /\ UNCHANGED <<outside, still>> /\ pc = "idle" /\ window # None /\ budget' \in Budgets
      /\ \/ window' = [window EXCEPT !.visible = FALSE]
         \/ window' = [window EXCEPT !.visible = FALSE, !.alive = FALSE]
  BY <1>0, SpendType DEF Close, TypeOK, Budgets
<1>2. window \in Windows
  BY <1>0, <1>1 DEF TypeOK
<1>3. /\ window' \in Windows /\ window'.id = window.id /\ ~window'.visible
      /\ window'.presentation = window.presentation
  BY <1>1, <1>2 DEF Windows
<1>4. TypeOK'
  BY <1>0, <1>1, <1>3 DEF TypeOK, outside, still, timing, Budgets
<1>5. Control'
  BY <1>1, RestControl DEF still
<1>6. Lease' /\ Picture'
  BY <1>0, <1>1, <1>3, WindowFacts DEF Lease, Picture, Shows, Request, still
<1> QED BY <1>4, <1>5, <1>6 DEF Inv

LEMMA AnyTimeStep == Inv /\ (Revoke \/ Leaves \/ Alter \/ Tick) => Inv'
<1> SUFFICES ASSUME Inv, Revoke \/ Leaves \/ Alter \/ Tick PROVE Inv'
  OBVIOUS
<1>0. TypeOK /\ Control /\ Lease /\ Picture
  BY DEF Inv
<1>1. selection'.request = selection.request /\ UNCHANGED <<room, pc, job, window, thumbnail, retiring>>
  <2>1. selection \in [request : Requests \cup {None}, ready : BOOLEAN]
    BY <1>0 DEF TypeOK
  <2> QED BY <2>1 DEF Revoke, Leaves, Alter, Tick, inside, outside, timing
<1>2. Control' /\ Lease' /\ Picture'
  BY <1>0, <1>1, ElsewhereKeeps
<1>3. TypeOK'
  <2>1. CASE Revoke
    <3>1. permitted' \in BOOLEAN /\ UNCHANGED <<source, foreground, choice, room, inside, budget>>
      BY <2>1 DEF Revoke
    <3> QED BY <1>0, <3>1 DEF TypeOK, inside, timing
  <2>2. CASE Leaves
    <3>1. budget' \in Budgets
      BY <1>0, <2>2, SpendType DEF Leaves, TypeOK, Budgets
    <3> QED BY <1>0, <2>2, <3>1 DEF TypeOK, Leaves, inside, timing, Budgets
  <2>3. CASE Alter
    <3>1. budget' \in Budgets
      BY <1>0, <2>3, SpendType DEF Alter, TypeOK, Budgets
    <3>2. source' \in [Handles -> [generation : Nat, shape : Shapes]]
      <4>1. PICK h \in Handles :
              \/ \E shape \in {"open", "minimized", "protected", "unavailable", "closed"} :
                   source' = [source EXCEPT ![h].shape = shape]
              \/ source' = [source EXCEPT ![h] = [generation |-> @.generation + 1, shape |-> "open"]]
        BY <2>3 DEF Alter
      <4>2. source \in [Handles -> [generation : Nat, shape : Shapes]]
        BY <1>0 DEF TypeOK
      <4>3. ASSUME NEW shape \in Shapes
            PROVE  [source[h] EXCEPT !.shape = shape] \in [generation : Nat, shape : Shapes]
        BY <4>2
      <4>4. [generation |-> source[h].generation + 1, shape |-> "open"] \in [generation : Nat, shape : Shapes]
        BY <4>2 DEF Shapes
      <4>5. CASE \E shape \in Shapes : source' = [source EXCEPT ![h].shape = shape]
        BY <4>2, <4>3, <4>5
      <4>6. CASE source' = [source EXCEPT ![h] = [generation |-> @.generation + 1, shape |-> "open"]]
        BY <4>2, <4>4, <4>6
      <4> QED BY <4>1, <4>5, <4>6 DEF Shapes
    <3> QED BY <1>0, <2>3, <3>1, <3>2 DEF TypeOK, Alter, inside, timing, Budgets
  <2>4. CASE Tick
    <3>1. /\ selection' \in [request : Requests \cup {None}, ready : BOOLEAN]
          /\ check' \in BOOLEAN /\ retry' \in BOOLEAN
      BY <1>0, <2>4 DEF TypeOK, Tick, timing
    <3> QED BY <1>0, <2>4, <3>1 DEF TypeOK, Tick, outside
  <2> QED BY <2>1, <2>2, <2>3, <2>4
<1> QED BY <1>2, <1>3 DEF Inv

(***************************************************************************)
(* The theorems.                                                           *)
(***************************************************************************)
LEMMA InvInit == Init => Inv
<1> SUFFICES ASSUME Init PROVE Inv
  OBVIOUS
<1>1. room \in Rooms
  BY PreviewAssumption, MaxOfFinite DEF Init
<1>2. TypeOK
  BY <1>1, PreviewAssumption DEF Init, TypeOK, NoSelection, NoJob, Placeholders, Sizes, Shapes
<1>3. Control /\ Lease /\ Picture
  BY DEF Init, Control, Lease, Picture, Steps
<1> QED BY <1>2, <1>3 DEF Inv

LEMMA InvStep == Inv /\ [Next]_vars => Inv'
<1> SUFFICES ASSUME Inv, [Next]_vars PROVE Inv'
  OBVIOUS
<1>1. CASE Next
  BY <1>1, BeginStep, GateStep, ProceedStep, InspectStep, EnsureStep, AttachStep, RegisterStep,
     MeasureStep, PresentStep, PrepareStep, ShowStep, FailedStep, DropStep, ChooseStep, RelocateStep, LeaveStep,
     RepaintStep, CloseStep, AnyTimeStep DEF Next, Poll
<1>2. CASE UNCHANGED vars
  <2>1. TypeOK'
    BY <1>2 DEF Inv, TypeOK, vars, outside, timing
  <2>2. Control' /\ Lease' /\ Picture'
    BY <1>2, ElsewhereKeeps DEF Inv, vars, outside
  <2> QED BY <2>1, <2>2 DEF Inv
<1> QED BY <1>1, <1>2

LEMMA InvAlways == Spec => []Inv
BY InvInit, InvStep, PTL DEF Spec

\* Every variable has its type.
THEOREM TypeCorrect == Spec => []TypeOK
<1>1. Inv => TypeOK
  BY DEF Inv
<1> QED BY <1>1, InvAlways, PTL

LEMMA TruthFromInv == Inv => PictureIsTrue
<1> SUFFICES ASSUME Inv PROVE PictureIsTrue
  OBVIOUS
<1>0. TypeOK /\ Lease /\ Picture
  BY DEF Inv
<1>1. PictureIsSelection
  BY <1>0 DEF PictureIsSelection, Live, Visible, Picture, Shows
<1>2. LeaseHasWindow
  BY <1>0 DEF LeaseHasWindow, Lease
<1> QED BY <1>1, <1>2 DEF PictureIsTrue

(***************************************************************************)
(* Where the preview is when a poll ends.                                  *)
(***************************************************************************)
LEMMA DelayedStep == Inv /\ Delayed /\ [Next]_vars => Delayed'
<1> SUFFICES ASSUME Inv, Delayed, [Next]_vars PROVE Delayed'
  OBVIOUS
<1>0. /\ TypeOK /\ Lease
      /\ selection \in [request : Requests \cup {None}, ready : BOOLEAN]
      /\ window \in Windows \cup {None}
  BY DEF Inv, TypeOK
<1>1. Hidden(window) # None => Hidden(window).presentation = None
  BY <1>0, WindowFacts
<1>2. CASE Begin \/ Gate \/ Leave \/ Drop
  <2>1. pc' \notin Steps
    BY <1>2 DEF Begin, Gate, Leave, Drop, Goto, Return, Steps
  <2>2. \/ window' = window /\ selection'.ready = selection.ready
        \/ window' = Hidden(window) \/ window' = None
    BY <1>0, <1>2 DEF Begin, Gate, Leave, Drop, LeftOver, Cancel, Retire
  <2> QED BY <1>1, <2>1, <2>2 DEF Delayed
<1>3. CASE Proceed
  BY <1>3 DEF Delayed, Proceed, Goto, Return, Steps
<1>4. CASE pc \in Steps /\ (Attach \/ Show)
  <2>1. \/ selection' = selection
        \/ window' = Hidden(window) /\ pc' = "idle"
    BY <1>4 DEF Attach, Show, Cancel, Retire, Return
  <2> QED BY <1>1, <1>4, <2>1 DEF Delayed, Steps
<1>5. CASE pc \in Steps /\ (Inspect \/ Ensure \/ Register \/ Measure \/ Present \/ Prepare \/ Failed)
  <2>1. selection' = selection
    BY <1>5 DEF Inspect, Ensure, Register, Measure, Present, Prepare, Failed
  <2> QED BY <1>5, <2>1 DEF Delayed
<1>6. CASE Choose \/ Relocate \/ Repaint \/ Revoke \/ Leaves \/ Alter \/ UNCHANGED vars
  <2>1. UNCHANGED <<pc, window, selection>>
    BY <1>6 DEF Choose, Relocate, Repaint, Revoke, Leaves, Alter, still, inside, vars
  <2> QED BY <2>1 DEF Delayed
<1>7. CASE Close
  <2>1. UNCHANGED <<pc, selection>> /\ window \in Windows
    BY <1>0, <1>7 DEF Close, still
  <2>2. window'.presentation = window.presentation
    BY <1>7, <2>1 DEF Close, Windows
  <2>3. window # None
    BY <1>7 DEF Close
  <2> QED BY <2>1, <2>2, <2>3 DEF Delayed
<1>8. CASE Tick
  <2>1. UNCHANGED <<pc, window>> /\ (selection.ready => selection'.ready)
    BY <1>0, <1>8 DEF Tick
  <2> QED BY <2>1 DEF Delayed
<1>9. pc \in Steps \/ ~(Inspect \/ Ensure \/ Attach \/ Register \/ Measure \/ Present \/ Prepare \/ Show \/ Failed)
  BY DEF Steps, Inspect, Ensure, Attach, Register, Measure, Present, Prepare, Show, Failed
<1> QED BY <1>2, <1>3, <1>4, <1>5, <1>6, <1>7, <1>8, <1>9 DEF Next, Poll

\* The poll shows only what was calculated for the place of the request.
LEMMA ShowsClear ==
  ASSUME Inv, pc = "show", Visible', window' = [window EXCEPT !.visible = TRUE], selection' = selection
  PROVE  LiesClear'
<1>1. /\ TypeOK /\ Control /\ Picture
  BY DEF Inv
<1>2. /\ Request # None /\ Presented.layout # None /\ window.presentation = Presented
  BY <1>1 DEF Control, Steps
<1>3. Request.place \in Everywhere /\ job.size \in Sizes /\ room \in Rooms
  BY <1>1, <1>2, RequestFacts DEF TypeOK
<1>4. window \in Windows
  BY <1>1, PreparedFacts
<1>5. window'.presentation = Presented /\ Request' = Request
  BY <1>2, <1>4 DEF Windows, Request
<1>6. Presented.layout = Layouts[Request.place][job.size][room]
  BY DEF Presented, Layout
<1>7. Clear(Presented.layout, Request.place)
  BY <1>2, <1>3, <1>6, LayoutClear
<1> HIDE DEF Presented
<1> QED BY <1>5, <1>7 DEF LiesClear, Clear, Inside, Beside

\* The action of LooksClear.
Looks ==
  (pc # "idle" /\ pc' = "idle" /\ Visible') =>
    LiesClear' \/ (pc = "gate" /\ check) \/ (pc = "wanted" /\ retry)

LEMMA LooksStep == Inv /\ Delayed /\ [Next]_vars => Looks
<1> SUFFICES ASSUME Inv, Delayed, [Next]_vars, pc # "idle", pc' = "idle", Visible'
             PROVE  LiesClear' \/ (pc = "gate" /\ check) \/ (pc = "wanted" /\ retry)
  BY DEF Looks
<1>0. TypeOK /\ Control /\ Lease /\ Picture /\ window \in Windows \cup {None}
  BY DEF Inv, TypeOK
<1>1. ~Retire
  <2>1. ASSUME Retire PROVE FALSE
    <3>1. window' = Hidden(window)
      BY <2>1 DEF Retire
    <3> QED BY <1>0, <3>1, WindowFacts DEF Visible
  <2> QED BY <2>1
<1>2. ~Cancel
  BY <1>1 DEF Cancel
<1>3. ~Begin /\ ~Drop /\ ~Register /\ ~Prepare /\ ~Failed /\ ~Attach
  BY <1>1, <1>2 DEF Begin, Drop, Register, Prepare, Failed, Attach, Goto, Fail
<1>4. ~(Choose \/ Relocate \/ Leave \/ Repaint \/ Close \/ Revoke \/ Leaves \/ Alter \/ Tick \/ UNCHANGED vars)
  BY DEF Choose, Relocate, Leave, Repaint, Close, Revoke, Leaves, Alter, Tick, inside, vars
<1>5. CASE Gate
  BY <1>1, <1>5 DEF Gate, Goto
<1>6. CASE Proceed
  <2>1. window' = window /\ UNCHANGED <<selection, retry>> /\ pc = "wanted"
    BY <1>6 DEF Proceed
  <2>2. Request # None /\ selection.ready
    BY <1>0, <2>1 DEF Visible, Picture, Shows, Delayed
  <2> QED BY <1>6, <2>1, <2>2 DEF Proceed, Goto
<1>7. ~Inspect
  BY <1>1 DEF Inspect, Goto
<1>8. ASSUME EnsureWindow, retiring', ~retiring, selection' = selection PROVE FALSE
  <2>1. ~window'.visible
    BY <1>0, <1>8, EnsureKeeps
  <2> QED BY <2>1 DEF Visible
<1>9. ~Ensure
  <2> SUFFICES ASSUME Ensure PROVE FALSE
    OBVIOUS
  <2>1. ~retiring /\ selection' = selection
    BY <1>0 DEF Ensure, Control, Steps
  <2> QED BY <1>8, <2>1 DEF Ensure, Fail, Goto
<1>10. ~Measure
  BY <1>1 DEF Measure, Fail
<1>11. ~Present
  <2> SUFFICES ASSUME Present PROVE FALSE
    OBVIOUS
  <2>1. ~retiring /\ selection' = selection
    BY <1>0 DEF Present, Control, Steps
  <2> QED BY <1>1, <1>8, <2>1 DEF Present, Fail, Goto
<1>12. CASE Show
  <2>1. pc = "show" /\ window' = [window EXCEPT !.visible = TRUE] /\ selection' = selection
    BY <1>2, <1>12 DEF Show, Fail
  <2> QED BY <2>1, ShowsClear
<1> QED BY <1>3, <1>4, <1>5, <1>6, <1>7, <1>9, <1>10, <1>11, <1>12 DEF Next, Poll

\* A poll that looks at the source never ends with the preview over the surface
\* where that is now, outside the work area or without room inside its padding,
\* for any monitors, scales, places, budgets and sizes of a source
\* (preview/layout.rs:30, preview.rs:225).
LEMMA PreviewLooksClear == Spec => LooksClear
<1>1. Init => Delayed
  BY DEF Init, Delayed, Steps
<1>2. Spec => []Delayed
  BY <1>1, InvAlways, DelayedStep, PTL DEF Spec
<1>3. Inv /\ Delayed /\ [Next]_vars => [Looks]_vars
  BY LooksStep
<1>4. Spec => [][Looks]_vars
  BY <1>2, <1>3, InvAlways, PTL DEF Spec
<1> QED BY <1>4, PTL DEF LooksClear, Looks

\* A picture that is seen is live only of the window that is selected, even
\* where its handle went to another one between two calls (preview.rs:218), the
\* compositor never draws into a window that is gone (preview/native.rs:113),
\* and a poll that looks leaves the preview clear of the surface where that is
\* now (preview/selection.rs:15, preview/layout.rs:30).
THEOREM PreviewStaysTrue == Spec => PreviewIsTrue
<1>1. Spec => []PictureIsTrue
  BY TruthFromInv, InvAlways, PTL
<1> QED BY <1>1, PreviewLooksClear, PTL DEF PreviewIsTrue

===========================================================================
