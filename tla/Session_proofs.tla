---------------------------- MODULE Session_proofs ----------------------------
(***************************************************************************)
(* What no turn, hook or window can do to the panel on screen and to the   *)
(* window the user chose, whatever the windows and the setups.             *)
(***************************************************************************)
EXTENDS Session, SequenceFacts

-------------------------------------------------------------------------------
(* The inductive invariant, of the state as a turn record.                  *)

GroupNames == {s.group[w] : s \in Setups, w \in Windows}
Applications == [group : GroupNames, id : Identities]
Cycles == {Cycle(kind, reverse) : kind \in Kinds, reverse \in BOOLEAN}
Actions == Cycles \cup {Finish(kind) : kind \in Kinds} \cup {Cancel, ShowDetails}
Events == [session : Nat, action : Actions]

\* A panel on screen lists applications that are distinct, and selects one.
Distinct(apps) == \A i, j \in DOMAIN apps : apps[i].group = apps[j].group => i = j

IsPanel(p) ==
  /\ DOMAIN p = {"shown", "apps", "index", "ids"}
  /\ p.apps \in Seq(Applications) /\ Distinct(p.apps)
  /\ p.index \in Nat /\ (p.apps # <<>> => p.index \in 0..(Len(p.apps) - 1))

GoodUi(u) ==
  /\ DOMAIN u = {"session", "sw", "panel", "view", "surface", "show", "cache",
                 "released", "setup"}
  /\ DOMAIN u.sw = {"pending", "actions", "finishing", "anchor", "sticky",
                    "returnFocus", "dirty", "painted"}
  /\ u.session \in Nat /\ u.setup \in Setups /\ u.sw.actions \in Seq(Cycles)
  /\ "kind" \in DOMAIN u.view /\ u.view.kind \in {"none", "search", "details"}
  /\ u.panel.shown => IsPanel(u.panel)

\* A window stands once on the desktop.
GoodDesk(d) ==
  /\ DOMAIN d = {"zorder", "life", "fg"}
  /\ d.zorder \in Seq(Windows) /\ IsInjective(d.zorder) /\ d.life \in [Windows -> Nat]

\* An answer that is not an error lists a window once.
GoodMail(m) ==
  /\ DOMAIN m = {"asked", "answer", "for", "alive"}
  /\ m.answer # None /\ m.answer.ids # None =>
       m.answer.ids \in Seq(Identities) /\ IsInjective(m.answer.ids)

GoodInput(i) ==
  /\ DOMAIN i = {"opened", "gesture", "moves", "over"}
  /\ i.opened \in Nat /\ i.over \in Nat
  /\ i.gesture # None => i.gesture \in [kind : Kinds, sticky : BOOLEAN]

TurnFields == {"ui", "desk", "mail", "input", "ghost"}
GhostFields == {"owner", "aim", "settled", "visited", "walk", "repeated", "landed"}

\* The panel and the request belong to the session.
Owned(x) ==
  /\ x.ui.panel.shown => x.ui.session # 0 /\ x.ghost.owner = x.ui.session
  /\ x.ui.sw.pending # None => x.mail.for = x.ui.session

Landed(x) ==
  x.ghost.landed # None =>
    x.desk.fg = x.ghost.landed[1] /\ IsCurrent(x.desk, x.ghost.landed)

Sound(x) ==
  /\ DOMAIN x = TurnFields
  /\ GoodUi(x.ui) /\ GoodDesk(x.desk) /\ GoodMail(x.mail) /\ GoodInput(x.input)
  /\ DOMAIN x.ghost = GhostFields /\ Landed(x)

Good(x) == Sound(x) /\ Owned(x)

Whole == [ui |-> ui, desk |-> desk, mail |-> mail, input |-> input, ghost |-> ghost]

Inv ==
  /\ Good(Whole)
  /\ inbox \in Seq(Events) /\ taken \in Seq(Events)
  /\ pc \in {"idle", "inputs", "poll", "pump"}

-------------------------------------------------------------------------------
\* What is kept of a sequence: its elements of the set, each as often as before.
LEMMA Keeping ==
  ASSUME NEW S, NEW s \in Seq(S), NEW T
  PROVE  /\ Keep(s, T) \in Seq(S)
         /\ Range(Keep(s, T)) = Range(s) \cap T
         /\ IsInjective(s) => IsInjective(Keep(s, T))
<1> DEFINE n == Len(s)
           Step(f, i) == IF i = 0 THEN <<>>
                         ELSE IF s[i] \in T THEN Append(f[i - 1], s[i]) ELSE f[i - 1]
           Exists(m) == \E f : f = [i \in 0..m |-> Step(f, i)]
           kept[i \in 0..n] == IF i = 0 THEN <<>>
                               ELSE IF s[i] \in T THEN Append(kept[i - 1], s[i]) ELSE kept[i - 1]
           Met(i) == {s[j] : j \in 1..i}
           Right(i) == /\ kept[i] \in Seq(S) /\ Range(kept[i]) = Met(i) \cap T
                       /\ IsInjective(s) => IsInjective(kept[i])
<1>1. n \in Nat /\ DOMAIN s = 1..n /\ \A i \in 1..n : s[i] \in S
  OBVIOUS
<1>2. \A m \in 0..n : Exists(m)
  <2> DEFINE Bad == {m \in Nat : m <= n /\ ~Exists(m)}
  <2> HIDE DEF Exists
  <2>1. SUFFICES ASSUME Bad # {} PROVE FALSE
    BY <1>1
  <2>2. PICK m \in Bad : \A o \in Bad : m <= o
    BY <2>1, Least
  <2>3. CASE m = 0
    <3> DEFINE g == [i \in 0..0 |-> <<>>]
    <3>1. g = [i \in 0..0 |-> Step(g, i)]
      OBVIOUS
    <3> QED BY <2>2, <2>3, <3>1 DEF Exists
  <2>4. CASE m # 0
    <3>1. m - 1 \in Nat /\ m - 1 \notin Bad /\ m - 1 <= n /\ m \in Nat
      BY <2>2, <2>4
    <3>2. PICK f : f = [i \in 0..(m - 1) |-> Step(f, i)]
      BY <3>1 DEF Exists
    <3> DEFINE g == [i \in 0..m |-> IF i = m THEN Step(f, m) ELSE f[i]]
    <3>3. \A i \in 0..m : g[i] = Step(g, i)
      <4>1. ASSUME NEW i \in 0..m PROVE g[i] = Step(g, i)
        <5>1. CASE i = m
          <6>1. g[i] = Step(f, m) /\ g[m - 1] = f[m - 1]
            BY <3>1, <5>1
          <6> QED BY <2>4, <5>1, <6>1
        <5>2. CASE i # m
          <6>1. i \in 0..(m - 1) /\ g[i] = f[i] /\ (i # 0 => g[i - 1] = f[i - 1])
            BY <3>1, <5>2
          <6>2. f[i] = Step(f, i)
            BY <3>2, <6>1
          <6> QED BY <6>1, <6>2
        <5> QED BY <5>1, <5>2
      <4> QED BY <4>1
    <3>4. g = [i \in 0..m |-> Step(g, i)]
      <4> HIDE DEF Step
      <4> QED BY <3>3
    <3> QED BY <2>2, <3>4 DEF Exists
  <2> QED BY <2>3, <2>4
<1>3. kept = [i \in 0..n |-> Step(kept, i)]
  <2>1. \E f : f = [i \in 0..n |-> Step(f, i)]
    <3>1. Exists(n)
      <4> HIDE DEF Exists
      <4> QED BY <1>1, <1>2
    <3> QED BY <3>1
  <2> QED BY <2>1
<1>4. Keep(s, T) = kept[n]
  BY DEF Keep
<1> HIDE DEF kept
<1>5. kept[0] = <<>> /\ \A i \in 1..n : kept[i] = IF s[i] \in T THEN Append(kept[i - 1], s[i]) ELSE kept[i - 1]
  <2>1. \A i \in 0..n : kept[i] = Step(kept, i)
    <3> HIDE DEF Step
    <3> QED BY <1>3
  <2> QED BY <1>1, <2>1
<1>6. \A i \in 0..n : Right(i)
  <2> DEFINE Bad == {i \in Nat : i <= n /\ ~Right(i)}
  <2> HIDE DEF Right
  <2>1. SUFFICES ASSUME Bad # {} PROVE FALSE
    BY <1>1
  <2>2. PICK i \in Bad : \A o \in Bad : i <= o
    BY <2>1, Least
  <2>3. CASE i = 0
    <3>1. /\ <<>> \in Seq(S) /\ DOMAIN <<>> = {}
      BY EmptyDomain
    <3>2. Met(0) = {}
      OBVIOUS
    <3>3. Right(0)
      BY <1>5, <3>1, <3>2 DEF Right, Range, IsInjective
    <3> QED BY <2>2, <2>3, <3>3
  <2>4. CASE i # 0
    <3>1. i \in 1..n /\ i - 1 \in Nat /\ i - 1 <= n
      BY <1>1, <2>2, <2>4
    <3>2. Right(i - 1)
      BY <2>2, <3>1
    <3>3. Met(i) = Met(i - 1) \cup {s[i]}
      <4>1. ASSUME NEW e \in Met(i) PROVE e \in Met(i - 1) \cup {s[i]}
        <5>1. PICK j \in 1..i : e = s[j]
          OBVIOUS
        <5>2. j = i \/ j \in 1..(i - 1)
          BY <3>1
        <5> QED BY <5>1, <5>2
      <4> QED BY <3>1, <4>1
    <3>4. CASE s[i] \in T
      <4> DEFINE k == kept[i - 1]
      <4>1. kept[i] = Append(k, s[i]) /\ k \in Seq(S) /\ s[i] \in S
        BY <1>1, <1>5, <3>1, <3>2, <3>4 DEF Right
      <4>2. /\ kept[i] \in Seq(S) /\ DOMAIN kept[i] = 1..(Len(k) + 1) /\ Len(k) \in Nat
            /\ DOMAIN k = 1..Len(k)
            /\ \A j \in 1..Len(k) : kept[i][j] = k[j]
            /\ kept[i][Len(k) + 1] = s[i]
        <5> HIDE DEF k
        <5> QED BY <4>1, Appending
      <4> HIDE DEF k
      <4>3. Range(kept[i]) = Range(k) \cup {s[i]}
        <5>1. \A j \in 1..(Len(k) + 1) : j = Len(k) + 1 \/ j \in 1..Len(k)
          BY <4>2
        <5>2. \A j \in 1..Len(k) : j \in 1..(Len(k) + 1)
          BY <4>2
        <5>3. Len(k) + 1 \in 1..(Len(k) + 1)
          BY <4>2
        <5> QED BY <4>2, <5>1, <5>2, <5>3 DEF Range
      <4>4. Range(k) = Met(i - 1) \cap T
        BY <3>2 DEF Right, k
      <4>5. ASSUME IsInjective(s) PROVE IsInjective(kept[i])
        <5>1. s[i] \notin Range(k)
          <6>1. \A j \in 1..(i - 1) : s[j] # s[i]
            BY <1>1, <3>1, <4>5 DEF IsInjective
          <6> QED BY <4>4, <6>1
        <5>2. \A j \in 1..Len(k) : k[j] # s[i]
          BY <4>2, <5>1 DEF Range
        <5>3. \A j, l \in 1..Len(k) : k[j] = k[l] => j = l
          BY <3>2, <4>2, <4>5 DEF Right, IsInjective, k
        <5>4. ASSUME NEW j \in DOMAIN kept[i], NEW l \in DOMAIN kept[i], kept[i][j] = kept[i][l]
              PROVE j = l
          <6>1. (j = Len(k) + 1 \/ j \in 1..Len(k)) /\ (l = Len(k) + 1 \/ l \in 1..Len(k))
            BY <4>2
          <6> QED BY <4>2, <5>2, <5>3, <5>4, <6>1
        <5> QED BY <5>4 DEF IsInjective
      <4> QED BY <2>2, <3>3, <3>4, <4>2, <4>3, <4>4, <4>5 DEF Right
    <3>5. CASE s[i] \notin T
      <4>1. kept[i] = kept[i - 1]
        BY <1>5, <3>1, <3>5
      <4>2. Met(i) \cap T = Met(i - 1) \cap T
        BY <3>3, <3>5
      <4>3. Right(i)
        BY <3>2, <4>1, <4>2 DEF Right
      <4> QED BY <2>2, <4>3
    <3> QED BY <3>4, <3>5
  <2> QED BY <2>3, <2>4
<1>7. Right(n) /\ Met(n) = Range(s)
  BY <1>1, <1>6 DEF Range
<1> QED BY <1>4, <1>7

\* No window of the desktop is a surface of this program.
LEMMA Surfacing == Windows \cap {"panel", "search", "details", "none", None} = {}
BY SessionAssumption DEF Surfaces

\* Giving the foreground away keeps the windows.
LEMMA HidingASurface ==
  ASSUME NEW d, GoodDesk(d), NEW surface
  PROVE  /\ GoodDesk(Hidden(d, surface))
         /\ Hidden(d, surface).zorder = d.zorder /\ Hidden(d, surface).life = d.life
         /\ d.fg # surface => Hidden(d, surface).fg = d.fg
BY DEF GoodDesk, Hidden

\* Which window an identity names depends on the order and the lifetimes only.
LEMMA SameWindows ==
  ASSUME NEW d, NEW e, e.zorder = d.zorder, e.life = d.life, NEW id
  PROVE  IsCurrent(e, id) = IsCurrent(d, id)
BY DEF IsCurrent, Identity, Live

\* Once the user's choice has landed, the foreground is a window and no surface.
LEMMA LandedIsAWindow ==
  ASSUME NEW x, Sound(x), x.ghost.landed # None
  PROVE  x.desk.fg \in Windows
<1>1. x.desk.fg \in Range(x.desk.zorder) /\ x.desk.zorder \in Seq(Windows)
  BY DEF Sound, Landed, IsCurrent, Live, GoodDesk
<1> QED BY <1>1 DEF Range

\* Hiding the panel forgets it and nothing else, and leaves a landed window in front.
LEMMA HidingApps ==
  ASSUME NEW x, Sound(x), NEW y, y = HideApps(x)
  PROVE  /\ Sound(y)
         /\ y.ui.panel = NoPanel /\ y.ui.session = x.ui.session /\ y.ui.view = x.ui.view
         /\ y.ui.sw.pending = x.ui.sw.pending /\ y.ui.sw.actions = x.ui.sw.actions
         /\ y.ui.sw.finishing = x.ui.sw.finishing
         /\ y.mail = x.mail /\ y.input = x.input
         /\ y.ghost.landed = x.ghost.landed
<1>1. /\ DOMAIN y = TurnFields
      /\ y.ui = [x.ui EXCEPT !.panel = NoPanel, !.sw.painted = FALSE, !.surface = "None",
            !.show = FALSE]
      /\ y.desk = Hidden(x.desk, "panel") /\ y.mail = x.mail /\ y.input = x.input
      /\ DOMAIN y.ghost = GhostFields /\ y.ghost.landed = x.ghost.landed
  <2>1. DOMAIN x = TurnFields /\ DOMAIN x.ghost = GhostFields
    BY DEF Sound
  <2>2. DOMAIN y = TurnFields /\ y.mail = x.mail /\ y.input = x.input
        /\ y.desk = Hidden(x.desk, "panel")
    BY <2>1 DEF TurnFields, HideApps
  <2>3. y.ui = [x.ui EXCEPT !.panel = NoPanel, !.sw.painted = FALSE, !.surface = "None",
            !.show = FALSE]
    BY <2>1 DEF TurnFields, HideApps
  <2>4. y.ghost = [x.ghost EXCEPT !.owner = 0, !.aim = 0, !.settled = FALSE]
    BY <2>1 DEF TurnFields, HideApps
  <2>5. DOMAIN y.ghost = GhostFields /\ y.ghost.landed = x.ghost.landed
    BY <2>1, <2>4 DEF GhostFields
  <2> QED BY <2>2, <2>3, <2>5
<1>2. /\ GoodUi(y.ui)
      /\ y.ui.panel = NoPanel /\ y.ui.session = x.ui.session /\ y.ui.view = x.ui.view
      /\ y.ui.sw.pending = x.ui.sw.pending /\ y.ui.sw.actions = x.ui.sw.actions
      /\ y.ui.sw.finishing = x.ui.sw.finishing
  BY <1>1 DEF Sound, GoodUi, NoPanel
<1>3. GoodDesk(y.desk)
  BY <1>1, HidingASurface DEF Sound
<1>4. Landed(y)
  BY <1>1, HidingASurface, SameWindows, LandedIsAWindow, Surfacing DEF Sound, Landed
<1> QED BY <1>1, <1>2, <1>3, <1>4 DEF Sound

\* Raising a window keeps the others, each once, as does taking it away.
LEMMA Raising ==
  ASSUME NEW order \in Seq(Windows), IsInjective(order), NEW w \in Windows
  PROVE  /\ Raised(order, w) \in Seq(Windows) /\ IsInjective(Raised(order, w))
         /\ Range(Raised(order, w)) = Range(order) \cup {w}
         /\ Without(order, w) \in Seq(Windows) /\ IsInjective(Without(order, w))
<1> DEFINE k == Without(order, w)
           r == Raised(order, w)
<1>1. k \in Seq(Windows) /\ IsInjective(k) /\ Range(k) = Range(order) \ {w}
  <2>1. Range(order) \cap (Range(order) \ {w}) = Range(order) \ {w}
    OBVIOUS
  <2> QED BY <2>1, Keeping DEF Without
<1>2. r = <<w>> \o k
  BY DEF Raised
<1> HIDE DEF k, r
<1>3. /\ r \in Seq(Windows) /\ DOMAIN r = 1..(Len(k) + 1) /\ r[1] = w /\ Len(k) \in Nat
      /\ DOMAIN k = 1..Len(k) /\ \A i \in 2..(Len(k) + 1) : r[i] = k[i - 1]
  BY <1>1, <1>2
<1>4. \A i \in 1..(Len(k) + 1) : i = 1 \/ (i \in 2..(Len(k) + 1) /\ i - 1 \in 1..Len(k))
  BY <1>3
<1>5. ASSUME NEW i \in 1..Len(k) PROVE k[i] # w /\ i + 1 \in 2..(Len(k) + 1) /\ r[i + 1] = k[i]
  <2>1. k[i] \in Range(k)
    BY <1>3 DEF Range
  <2>2. k[i] # w
    BY <1>1, <2>1
  <2>3. i + 1 \in 2..(Len(k) + 1) /\ (i + 1) - 1 = i
    BY <1>3
  <2> QED BY <1>3, <2>2, <2>3
<1>6. ASSUME NEW i \in DOMAIN r, NEW j \in DOMAIN r, r[i] = r[j] PROVE i = j
  <2>1. \A a, b \in 1..Len(k) : k[a] = k[b] => a = b
    BY <1>1, <1>3 DEF IsInjective
  <2>2. ASSUME NEW a \in DOMAIN r
        PROVE  (r[a] = w => a = 1) /\ (a # 1 => a - 1 \in 1..Len(k) /\ r[a] = k[a - 1])
    <3>1. a = 1 \/ (a \in 2..(Len(k) + 1) /\ a - 1 \in 1..Len(k) /\ r[a] = k[a - 1])
      BY <1>3, <1>4
    <3>2. a # 1 => k[a - 1] # w
      BY <1>5, <3>1
    <3> QED BY <3>1, <3>2
  <2>3. CASE i = 1 \/ j = 1
    BY <1>3, <1>6, <2>2, <2>3
  <2>4. CASE i # 1 /\ j # 1
    <3>1. i - 1 = j - 1
      BY <1>6, <2>1, <2>2, <2>4
    <3> QED BY <1>3, <3>1
  <2> QED BY <2>3, <2>4
<1>7. Range(r) = Range(order) \cup {w}
  <2>1. \A e \in Range(r) : e = w \/ e \in Range(k)
    BY <1>3, <1>4 DEF Range
  <2>2. w \in Range(r)
    <3>1. 1 \in DOMAIN r
      BY <1>3
    <3> QED BY <1>3, <3>1 DEF Range
  <2>3. ASSUME NEW e \in Range(k) PROVE e \in Range(r)
    <3>1. PICK i \in 1..Len(k) : e = k[i]
      BY <1>3 DEF Range
    <3>2. i + 1 \in DOMAIN r /\ r[i + 1] = e
      BY <1>3, <1>5, <3>1
    <3> QED BY <3>2 DEF Range
  <2> QED BY <1>1, <2>1, <2>2, <2>3
<1> QED BY <1>1, <1>3, <1>6, <1>7 DEF IsInjective, k, r

\* Closing the search or the details changes only the view and, if it was in front,
\* the foreground.
LEMMA ClosingTheView ==
  ASSUME NEW x, Sound(x), NEW y, y = CloseView(x)
  PROVE  /\ Sound(y)
         /\ y.ui.sw = x.ui.sw /\ y.ui.panel = x.ui.panel /\ y.ui.session = x.ui.session
         /\ y.mail = x.mail /\ y.input = x.input /\ y.ghost = x.ghost
<1>1. /\ DOMAIN y = TurnFields
      /\ y.ui = [x.ui EXCEPT !.view = NoView]
      /\ y.desk = Hidden(x.desk, x.ui.view.kind) /\ y.mail = x.mail /\ y.input = x.input
      /\ y.ghost = x.ghost
  BY DEF TurnFields, Sound, CloseView, GoodUi, GhostFields
<1>2. GoodUi(y.ui) /\ y.ui.sw = x.ui.sw /\ y.ui.panel = x.ui.panel /\ y.ui.session = x.ui.session
  BY <1>1 DEF Sound, GoodUi, NoView
<1>3. GoodDesk(y.desk)
  BY <1>1, HidingASurface DEF Sound
<1>4. Landed(y)
  BY <1>1, HidingASurface, SameWindows, LandedIsAWindow, Surfacing DEF Sound, Landed, GoodUi
<1> QED BY <1>1, <1>2, <1>3, <1>4 DEF Sound

\* The foreground goes to a window that is current, which stays current.
LEMMA Fronting ==
  ASSUME NEW d, GoodDesk(d), NEW id, IsCurrent(d, id),
         NEW e, DOMAIN e = DOMAIN d, e.life = d.life, e.zorder = Raised(d.zorder, id[1])
  PROVE  GoodDesk(e) /\ IsCurrent(e, id)
<1>1. /\ id[1] \in Range(d.zorder) /\ id[1] \in Windows /\ id = Identity(d, id[1])
  BY DEF IsCurrent, Live, GoodDesk, Range
<1>2. e.zorder \in Seq(Windows) /\ IsInjective(e.zorder) /\ id[1] \in Range(e.zorder)
  BY <1>1, Raising DEF GoodDesk
<1>3. GoodDesk(e)
  BY <1>2 DEF GoodDesk
<1>4. IsCurrent(e, id)
  BY <1>1, <1>2 DEF IsCurrent, Live, Identity
<1> QED BY <1>3, <1>4

\* What SetForegroundWindow changes when it is granted.
Granted(x, w, y) == y = [x EXCEPT !.desk.fg = w, !.desk.zorder = Raised(x.desk.zorder, w)]

\* It puts the window in front and on top of the others.
LEMMA Granting ==
  ASSUME NEW x, Sound(x), NEW w, NEW y, Granted(x, w, y)
  PROVE  /\ DOMAIN y = TurnFields
         /\ y.ui = x.ui /\ y.mail = x.mail /\ y.input = x.input /\ y.ghost = x.ghost
         /\ DOMAIN y.desk = DOMAIN x.desk /\ y.desk.fg = w /\ y.desk.life = x.desk.life
         /\ y.desk.zorder = Raised(x.desk.zorder, w)
<1> DEFINE order == Raised(x.desk.zorder, w)
<1>1. y = [x EXCEPT !.desk.fg = w, !.desk.zorder = order]
  BY DEF Granted
<1> HIDE DEF order
<1>2. /\ DOMAIN y = TurnFields
      /\ y.ui = x.ui /\ y.mail = x.mail /\ y.input = x.input /\ y.ghost = x.ghost
  BY <1>1 DEF Sound
<1>3. /\ DOMAIN y.desk = DOMAIN x.desk /\ y.desk.fg = w /\ y.desk.life = x.desk.life
      /\ y.desk.zorder = order
  BY <1>1 DEF TurnFields, Sound, GoodDesk
<1> QED BY <1>2, <1>3 DEF order

\* A cancelled switch leaves no panel and no request, and gives the focus back only
\* when a surface has it, so no landed window loses it.
LEMMA GivingUp ==
  ASSUME NEW x, Sound(x), NEW granted, NEW y, y = CancelSwitchApp(x, granted)
  PROVE  /\ Good(y)
         /\ ~y.ui.panel.shown /\ y.ui.sw = Coordinator /\ y.ui.session = x.ui.session
         /\ y.input = x.input /\ y.ghost.landed = x.ghost.landed
         /\ y.mail.alive = x.mail.alive
<1> DEFINE focus == x.ui.sw.returnFocus
           allowed == OwnsPickerForeground(x) /\ IsCurrent(x.desk, focus)
           r == IF focus = None THEN x ELSE SetForeground(x, focus[1], allowed, granted)
           h == HideApps(CloseView(r))
<1>1. /\ DOMAIN r = TurnFields
      /\ r.ui = x.ui /\ r.mail = x.mail /\ r.input = x.input /\ r.ghost = x.ghost
      /\ GoodDesk(r.desk) /\ (~allowed => r = x)
  <2>1. CASE focus = None
    BY <2>1 DEF Sound
  <2>2. CASE focus # None /\ allowed /\ granted
    <3>1. Granted(x, focus[1], r)
      BY <2>2 DEF SetForeground, Granted
    <3>2. IsCurrent(x.desk, focus)
      BY <2>2
    <3> HIDE DEF focus, r, allowed, h
    <3>3. /\ DOMAIN r = TurnFields
          /\ r.ui = x.ui /\ r.mail = x.mail /\ r.input = x.input /\ r.ghost = x.ghost
          /\ DOMAIN r.desk = DOMAIN x.desk /\ r.desk.life = x.desk.life
          /\ r.desk.zorder = Raised(x.desk.zorder, focus[1])
      <4> DEFINE f == focus[1]
      <4>1. Granted(x, f, r)
        BY <3>1
      <4> HIDE DEF f
      <4>2. /\ DOMAIN r = TurnFields
            /\ r.ui = x.ui /\ r.mail = x.mail /\ r.input = x.input /\ r.ghost = x.ghost
            /\ DOMAIN r.desk = DOMAIN x.desk /\ r.desk.life = x.desk.life
            /\ r.desk.zorder = Raised(x.desk.zorder, f)
        BY <4>1, Granting
      <4> QED BY <4>2 DEF f
    <3>4. GoodDesk(r.desk)
      BY <3>2, <3>3, Fronting DEF Sound
    <3> QED BY <2>2, <3>3, <3>4
  <2>3. CASE focus # None /\ ~(allowed /\ granted)
    <3>1. r = x
      BY <2>3 DEF SetForeground
    <3> HIDE DEF focus, r, allowed, h
    <3> QED BY <3>1 DEF Sound
  <2> QED BY <2>1, <2>2, <2>3
<1> HIDE DEF r, allowed
<1>2. x.ghost.landed # None => ~OwnsPickerForeground(x)
  BY LandedIsAWindow, Surfacing DEF OwnsPickerForeground
<1>3. Landed(r)
  <2>1. x.ghost.landed # None => r = x
    BY <1>1, <1>2 DEF allowed
  <2> QED BY <1>1, <2>1 DEF Sound, Landed
<1>4. Sound(r)
  BY <1>1, <1>3 DEF Sound
<1>5. y = [h EXCEPT !.mail = NoRequest(@), !.ui.sw = Coordinator]
  BY DEF CancelSwitchApp, r, allowed
<1> DEFINE c == CloseView(r)
<1>6. Sound(c) /\ c.ui.session = r.ui.session /\ c.mail = r.mail /\ c.input = r.input
      /\ c.ghost = r.ghost
  BY <1>4, ClosingTheView
<1> HIDE DEF c
<1>7. /\ Sound(h) /\ h.mail = c.mail /\ h.input = c.input /\ h.ghost.landed = c.ghost.landed
      /\ h.ui.panel = NoPanel /\ h.ui.session = c.ui.session
  BY <1>6, HidingApps DEF c
<1> HIDE DEF h
<1>8. /\ DOMAIN y = TurnFields
      /\ y.ui = [h.ui EXCEPT !.sw = Coordinator] /\ y.mail = NoRequest(h.mail)
      /\ y.desk = h.desk /\ y.input = h.input /\ y.ghost = h.ghost
  BY <1>5, <1>7 DEF TurnFields, Sound
<1>9. h.ui.panel = NoPanel /\ h.ui.session = x.ui.session
  BY <1>1, <1>4, <1>6, <1>7 DEF Sound, GoodUi
<1>10. /\ GoodUi(y.ui) /\ ~y.ui.panel.shown /\ y.ui.sw = Coordinator
       /\ y.ui.sw.pending = None
       /\ y.ui.session = x.ui.session
  <2>1. <<>> \in Seq(Cycles)
    OBVIOUS
  <2>2. /\ DOMAIN y.ui = DOMAIN h.ui /\ y.ui.sw = Coordinator
        /\ y.ui.session = h.ui.session /\ y.ui.setup = h.ui.setup /\ y.ui.view = h.ui.view
        /\ y.ui.panel = h.ui.panel
    BY <1>7, <1>8 DEF Sound, GoodUi
  <2> QED BY <1>7, <1>9, <2>1, <2>2 DEF Sound, GoodUi, NoPanel, Coordinator
<1>11. GoodMail(y.mail) /\ y.mail.alive = x.mail.alive
  BY <1>1, <1>6, <1>7, <1>8 DEF Sound, GoodMail, NoRequest
<1>12. y.input = x.input /\ y.ghost.landed = x.ghost.landed
  BY <1>1, <1>6, <1>7, <1>8
<1>13. GoodDesk(y.desk) /\ GoodInput(y.input) /\ Landed(y) /\ DOMAIN y.ghost = GhostFields
  BY <1>7, <1>8 DEF Sound, Landed
<1>14. Sound(y)
  BY <1>8, <1>10, <1>11, <1>13 DEF Sound
<1>15. Owned(y)
  BY <1>10 DEF Owned
<1> QED BY <1>10, <1>11, <1>12, <1>14, <1>15 DEF Good

\* A completed switch leaves no panel, no request and no session.
LEMMA Completing ==
  ASSUME NEW x, Sound(x), NEW granted, NEW y, y = CompleteSwitch(x, granted)
  PROVE  /\ Good(y)
         /\ ~y.ui.panel.shown /\ y.ui.sw = Coordinator /\ y.ui.session = 0
         /\ y.ghost.landed = x.ghost.landed
<1> DEFINE over == Ended(x.input, x.ui.session)
           z == [x EXCEPT
                   !.input = over, !.ui.session = 0, !.ui.released = TRUE,
                   !.ghost.visited = {}, !.ghost.walk = <<>>]
<1>1. y = CancelSwitchApp(z, granted)
  BY DEF CompleteSwitch
<1>2. GoodInput(over)
  BY DEF Sound, GoodUi, GoodInput, Ended
<1> HIDE DEF over
<1>3. /\ DOMAIN z = TurnFields
      /\ z.ui = [x.ui EXCEPT !.session = 0, !.released = TRUE]
      /\ z.desk = x.desk /\ z.mail = x.mail /\ z.input = over
      /\ DOMAIN z.ghost = GhostFields /\ z.ghost.landed = x.ghost.landed
  BY DEF TurnFields, Sound, GhostFields, GoodUi
<1> HIDE DEF z
<1>4. GoodUi(z.ui) /\ z.ui.session = 0
  BY <1>3 DEF Sound, GoodUi
<1>5. Sound(z)
  BY <1>2, <1>3, <1>4 DEF Sound, Landed
<1>6. z.ghost.landed = x.ghost.landed /\ z.ui.session = 0
  BY <1>3, <1>4
<1> QED BY <1>1, <1>5, <1>6, GivingUp

\* A session that fails ends, and what has landed stays.
LEMMA Failing ==
  ASSUME NEW x, Sound(x), NEW session \in Nat, NEW granted, NEW y, y = Fail(x, session, granted)
  PROVE  /\ Good(y)
         /\ ~y.ui.panel.shown /\ y.ui.sw = Coordinator /\ y.ui.session = 0
         /\ y.ghost.landed = x.ghost.landed
<1> DEFINE over == Ended(x.input, session)
           z == [x EXCEPT !.input = over]
<1>1. y = CompleteSwitch(z, granted)
  BY DEF Fail
<1>2. GoodInput(over)
  BY DEF Sound, GoodInput, Ended
<1> HIDE DEF over
<1>3. /\ DOMAIN z = TurnFields /\ z.ui = x.ui /\ z.desk = x.desk /\ z.mail = x.mail
      /\ z.input = over /\ z.ghost = x.ghost
  BY DEF TurnFields, Sound
<1> HIDE DEF z
<1>4. Sound(z)
  BY <1>2, <1>3 DEF Sound, Landed
<1> QED BY <1>1, <1>3, <1>4, Completing

\* A request is made for the session.
LEMMA Requesting ==
  ASSUME NEW x, Good(x), NEW kind, NEW refresh, NEW granted,
         NEW y, y = RequestSnapshot(x, kind, refresh, granted)
  PROVE  /\ Good(y) /\ y.ghost.landed = x.ghost.landed
         /\ y.ui.panel.shown => y.ui.panel = x.ui.panel /\ y.ui.session = x.ui.session
<1>1. CASE ~x.mail.alive
  <2>1. y = Fail(x, x.ui.session, granted)
    BY <1>1 DEF RequestSnapshot
  <2>2. x.ui.session \in Nat /\ Sound(x)
    BY DEF Good, Sound, GoodUi
  <2> QED BY <2>1, <2>2, Failing
<1>2. CASE x.mail.alive
  <2> DEFINE h == IF kind = "Windows" THEN HideApps(x) ELSE x
  <2>1. PICK request : 
          y = [h EXCEPT !.mail.asked = TRUE, !.mail.answer = None, !.mail.for = x.ui.session,
                        !.ui.sw.pending = request]
    BY <1>2 DEF RequestSnapshot
  <2>2. /\ Sound(h) /\ h.ui.session = x.ui.session /\ h.ghost.landed = x.ghost.landed
        /\ h.ui.panel.shown => h = x
    <3>1. CASE kind = "Windows"
      <4>1. h = HideApps(x)
        BY <3>1
      <4> HIDE DEF h
      <4> QED BY <4>1, HidingApps DEF Good, NoPanel
    <3>2. CASE kind # "Windows"
      BY <3>2 DEF Good
    <3> QED BY <3>1, <3>2
  <2> HIDE DEF h
  <2>3. /\ DOMAIN y = TurnFields /\ y.ui = [h.ui EXCEPT !.sw.pending = request]
        /\ y.desk = h.desk /\ y.input = h.input /\ y.ghost = h.ghost
        /\ y.mail = [h.mail EXCEPT !.asked = TRUE, !.answer = None, !.for = x.ui.session]
    BY <2>1, <2>2 DEF TurnFields, Sound
  <2>4. GoodUi(y.ui) /\ y.ui.panel = h.ui.panel /\ y.ui.session = h.ui.session
    BY <2>2, <2>3 DEF Sound, GoodUi
  <2>5. GoodMail(y.mail) /\ y.mail.for = x.ui.session
    BY <2>2, <2>3 DEF Sound, GoodMail
  <2>6. Sound(y)
    BY <2>2, <2>3, <2>4, <2>5 DEF Sound, Landed
  <2>7. Owned(y)
    BY <2>2, <2>3, <2>4, <2>5 DEF Owned, Good
  <2> QED BY <2>2, <2>3, <2>4, <2>6, <2>7 DEF Good
<1> QED BY <1>1, <1>2

\* The window the user asked for is in front.
LEMMA Activating ==
  ASSUME NEW x, Sound(x), NEW id, NEW allowed, allowed => IsCurrent(x.desk, id), NEW granted,
         NEW y, y = Activate(x, id, allowed, granted)
  PROVE  /\ Sound(y) /\ y.ui = x.ui /\ y.mail = x.mail /\ y.input = x.input
         /\ y.ghost.owner = x.ghost.owner
         /\ Activated(allowed, granted) \/ y = x
<1>1. CASE allowed /\ granted
  <2> DEFINE f == SetForeground(x, id[1], allowed, granted)
             w == id[1]
  <2>1. y = [f EXCEPT !.ghost.landed = id]
    BY <1>1 DEF Activate
  <2>0. Granted(x, w, f)
    BY <1>1 DEF SetForeground, Granted
  <2>2. /\ DOMAIN f = TurnFields
        /\ f.ui = x.ui /\ f.mail = x.mail /\ f.input = x.input /\ f.ghost = x.ghost
        /\ DOMAIN f.desk = DOMAIN x.desk /\ f.desk.fg = id[1] /\ f.desk.life = x.desk.life
        /\ f.desk.zorder = Raised(x.desk.zorder, id[1])
    <3> HIDE DEF f, w
    <3>1. /\ DOMAIN f = TurnFields
          /\ f.ui = x.ui /\ f.mail = x.mail /\ f.input = x.input /\ f.ghost = x.ghost
          /\ DOMAIN f.desk = DOMAIN x.desk /\ f.desk.fg = w /\ f.desk.life = x.desk.life
          /\ f.desk.zorder = Raised(x.desk.zorder, w)
      BY <2>0, Granting
    <3> QED BY <3>1 DEF w
  <2> HIDE DEF f
  <2>3. GoodDesk(f.desk) /\ IsCurrent(f.desk, id)
    BY <1>1, <2>2, Fronting DEF Sound
  <2>4. /\ DOMAIN y = TurnFields /\ y.ui = f.ui /\ y.mail = f.mail /\ y.input = f.input
        /\ y.desk = f.desk /\ y.ghost = [f.ghost EXCEPT !.landed = id]
    BY <2>1, <2>2 DEF TurnFields
  <2>5. DOMAIN y.ghost = GhostFields /\ y.ghost.landed = id /\ y.ghost.owner = f.ghost.owner
    BY <2>2, <2>4 DEF Sound, GhostFields
  <2>6. Landed(y)
    BY <2>2, <2>3, <2>4, <2>5 DEF Landed
  <2>7. Sound(y)
    BY <2>2, <2>3, <2>4, <2>5, <2>6 DEF Sound
  <2> QED BY <1>1, <2>2, <2>4, <2>5, <2>7 DEF Activated
<1>2. CASE ~(allowed /\ granted)
  BY <1>2 DEF Activate, SetForeground
<1> QED BY <1>1, <1>2

\* Hiding a surface keeps the turn sound, since a landed window is in front of it.
LEMMA HidingWhatIsShown ==
  ASSUME NEW x, Sound(x), NEW surface, surface \notin Windows, NEW y, DOMAIN y = TurnFields,
         y.ui = x.ui, y.mail = x.mail, y.input = x.input, y.ghost = x.ghost,
         y.desk = Hidden(x.desk, surface)
  PROVE  Sound(y)
<1>1. GoodDesk(y.desk)
  BY HidingASurface DEF Sound
<1>2. Landed(y)
  BY HidingASurface, SameWindows, LandedIsAWindow DEF Sound, Landed
<1> QED BY <1>1, <1>2 DEF Sound

\* Activating the selected application keeps the turn sound and takes the panel away.
LEMMA SwitchingApps ==
  ASSUME NEW x, Good(x), NEW granted, NEW y, y = DoSwitchApp(x, granted)
  PROVE  Sound(y) /\ ~y.ui.panel.shown
<1> DEFINE p == x.ui.panel
           h == [x EXCEPT !.ui.panel = NoPanel, !.ui.show = FALSE]
           id == Selected(p).id
           allowed == PermittedNow(x) /\ IsCurrent(x.desk, id)
           a == IF p.shown /\ p.apps # <<>> THEN Activate(h, id, allowed, granted) ELSE h
<1>1. y = [a EXCEPT !.desk = Hidden(@, "panel")]
  BY DEF DoSwitchApp
<1>2. Sound(h) /\ ~h.ui.panel.shown /\ h.desk = x.desk
  <2>1. /\ DOMAIN h = TurnFields /\ h.ui = [x.ui EXCEPT !.panel = NoPanel, !.show = FALSE]
        /\ h.desk = x.desk /\ h.mail = x.mail /\ h.input = x.input /\ h.ghost = x.ghost
    BY DEF TurnFields, Good, Sound, GoodUi
  <2> HIDE DEF h
  <2>2. GoodUi(h.ui) /\ ~h.ui.panel.shown
    BY <2>1 DEF Good, Sound, GoodUi, NoPanel
  <2> QED BY <2>1, <2>2 DEF Good, Sound, Landed
<1> HIDE DEF h
<1>3. Sound(a) /\ ~a.ui.panel.shown
  <2>1. CASE p.shown /\ p.apps # <<>>
    <3>1. a = Activate(h, id, allowed, granted)
      BY <2>1
    <3>2. allowed => IsCurrent(h.desk, id)
      BY <1>2
    <3> HIDE DEF a, id, allowed, p
    <3> QED BY <1>2, <3>1, <3>2, Activating
  <2>2. CASE ~(p.shown /\ p.apps # <<>>)
    BY <1>2, <2>2
  <2> QED BY <2>1, <2>2
<1> HIDE DEF a
<1>4. /\ DOMAIN y = TurnFields /\ y.ui = a.ui /\ y.mail = a.mail /\ y.input = a.input
      /\ y.ghost = a.ghost /\ y.desk = Hidden(a.desk, "panel")
  BY <1>1, <1>3 DEF TurnFields, Sound
<1> QED BY <1>3, <1>4, HidingWhatIsShown, Surfacing

\* A prefix of actions of one kind is no longer than their list.
LEMMA Leading ==
  ASSUME NEW S, NEW actions \in Seq(S), NEW kind
  PROVE  LeadingCount(actions, kind) \in 0..Len(actions)
<1> DEFINE Others == {i \in DOMAIN actions : actions[i].kind # kind}
<1>1. DOMAIN actions = 1..Len(actions) /\ Len(actions) \in Nat
  OBVIOUS
<1>2. CASE Others = {}
  BY <1>1, <1>2 DEF LeadingCount
<1>3. CASE Others # {}
  <2>1. Others \in SUBSET Nat
    BY <1>1
  <2>2. PICK i \in Others : \A j \in Others : i <= j
    BY <1>3, <2>1, Least
  <2>3. \A j \in 1..(i - 1) : j \in DOMAIN actions /\ j \notin Others
    BY <1>1, <2>2
  <2>4. i \in DOMAIN actions /\ actions[i].kind # kind /\ \A j \in 1..(i - 1) : actions[j].kind = kind
    BY <2>2, <2>3
  <2> DEFINE First(k) == actions[k].kind # kind /\ \A j \in 1..(k - 1) : actions[j].kind = kind
             first == CHOOSE k \in DOMAIN actions : First(k)
  <2>5. first \in DOMAIN actions
    <3>1. First(i)
      BY <2>4
    <3> HIDE DEF First
    <3> QED BY <2>4, <3>1
  <2>6. LeadingCount(actions, kind) = first - 1
    BY <1>3 DEF LeadingCount
  <2> HIDE DEF first
  <2> QED BY <1>1, <2>5, <2>6
<1> QED BY <1>2, <1>3

\* One step of the selection stays inside the list, in both directions.
LEMMA CyclingStaysInside ==
  ASSUME NEW count \in Nat \ {0}, NEW current \in 0..(count - 1), NEW reverse
  PROVE  CycleIndex(current, count, reverse) \in 0..(count - 1)
<1>1. CASE reverse
  BY <1>1 DEF CycleIndex
<1>2. CASE ~reverse
  BY <1>2 DEF CycleIndex
<1> QED BY <1>1, <1>2

\* Any number of steps do.
LEMMA MovingTheSelection ==
  ASSUME NEW x, Good(x), NEW y, y = MoveSelection(x)
  PROVE  /\ Good(y) /\ y.desk = x.desk /\ y.mail = x.mail /\ y.input = x.input /\ y.ghost = x.ghost
         /\ y.ui.session = x.ui.session /\ y.ui.view = x.ui.view
         /\ y.ui.sw.pending = x.ui.sw.pending
         /\ y.ui.sw.finishing = x.ui.sw.finishing
<1> DEFINE sw == x.ui.sw
           p == x.ui.panel
           n == IF p.shown THEN LeadingCount(sw.actions, "Apps") ELSE 0
           count == Len(p.apps)
           at[i \in 0..n] == IF i = 0 THEN p.index
                             ELSE CycleIndex(at[i - 1], Len(p.apps), sw.actions[i].reverse)
           index == IF p.apps = <<>> THEN 0 ELSE at[n]
           rest == SubSeq(sw.actions, n + 1, Len(sw.actions))
<1>1. sw.actions \in Seq(Cycles) /\ n \in 0..Len(sw.actions)
  <2>1. sw.actions \in Seq(Cycles)
    BY DEF Good, Sound, GoodUi
  <2> QED BY <2>1, Leading
<1>2. CASE n = 0
  BY <1>2 DEF MoveSelection
<1>3. CASE n # 0
  <2>1. p.shown /\ IsPanel(p)
    BY <1>3 DEF Good, Sound, GoodUi
  <2>2. y = [x EXCEPT !.ui.panel.index = index, !.ui.sw.actions = rest, !.ui.sw.dirty = TRUE]
    BY <1>3 DEF MoveSelection
  <2>3. ASSUME p.apps # <<>> PROVE index \in 0..(count - 1)
    <3> DEFINE Step(f, i) == IF i = 0 THEN p.index
                             ELSE CycleIndex(f[i - 1], Len(p.apps), sw.actions[i].reverse)
               Exists(m) == \E f : f = [i \in 0..m |-> Step(f, i)]
    <3> HIDE DEF n, p
    <3>1. n \in Nat
      BY <1>1
    <3>2. \A m \in 0..n : Exists(m)
      <4> DEFINE Bad == {m \in Nat : m <= n /\ ~Exists(m)}
      <4> HIDE DEF Exists
      <4>1. SUFFICES ASSUME Bad # {} PROVE FALSE
        BY <3>1
      <4>2. PICK m \in Bad : \A o \in Bad : m <= o
        BY <4>1, Least
      <4>3. CASE m = 0
        <5> DEFINE g == [i \in 0..0 |-> p.index]
        <5>1. g = [i \in 0..0 |-> Step(g, i)]
          OBVIOUS
        <5> QED BY <4>2, <4>3, <5>1 DEF Exists
      <4>4. CASE m # 0
        <5>1. m - 1 \in Nat /\ m - 1 \notin Bad /\ m - 1 <= n /\ m \in Nat
          BY <3>1, <4>2, <4>4
        <5>2. PICK f : f = [i \in 0..(m - 1) |-> Step(f, i)]
          BY <5>1 DEF Exists
        <5> DEFINE g == [i \in 0..m |-> IF i = m THEN Step(f, m) ELSE f[i]]
        <5>3. ASSUME NEW i \in 0..m PROVE g[i] = Step(g, i)
          <6>1. CASE i = m
            <7>1. g[i] = Step(f, m) /\ g[m - 1] = f[m - 1]
              BY <5>1, <6>1
            <7> QED BY <4>4, <6>1, <7>1
          <6>2. CASE i # m
            <7>1. i \in 0..(m - 1) /\ g[i] = f[i] /\ (i # 0 => g[i - 1] = f[i - 1])
              BY <5>1, <6>2
            <7>2. f[i] = Step(f, i)
              BY <5>2, <7>1
            <7> QED BY <7>1, <7>2
          <6> QED BY <6>1, <6>2
        <5>4. g = [i \in 0..m |-> Step(g, i)]
          <6> HIDE DEF Step
          <6> QED BY <5>3
        <5> QED BY <4>2, <5>4 DEF Exists
      <4> QED BY <4>3, <4>4
    <3>3. at = [i \in 0..n |-> Step(at, i)]
      <4>1. \E f : f = [i \in 0..n |-> Step(f, i)]
        <5>1. Exists(n)
          <6> HIDE DEF Exists
          <6> QED BY <3>1, <3>2
        <5> QED BY <5>1
      <4> QED BY <4>1
    <3> HIDE DEF at
    <3>4. ASSUME NEW i \in 0..n PROVE at[i] = Step(at, i)
      <4> HIDE DEF Step
      <4> QED BY <3>3
    <3>5. count \in Nat \ {0} /\ p.index \in 0..(count - 1)
      BY <2>1, <2>3 DEF IsPanel
    <3>6. \A i \in 0..n : at[i] \in 0..(count - 1)
      <4> DEFINE Bad == {i \in Nat : i <= n /\ at[i] \notin 0..(count - 1)}
      <4>1. SUFFICES ASSUME Bad # {} PROVE FALSE
        BY <3>1
      <4>2. PICK i \in Bad : \A o \in Bad : i <= o
        BY <4>1, Least
      <4>3. i # 0
        BY <3>1, <3>4, <3>5, <4>2
      <4>4. i \in 0..n /\ i - 1 \in 0..n /\ at[i - 1] \in 0..(count - 1)
        BY <3>1, <4>2, <4>3
      <4>5. at[i] = CycleIndex(at[i - 1], count, sw.actions[i].reverse)
        BY <3>4, <4>3, <4>4
      <4> HIDE DEF count
      <4>6. at[i] \in 0..(count - 1)
        BY <3>5, <4>4, <4>5, CyclingStaysInside
      <4> QED BY <4>2, <4>6
    <3> QED BY <2>3, <3>1, <3>6
  <2> HIDE DEF index
  <2>4. rest \in Seq(Cycles)
    BY <1>1
  <2> HIDE DEF rest
  <2>5. /\ DOMAIN y = TurnFields
        /\ y.desk = x.desk /\ y.mail = x.mail /\ y.input = x.input /\ y.ghost = x.ghost
        /\ y.ui = [x.ui EXCEPT !.panel.index = index, !.sw.actions = rest, !.sw.dirty = TRUE]
    BY <2>2 DEF TurnFields, Good, Sound
  <2> HIDE DEF p, n, sw
  <2>6. /\ DOMAIN y.ui = DOMAIN x.ui /\ DOMAIN y.ui.panel = DOMAIN p
        /\ y.ui.panel.shown = p.shown /\ y.ui.panel.apps = p.apps /\ y.ui.panel.index = index
        /\ y.ui.session = x.ui.session /\ y.ui.setup = x.ui.setup /\ y.ui.view = x.ui.view
        /\ DOMAIN y.ui.sw = DOMAIN x.ui.sw /\ y.ui.sw.actions = rest
        /\ y.ui.sw.pending = x.ui.sw.pending /\ y.ui.sw.finishing = x.ui.sw.finishing
    <3>1. /\ DOMAIN y.ui = DOMAIN x.ui
          /\ y.ui.session = x.ui.session /\ y.ui.setup = x.ui.setup /\ y.ui.view = x.ui.view
          /\ y.ui.panel = [p EXCEPT !.index = index]
      BY <2>5 DEF Good, Sound, GoodUi, p
    <3>2. /\ DOMAIN y.ui.panel = DOMAIN p
          /\ y.ui.panel.shown = p.shown /\ y.ui.panel.apps = p.apps /\ y.ui.panel.index = index
      BY <2>1, <3>1 DEF IsPanel
    <3>3. y.ui.sw = [x.ui.sw EXCEPT !.actions = rest, !.dirty = TRUE]
      BY <2>5 DEF Good, Sound, GoodUi
    <3>4. /\ DOMAIN y.ui.sw = DOMAIN x.ui.sw /\ y.ui.sw.actions = rest
          /\ y.ui.sw.pending = x.ui.sw.pending /\ y.ui.sw.finishing = x.ui.sw.finishing
      BY <3>3 DEF Good, Sound, GoodUi
    <3> QED BY <3>1, <3>2, <3>4
  <2>8. IsPanel(y.ui.panel)
    <3>1. index \in Nat /\ (p.apps # <<>> => index \in 0..(Len(p.apps) - 1))
      BY <2>3 DEF index
    <3> QED BY <2>1, <2>6, <3>1 DEF IsPanel
  <2>9. GoodUi(y.ui)
    BY <2>4, <2>6, <2>8 DEF Good, Sound, GoodUi
  <2> QED BY <2>1, <2>5, <2>6, <2>9 DEF Good, Sound, Owned, Landed, p
<1> QED BY <1>2, <1>3

\* Applying the switches that wait keeps the turn sound; if a window lands, the panel is gone.
LEMMA Pumping ==
  ASSUME NEW x, Good(x), NEW granted, NEW y, y = PumpSwitches(x, granted)
  PROVE  /\ Good(y)
         /\ x.ghost.landed = None /\ y.ghost.landed # None => ~y.ui.panel.shown
<1> DEFINE moved == MoveSelection(x)
           wanted == /\ moved.ui.sw.actions # <<>>
                     /\ moved.ui.sw.pending = None \/ moved.ui.sw.pending.refresh
           z == IF ~PermittedNow(x) THEN x
                ELSE IF wanted
                THEN RequestSnapshot(moved, Head(moved.ui.sw.actions).kind, FALSE, granted)
                ELSE moved
           s == IF z.ui.sw.finishing = "Apps" THEN DoSwitchApp(z, granted) ELSE z
<1>1. y = IF ~CanFinish(z.ui.sw) THEN z ELSE CompleteSwitch(s, granted)
  BY DEF PumpSwitches
<1>2. Good(moved) /\ moved.ghost = x.ghost
  <2> HIDE DEF moved
  <2> QED BY MovingTheSelection DEF moved
<1> HIDE DEF moved
<1>3. Good(z) /\ z.ghost.landed = x.ghost.landed
  <2>1. CASE z = x \/ z = moved
    BY <1>2, <2>1
  <2>2. CASE z = RequestSnapshot(moved, Head(moved.ui.sw.actions).kind, FALSE, granted)
    <3>1. PICK kind, refresh : z = RequestSnapshot(moved, kind, refresh, granted)
      BY <2>2
    <3> HIDE DEF z
    <3> QED BY <1>2, <3>1, Requesting
  <2> QED BY <2>1, <2>2
<1> HIDE DEF z
<1>4. Sound(s)
  <2>1. CASE z.ui.sw.finishing = "Apps"
    BY <1>3, <2>1, SwitchingApps
  <2> QED BY <1>3, <2>1 DEF Good
<1> HIDE DEF s
<1>5. CASE ~CanFinish(z.ui.sw)
  BY <1>1, <1>3, <1>5
<1>6. CASE CanFinish(z.ui.sw)
  <2>1. y = CompleteSwitch(s, granted)
    BY <1>1, <1>6
  <2> QED BY <1>4, <2>1, Completing
<1> QED BY <1>5, <1>6

\* What is kept of distinct entries is distinct.
LEMMA KeptDistinct ==
  ASSUME NEW apps \in Seq(Applications), Distinct(apps), NEW T
  PROVE  Keep(apps, T) \in Seq(Applications) /\ Distinct(Keep(apps, T))
<1> DEFINE k == Keep(apps, T)
<1>1. IsInjective(apps)
  BY DEF Distinct, IsInjective
<1>2. k \in Seq(Applications) /\ Range(k) = Range(apps) \cap T /\ IsInjective(k)
  BY <1>1, Keeping
<1> HIDE DEF k
<1>3. ASSUME NEW i \in DOMAIN k, NEW j \in DOMAIN k, k[i].group = k[j].group PROVE i = j
  <2>1. k[i] \in Range(apps) /\ k[j] \in Range(apps)
    BY <1>2 DEF Range
  <2>2. PICK a \in DOMAIN apps, b \in DOMAIN apps : k[i] = apps[a] /\ k[j] = apps[b]
    BY <2>1 DEF Range
  <2>3. k[i] = k[j]
    BY <1>3, <2>2 DEF Distinct
  <2> QED BY <1>2, <2>3 DEF IsInjective
<1> QED BY <1>2, <1>3 DEF Distinct, k

\* So are two lists of distinct entries that share no application.
LEMMA JoinedDistinct ==
  ASSUME NEW a \in Seq(Applications), NEW b \in Seq(Applications), Distinct(a), Distinct(b),
         \A i \in DOMAIN a, j \in DOMAIN b : a[i].group # b[j].group
  PROVE  a \o b \in Seq(Applications) /\ Distinct(a \o b)
<1> DEFINE c == a \o b
<1>1. /\ c \in Seq(Applications) /\ DOMAIN c = 1..(Len(a) + Len(b))
      /\ Len(a) \in Nat /\ Len(b) \in Nat /\ DOMAIN a = 1..Len(a) /\ DOMAIN b = 1..Len(b)
      /\ \A i \in DOMAIN c : c[i] = IF i <= Len(a) THEN a[i] ELSE b[i - Len(a)]
  OBVIOUS
<1> HIDE DEF c
<1>2. \A i \in DOMAIN c : \/ i \in DOMAIN a /\ c[i] = a[i]
                          \/ i - Len(a) \in DOMAIN b /\ i \notin DOMAIN a /\ c[i] = b[i - Len(a)]
  BY <1>1
<1>3. ASSUME NEW i \in DOMAIN c, NEW j \in DOMAIN c, c[i].group = c[j].group PROVE i = j
  <2>1. CASE i \in DOMAIN a /\ j \in DOMAIN a
    BY <1>2, <1>3, <2>1 DEF Distinct
  <2>2. CASE i \notin DOMAIN a /\ j \notin DOMAIN a
    <3>1. i - Len(a) = j - Len(a)
      BY <1>2, <1>3, <2>2 DEF Distinct
    <3> QED BY <1>1, <3>1
  <2>3. CASE (i \in DOMAIN a) # (j \in DOMAIN a)
    BY <1>2, <1>3, <2>3
  <2> QED BY <2>1, <2>2, <2>3
<1> QED BY <1>1, <1>3 DEF Distinct, c

\* An element of a sequence has a position.
LEMMA Positions ==
  ASSUME NEW s, NEW e \in Range(s)
  PROVE  PositionOf(e, s) \in DOMAIN s /\ s[PositionOf(e, s)] = e
BY DEF Range, PositionOf

\* The applications of a snapshot, each with the first of its windows.
LEMMA Firsts ==
  ASSUME NEW x, Sound(x), NEW ids \in Seq(Identities), IsInjective(ids),
         NEW entries, entries = LET firsts == FirstOccurrences(x, ids)
                                IN  [i \in DOMAIN firsts |-> Entry(x, firsts[i])]
  PROVE  entries \in Seq(Applications) /\ Distinct(entries)
<1> DEFINE first == {id \in Range(ids) : \A other \in Range(ids) :
                       GroupOf(x, other) = GroupOf(x, id) =>
                         PositionOf(id, ids) <= PositionOf(other, ids)}
           firsts == FirstOccurrences(x, ids)
<1>1. firsts = Keep(ids, first)
  BY DEF FirstOccurrences
<1>2. firsts \in Seq(Identities) /\ Range(firsts) \subseteq first /\ IsInjective(firsts)
  <2> HIDE DEF first, firsts
  <2> QED BY <1>1, Keeping
<1>3. entries = [i \in DOMAIN firsts |-> Entry(x, firsts[i])]
  OBVIOUS
<1>4. \A id \in Identities : GroupOf(x, id) \in GroupNames
  <2>1. x.ui.setup \in Setups
    BY DEF Sound, GoodUi
  <2> QED BY <2>1 DEF GroupOf, GroupNames, Identities
<1> HIDE DEF firsts
<1>5. \A i \in DOMAIN firsts : Entry(x, firsts[i]) \in Applications
  <2>1. \A i \in DOMAIN firsts : firsts[i] \in Identities
    BY <1>2
  <2> QED BY <1>4, <2>1 DEF Entry, Applications
<1>6. entries \in Seq(Applications)
  BY <1>2, <1>3, <1>5
<1>7. ASSUME NEW i \in DOMAIN firsts, NEW j \in DOMAIN firsts,
             GroupOf(x, firsts[i]) = GroupOf(x, firsts[j])
      PROVE  i = j
  <2>1. firsts[i] \in first /\ firsts[j] \in first
    BY <1>2 DEF Range
  <2>2. /\ PositionOf(firsts[i], ids) <= PositionOf(firsts[j], ids)
        /\ PositionOf(firsts[j], ids) <= PositionOf(firsts[i], ids)
    BY <1>7, <2>1
  <2>3. /\ PositionOf(firsts[i], ids) \in DOMAIN ids /\ ids[PositionOf(firsts[i], ids)] = firsts[i]
        /\ PositionOf(firsts[j], ids) \in DOMAIN ids /\ ids[PositionOf(firsts[j], ids)] = firsts[j]
    BY <2>1, Positions
  <2>4. PositionOf(firsts[i], ids) \in Nat /\ PositionOf(firsts[j], ids) \in Nat
    BY <2>3
  <2>5. firsts[i] = firsts[j]
    BY <2>2, <2>3, <2>4
  <2> QED BY <1>2, <2>5 DEF IsInjective
<1>8. \A i \in DOMAIN firsts : entries[i].group = GroupOf(x, firsts[i])
  BY <1>3 DEF Entry
<1>9. Distinct(entries)
  <2>1. DOMAIN entries = DOMAIN firsts
    BY <1>3
  <2> QED BY <1>7, <1>8, <2>1 DEF Distinct
<1> QED BY <1>6, <1>9

\* The entries of a new panel are distinct applications whatever the order asked for.
LEMMA Ordering ==
  ASSUME NEW x, Sound(x), NEW ids \in Seq(Identities), IsInjective(ids),
         NEW apps, apps = OrderedApps(x, ids)
  PROVE  apps \in Seq(Applications) /\ Distinct(apps)
<1> DEFINE entries == LET firsts == FirstOccurrences(x, ids)
                      IN  [i \in DOMAIN firsts |-> Entry(x, firsts[i])]
           Known(g) == \E e \in Range(entries) : e.group = g
           Old == IF x.ui.panel.shown THEN x.ui.panel.apps ELSE <<>>
           known == {o \in Range(Old) : Known(o.group)}
           new == {e \in Range(entries) : \A o \in Range(Old) : o.group # e.group}
           kept == Keep(Old, known)
           a == [i \in DOMAIN kept |-> CHOOSE e \in Range(entries) : e.group = kept[i].group]
           b == Keep(entries, new)
<1>1. apps = a \o b
  BY DEF OrderedApps
<1>2. entries \in Seq(Applications) /\ Distinct(entries)
  <2> HIDE DEF entries
  <2> QED BY Firsts DEF entries
<1> HIDE DEF entries
<1>3. Old \in Seq(Applications) /\ Distinct(Old)
  <2>1. <<>> \in Seq(Applications) /\ Distinct(<<>>)
    BY EmptyDomain DEF Distinct
  <2> QED BY <2>1 DEF Sound, GoodUi, IsPanel
<1> HIDE DEF Old
<1>4. /\ kept \in Seq(Applications) /\ Distinct(kept) /\ Range(kept) \subseteq known
      /\ b \in Seq(Applications) /\ Distinct(b) /\ Range(b) \subseteq new
  <2> HIDE DEF known, new
  <2> QED BY <1>2, <1>3, KeptDistinct, Keeping
<1> HIDE DEF kept, b
<1>5. ASSUME NEW i \in DOMAIN kept
      PROVE  a[i] \in Applications /\ a[i].group = kept[i].group /\ kept[i] \in Range(Old)
  <2>1. kept[i] \in known
    BY <1>4 DEF Range
  <2>2. \E e \in Range(entries) : e.group = kept[i].group
    BY <2>1
  <2>3. a[i] \in Range(entries) /\ a[i].group = kept[i].group
    BY <2>2
  <2>4. Range(entries) \subseteq Applications
    BY <1>2 DEF Range
  <2> QED BY <2>1, <2>3, <2>4
<1>6. DOMAIN a = DOMAIN kept /\ a = [i \in DOMAIN kept |-> a[i]]
  OBVIOUS
<1> HIDE DEF a
<1>7. a \in Seq(Applications)
  BY <1>4, <1>5, <1>6
<1>8. Distinct(a)
  BY <1>4, <1>5, <1>6 DEF Distinct
<1>9. ASSUME NEW i \in DOMAIN a, NEW j \in DOMAIN b PROVE a[i].group # b[j].group
  <2>1. b[j] \in new
    BY <1>4 DEF Range
  <2> QED BY <1>5, <1>6, <2>1
<1> QED BY <1>1, <1>4, <1>7, <1>8, <1>9, JoinedDistinct

\* The index of a new panel is one of its entries.
LEMMA Selecting ==
  ASSUME NEW x, Sound(x), NEW ids, NEW apps \in Seq(Applications)
  PROVE  /\ SelectedIndex(x, ids, apps) \in Nat
         /\ apps # <<>> => SelectedIndex(x, ids, apps) \in 0..(Len(apps) - 1)
<1> DEFINE group == SelectedGroup(x, ids)
           old == IF x.ui.panel.shown THEN x.ui.panel.index ELSE 0
<1>1. old \in Nat
  BY DEF Sound, GoodUi, IsPanel
<1>2. Len(apps) \in Nat /\ DOMAIN apps = 1..Len(apps) /\ (apps # <<>> => Len(apps) # 0)
  OBVIOUS
<1> HIDE DEF old, group
<1>3. SelectedIndex(x, ids, apps) =
        IF \E i \in DOMAIN apps : apps[i].group = group
        THEN (CHOOSE i \in DOMAIN apps : apps[i].group = group) - 1
        ELSE IF Len(apps) = 0 THEN 0
        ELSE IF old < Len(apps) THEN old ELSE Len(apps) - 1
  BY DEF SelectedIndex, old, group
<1>4. CASE \E i \in DOMAIN apps : apps[i].group = group
  <2> DEFINE i == CHOOSE i \in DOMAIN apps : apps[i].group = group
  <2>1. i \in DOMAIN apps
    BY <1>4
  <2>2. SelectedIndex(x, ids, apps) = i - 1
    BY <1>3, <1>4
  <2> HIDE DEF i
  <2> QED BY <1>2, <2>1, <2>2
<1>5. CASE ~\E i \in DOMAIN apps : apps[i].group = group
  BY <1>1, <1>2, <1>3, <1>5
<1> QED BY <1>4, <1>5

\* A step of the view or of the painting leaves the rest as it stands.
LEMMA SameStanding ==
  ASSUME NEW x, Good(x), NEW y, DOMAIN y = TurnFields, y.desk = x.desk, y.mail = x.mail,
         y.input = x.input, y.ghost = x.ghost, GoodUi(y.ui), y.ui.session = x.ui.session,
         y.ui.sw.pending = x.ui.sw.pending, y.ui.panel.shown => x.ui.panel.shown
  PROVE  Good(y)
BY DEF Good, Sound, Owned, Landed

\* What the details are told of a new panel touches neither desktop nor ghost.
LEMMA Syncing ==
  ASSUME NEW x, Good(x), NEW y, y = SyncDetails(x)
  PROVE  Good(y) /\ y.ghost = x.ghost /\ y.desk = x.desk
<1>1. CASE x.ui.view.kind # "details"
  BY <1>1 DEF SyncDetails
<1>2. CASE x.ui.view.kind = "details"
  <2>1. PICK rows, event : y = [x EXCEPT !.ui.view.rows = rows, !.ui.view.event = event]
    BY <1>2 DEF SyncDetails
  <2>2. /\ DOMAIN y = TurnFields /\ y.desk = x.desk /\ y.mail = x.mail /\ y.input = x.input
        /\ y.ghost = x.ghost /\ y.ui = [x.ui EXCEPT !.view.rows = rows, !.view.event = event]
    BY <2>1 DEF TurnFields, Good, Sound
  <2>3. /\ DOMAIN y.ui = DOMAIN x.ui /\ y.ui.sw = x.ui.sw /\ y.ui.panel = x.ui.panel
        /\ y.ui.session = x.ui.session /\ y.ui.setup = x.ui.setup
        /\ y.ui.view = [x.ui.view EXCEPT !.rows = rows, !.event = event]
    BY <2>2 DEF Good, Sound, GoodUi
  <2>4. "kind" \in DOMAIN y.ui.view /\ y.ui.view.kind = x.ui.view.kind
    BY <2>3 DEF Good, Sound, GoodUi
  <2>5. GoodUi(y.ui)
    BY <2>3, <2>4 DEF Good, Sound, GoodUi
  <2> QED BY <2>2, <2>3, <2>5, SameStanding
<1> QED BY <1>1, <1>2

\* A panel built by an answer belongs to the session that asked.
LEMMA ShowingApps ==
  ASSUME NEW x, Good(x), PermittedNow(x), x.mail.for = x.ui.session,
         NEW ids \in Seq(Identities), IsInjective(ids), NEW granted,
         NEW y, y = ApplyAppSnapshot(x, ids, granted)
  PROVE  Good(y) /\ y.ghost.landed = x.ghost.landed
<1> DEFINE old == x.ui.panel
           apps == OrderedApps(x, ids)
           index == SelectedIndex(x, ids, apps)
           panel == [shown |-> TRUE, apps |-> apps, index |-> index, ids |-> ids]
           ghosted == IF old.shown
                      THEN [x.ghost EXCEPT !.settled = @ /\ Groups(apps) = Groups(old.apps)]
                      ELSE [x.ghost EXCEPT !.owner = x.mail.for, !.settled = TRUE,
                              !.aim = index + NetMoves(x.ui.sw.actions)]
           c == [x EXCEPT !.ui.panel = NoPanel]
           s == [x EXCEPT !.ui.panel = panel, !.ui.sw.dirty = TRUE, !.ghost = ghosted]
<1>1. CASE apps = <<>> /\ x.ui.view.kind # "details"
  <2>1. y = CompleteSwitch(c, granted)
    BY <1>1 DEF ApplyAppSnapshot
  <2>2. /\ DOMAIN c = TurnFields /\ c.ui = [x.ui EXCEPT !.panel = NoPanel]
        /\ c.desk = x.desk /\ c.mail = x.mail /\ c.input = x.input /\ c.ghost = x.ghost
    BY DEF TurnFields, Good, Sound
  <2> HIDE DEF c
  <2>3. GoodUi(c.ui)
    BY <2>2 DEF Good, Sound, GoodUi, NoPanel
  <2>4. Sound(c)
    BY <2>2, <2>3 DEF Good, Sound, Landed
  <2> QED BY <2>1, <2>2, <2>4, Completing
<1>2. CASE ~(apps = <<>> /\ x.ui.view.kind # "details")
  <2>1. y = SyncDetails(s)
    BY <1>2 DEF ApplyAppSnapshot
  <2>2. apps \in Seq(Applications) /\ Distinct(apps)
    BY Ordering DEF Good
  <2> HIDE DEF apps
  <2>3. index \in Nat /\ (apps # <<>> => index \in 0..(Len(apps) - 1))
    BY <2>2, Selecting DEF Good
  <2> HIDE DEF index
  <2>4. IsPanel(panel) /\ panel.shown
    BY <2>2, <2>3 DEF IsPanel
  <2>5. /\ DOMAIN ghosted = GhostFields /\ ghosted.landed = x.ghost.landed
        /\ ghosted.owner = IF old.shown THEN x.ghost.owner ELSE x.mail.for
    BY DEF Good, Sound, GhostFields
  <2> HIDE DEF panel, ghosted
  <2>6. /\ DOMAIN s = TurnFields /\ s.ui = [x.ui EXCEPT !.panel = panel, !.sw.dirty = TRUE]
        /\ s.desk = x.desk /\ s.mail = x.mail /\ s.input = x.input /\ s.ghost = ghosted
    BY DEF TurnFields, Good, Sound
  <2> HIDE DEF s
  <2>7. /\ GoodUi(s.ui) /\ s.ui.panel = panel /\ s.ui.session = x.ui.session
        /\ s.ui.sw.pending = x.ui.sw.pending
    BY <2>4, <2>6 DEF Good, Sound, GoodUi
  <2>8. Sound(s)
    BY <2>5, <2>6, <2>7 DEF Good, Sound, Landed
  <2>9. x.ui.session # 0
    BY DEF Good, Sound, GoodUi, GoodInput, PermittedNow, Permits
  <2>10. Owned(s)
    BY <2>5, <2>6, <2>7, <2>9 DEF Good, Owned
  <2> HIDE DEF old
  <2> QED BY <2>1, <2>5, <2>6, <2>8, <2>10, Syncing DEF Good
<1> QED BY <1>1, <1>2

\* A step to the next window of an application keeps the turn sound.
LEMMA CyclingWindows ==
  ASSUME NEW x, Good(x), NEW ids, NEW anchor, NEW reverse, NEW granted,
         NEW y, y = CycleWindows(x, ids, anchor, reverse, granted)
  PROVE  Good(y)
<1> DEFINE fresh == GroupWindows(x, ids, anchor)
           plan == CyclePlan(x, fresh, anchor, reverse)
           target == plan.ordered[plan.index + 1]
           allowed == PermittedNow(x) /\ IsCurrent(x.desk, target)
           a == Activate(x, target, allowed, granted)
<1>1. CASE Len(fresh) < 2
  BY <1>1 DEF CycleWindows
<1>2. CASE ~(Len(fresh) < 2)
  <2>1. allowed => IsCurrent(x.desk, target)
    OBVIOUS
  <2> HIDE DEF target, allowed
  <2>3. /\ Sound(a) /\ a.ui = x.ui /\ a.mail = x.mail /\ a.input = x.input
        /\ a.ghost.owner = x.ghost.owner
    <3> HIDE DEF a
    <3> QED BY <2>1, Activating DEF Good, a
  <2> HIDE DEF a
  <2>4. Good(a)
    BY <2>3 DEF Good, Owned
  <2>5. CASE ~Activated(allowed, granted)
    <3>1. y = a
      BY <1>2, <2>5 DEF CycleWindows, a, allowed, target
    <3> QED BY <2>4, <3>1
  <2>6. CASE Activated(allowed, granted)
    <3> DEFINE walked == IF x.ghost.walk = <<GroupOf(x, target), reverse>>
                         THEN x.ghost.visited ELSE {}
               cache == [group |-> GroupOf(x, target), anchor |-> plan.anchor,
                         index |-> plan.index, ordered |-> plan.ordered]
               walk == <<GroupOf(x, target), reverse>>
               repeated == target \in walked /\ Range(fresh) \ walked # {}
               visited == IF Range(fresh) \subseteq walked THEN {target}
                          ELSE walked \cup {target}
    <3>1. y = [a EXCEPT !.ui.cache = cache, !.ui.released = FALSE, !.ghost.walk = walk,
                        !.ghost.repeated = repeated, !.ghost.visited = visited]
      BY <1>2, <2>6 DEF CycleWindows, a, allowed, target
    <3> HIDE DEF cache, walk, repeated, visited
    <3>2. /\ DOMAIN y = TurnFields /\ y.ui = [a.ui EXCEPT !.cache = cache, !.released = FALSE]
          /\ y.desk = a.desk /\ y.mail = a.mail /\ y.input = a.input
          /\ y.ghost = [a.ghost EXCEPT !.walk = walk, !.repeated = repeated, !.visited = visited]
      BY <2>4, <3>1 DEF TurnFields, Good, Sound
    <3>3. /\ GoodUi(y.ui) /\ y.ui.session = a.ui.session /\ y.ui.panel = a.ui.panel
          /\ y.ui.sw = a.ui.sw
      BY <2>4, <3>2 DEF Good, Sound, GoodUi
    <3>4. /\ DOMAIN y.ghost = GhostFields /\ y.ghost.landed = a.ghost.landed
          /\ y.ghost.owner = a.ghost.owner
      BY <2>4, <3>2 DEF Good, Sound, GhostFields
    <3> QED BY <2>4, <3>2, <3>3, <3>4 DEF Good, Sound, Owned, Landed
  <2> QED BY <2>5, <2>6
<1> QED BY <1>1, <1>2

\* Any number of steps do.
LEMMA WalkingWindows ==
  ASSUME NEW x, Good(x), NEW ids, NEW anchor, NEW granted,
         NEW y, y = WindowCycles(x, ids, anchor, granted)
  PROVE  Good(y)
<1> DEFINE actions == x.ui.sw.actions
           n == LeadingCount(x.ui.sw.actions, "Windows")
           start == [x EXCEPT !.ui.sw.actions = SubSeq(x.ui.sw.actions, n + 1, Len(x.ui.sw.actions))]
           Step(f, i) == IF i = 0 THEN start
                         ELSE CycleWindows(f[i - 1], ids, anchor, x.ui.sw.actions[i].reverse, granted)
           Exists(m) == \E f : f = [i \in 0..m |-> Step(f, i)]
           walked[i \in 0..n] ==
             IF i = 0 THEN start
             ELSE CycleWindows(walked[i - 1], ids, anchor, x.ui.sw.actions[i].reverse, granted)
<1>1. y = walked[n]
  BY DEF WindowCycles
<1>2. n \in Nat /\ SubSeq(actions, n + 1, Len(actions)) \in Seq(Cycles)
  <2>1. actions \in Seq(Cycles)
    BY DEF Good, Sound, GoodUi
  <2>2. n \in 0..Len(actions)
    BY <2>1, Leading
  <2> HIDE DEF n, actions
  <2> QED BY <2>1, <2>2
<1>3. Good(start)
  <2> DEFINE rest == SubSeq(actions, n + 1, Len(actions))
  <2> HIDE DEF rest, n
  <2>1. /\ DOMAIN start = TurnFields /\ start.desk = x.desk /\ start.mail = x.mail
        /\ start.input = x.input /\ start.ghost = x.ghost
        /\ start.ui = [x.ui EXCEPT !.sw.actions = rest]
    BY DEF TurnFields, Good, Sound, rest
  <2> HIDE DEF start
  <2>2. /\ GoodUi(start.ui) /\ start.ui.session = x.ui.session
        /\ start.ui.sw.pending = x.ui.sw.pending /\ start.ui.panel = x.ui.panel
    BY <1>2, <2>1 DEF Good, Sound, GoodUi, rest
  <2> QED BY <2>1, <2>2, SameStanding
<1> HIDE DEF n, start
<1>4. \A m \in 0..n : Exists(m)
  <2> DEFINE Bad == {m \in Nat : m <= n /\ ~Exists(m)}
  <2> HIDE DEF Exists
  <2>1. SUFFICES ASSUME Bad # {} PROVE FALSE
    BY <1>2
  <2>2. PICK m \in Bad : \A o \in Bad : m <= o
    BY <2>1, Least
  <2>3. CASE m = 0
    <3> DEFINE g == [i \in 0..0 |-> start]
    <3>1. g = [i \in 0..0 |-> Step(g, i)]
      OBVIOUS
    <3> QED BY <2>2, <2>3, <3>1 DEF Exists
  <2>4. CASE m # 0
    <3>1. m - 1 \in Nat /\ m - 1 \notin Bad /\ m - 1 <= n /\ m \in Nat
      BY <1>2, <2>2, <2>4
    <3>2. PICK f : f = [i \in 0..(m - 1) |-> Step(f, i)]
      BY <3>1 DEF Exists
    <3> DEFINE g == [i \in 0..m |-> IF i = m THEN Step(f, m) ELSE f[i]]
    <3>3. ASSUME NEW i \in 0..m PROVE g[i] = Step(g, i)
      <4>1. CASE i = m
        <5>1. g[i] = Step(f, m) /\ g[m - 1] = f[m - 1]
          BY <3>1, <4>1
        <5> QED BY <2>4, <4>1, <5>1
      <4>2. CASE i # m
        <5>1. i \in 0..(m - 1) /\ g[i] = f[i] /\ (i # 0 => g[i - 1] = f[i - 1])
          BY <3>1, <4>2
        <5>2. f[i] = Step(f, i)
          BY <3>2, <5>1
        <5> QED BY <5>1, <5>2
      <4> QED BY <4>1, <4>2
    <3>4. g = [i \in 0..m |-> Step(g, i)]
      <4> HIDE DEF Step
      <4> QED BY <3>3
    <3> QED BY <2>2, <3>4 DEF Exists
  <2> QED BY <2>3, <2>4
<1>5. walked = [i \in 0..n |-> Step(walked, i)]
  <2>1. \E f : f = [i \in 0..n |-> Step(f, i)]
    <3>1. Exists(n)
      <4> HIDE DEF Exists
      <4> QED BY <1>2, <1>4
    <3> QED BY <3>1
  <2> QED BY <2>1
<1> HIDE DEF walked
<1>6. ASSUME NEW i \in 0..n PROVE walked[i] = Step(walked, i)
  <2> HIDE DEF Step
  <2> QED BY <1>5
<1>7. \A i \in 0..n : Good(walked[i])
  <2> DEFINE Bad == {i \in Nat : i <= n /\ ~Good(walked[i])}
  <2>1. SUFFICES ASSUME Bad # {} PROVE FALSE
    BY <1>2
  <2>2. PICK i \in Bad : \A o \in Bad : i <= o
    BY <2>1, Least
  <2>3. i \in 0..n /\ i # 0
    BY <1>2, <1>3, <1>6, <2>2
  <2>4. i - 1 \in 0..n /\ Good(walked[i - 1])
    BY <1>2, <2>2, <2>3
  <2>5. PICK reverse : walked[i] = CycleWindows(walked[i - 1], ids, anchor, reverse, granted)
    BY <1>6, <2>3
  <2>6. Good(walked[i])
    BY <2>4, <2>5, CyclingWindows
  <2> QED BY <2>2, <2>6
<1> QED BY <1>1, <1>2, <1>7

\* An answer that is no error keeps the turn sound.
LEMMA Answering ==
  ASSUME NEW x, Good(x), Answered(x), x.mail.answer.ids # None, NEW granted,
         NEW y, y = ApplyAnswer(x, granted)
  PROVE  Good(y)
<1> DEFINE ids == x.mail.answer.ids
           pending == x.ui.sw.pending
           z == [x EXCEPT !.ui.sw.pending = None, !.mail.answer = None]
<1>1. ids \in Seq(Identities) /\ IsInjective(ids) /\ PermittedNow(x) /\ pending # None
  BY DEF Good, Sound, GoodMail, Answered
<1> HIDE DEF ids
<1>2. /\ DOMAIN z = TurnFields /\ z.ui = [x.ui EXCEPT !.sw.pending = None]
      /\ z.mail = [x.mail EXCEPT !.answer = None]
      /\ z.desk = x.desk /\ z.input = x.input /\ z.ghost = x.ghost
  BY DEF TurnFields, Good, Sound
<1> HIDE DEF z
<1>3. GoodUi(z.ui) /\ z.ui.session = x.ui.session /\ z.ui.sw.pending = None /\ z.ui.panel = x.ui.panel
  BY <1>2 DEF Good, Sound, GoodUi
<1>4. GoodMail(z.mail) /\ z.mail.for = x.ui.session
  BY <1>1, <1>2 DEF Good, Sound, GoodMail, Owned
<1>5. Good(z)
  BY <1>2, <1>3, <1>4 DEF Good, Sound, Owned, Landed
<1>6. CASE pending.kind = "Apps"
  <2>1. y = ApplyAppSnapshot(z, ids, granted)
    BY <1>6 DEF ApplyAnswer, z, ids
  <2>2. PermittedNow(z) /\ z.mail.for = z.ui.session
    BY <1>1, <1>2, <1>3, <1>4 DEF PermittedNow
  <2> QED BY <1>1, <1>5, <2>1, <2>2, ShowingApps
<1>7. CASE pending.kind = "Windows"
  <2>1. y = WindowCycles(z, ids, pending.anchor, granted)
    BY <1>7 DEF ApplyAnswer, z, ids
  <2> HIDE DEF pending
  <2> QED BY <1>5, <2>1, WalkingWindows
<1>8. CASE pending.kind \notin {"Apps", "Windows"}
  <2>1. y = z \/ y = [z EXCEPT !.ui.view.next = ids]
    BY <1>8 DEF ApplyAnswer, z, ids
  <2>2. CASE y = [z EXCEPT !.ui.view.next = ids]
    <3>1. /\ DOMAIN y = TurnFields /\ y.desk = z.desk /\ y.mail = z.mail /\ y.input = z.input
          /\ y.ghost = z.ghost /\ y.ui = [z.ui EXCEPT !.view.next = ids]
      BY <1>5, <2>2 DEF TurnFields, Good, Sound
    <3>2. /\ GoodUi(y.ui) /\ y.ui.session = z.ui.session /\ y.ui.sw = z.ui.sw
          /\ y.ui.panel = z.ui.panel
      BY <1>5, <3>1 DEF Good, Sound, GoodUi
    <3> QED BY <1>5, <3>1, <3>2, SameStanding
  <2> QED BY <1>5, <2>1, <2>2
<1> QED BY <1>6, <1>7, <1>8

\* So does looking for one, which may not be there or may be late.
LEMMA Polling ==
  ASSUME NEW x, Good(x), Answered(x) => x.mail.answer.ids # None, NEW due, NEW granted,
         NEW y, y = PollSwitching(x, due, granted)
  PROVE  Good(y)
<1> DEFINE dropped == [x EXCEPT !.mail.answer = None]
           z == IF Answered(x) THEN ApplyAnswer(x, granted) ELSE dropped
<1>1. y = IF due /\ MayRefresh(z) THEN Refreshed(z, granted) ELSE z
  BY DEF PollSwitching
<1>2. Good(z)
  <2>1. CASE Answered(x)
    <3>1. z = ApplyAnswer(x, granted)
      BY <2>1
    <3> HIDE DEF z
    <3> QED BY <2>1, <3>1, Answering
  <2>2. CASE ~Answered(x)
    <3>1. z = dropped
      BY <2>2
    <3>2. /\ DOMAIN z = TurnFields /\ z.ui = x.ui /\ z.mail = [x.mail EXCEPT !.answer = None]
          /\ z.desk = x.desk /\ z.input = x.input /\ z.ghost = x.ghost
      BY <3>1 DEF TurnFields, Good, Sound
    <3> HIDE DEF z
    <3>3. GoodMail(z.mail) /\ z.mail.for = x.mail.for
      BY <3>2 DEF Good, Sound, GoodMail
    <3> QED BY <3>2, <3>3 DEF Good, Sound, Owned, Landed
  <2> QED BY <2>1, <2>2
<1> HIDE DEF z
<1>3. CASE y = z
  BY <1>2, <1>3
<1>4. CASE y = Refreshed(z, granted)
  <2>1. PICK kind, refresh : y = RequestSnapshot(z, kind, refresh, granted)
    BY <1>4 DEF Refreshed
  <2> QED BY <1>2, <2>1, Requesting
<1> QED BY <1>1, <1>3, <1>4

\* A surface of this program takes the foreground when no window was chosen.
LEMMA FrontingASurface ==
  ASSUME NEW x, Good(x), x.ghost.landed = None, NEW surface, NEW y,
         y = [x EXCEPT !.desk.fg = surface]
  PROVE  Good(y) /\ y.ui = x.ui /\ y.ghost = x.ghost
<1>1. /\ DOMAIN y = TurnFields /\ y.ui = x.ui /\ y.mail = x.mail /\ y.input = x.input
      /\ y.ghost = x.ghost /\ y.desk = [x.desk EXCEPT !.fg = surface]
  BY DEF TurnFields, Good, Sound
<1>2. GoodDesk(y.desk)
  BY <1>1 DEF Good, Sound, GoodDesk
<1> QED BY <1>1, <1>2 DEF Good, Sound, Owned, Landed

\* The search takes the place of the panel, asks for the session, or fails it.
LEMMA StartingSearch ==
  ASSUME NEW x, Good(x), x.ghost.landed = None, NEW granted, NEW y, y = StartSearch(x, granted)
  PROVE  Good(y)
<1> DEFINE active == x.ui.view.kind = "search"
           view == [kind |-> "search", rows |-> <<>>, ready |-> FALSE, next |-> None, event |-> None]
           h == HideApps(x)
           opened == [h EXCEPT !.ui.view = view]
           base == IF active THEN x ELSE opened
           z == [base EXCEPT !.desk.fg = "search"]
<1>1. CASE ~granted
  <2>1. y = Fail(x, x.ui.session, granted) /\ x.ui.session \in Nat /\ Sound(x)
    BY <1>1 DEF StartSearch, Good, Sound, GoodUi
  <2> QED BY <2>1, Failing
<1>2. CASE granted
  <2>1. y = IF active THEN z ELSE RequestSnapshot(z, "Search", FALSE, granted)
    BY <1>2 DEF StartSearch
  <2>2. /\ Sound(h) /\ h.ui.panel = NoPanel /\ h.ui.session = x.ui.session
        /\ h.ui.sw.pending = x.ui.sw.pending /\ h.mail = x.mail
        /\ h.ghost.landed = x.ghost.landed
    <3> HIDE DEF h
    <3> QED BY HidingApps DEF h, Good
  <2> HIDE DEF h
  <2>3. /\ DOMAIN opened = TurnFields /\ opened.ui = [h.ui EXCEPT !.view = view]
        /\ opened.desk = h.desk /\ opened.mail = h.mail /\ opened.input = h.input
        /\ opened.ghost = h.ghost
    BY <2>2 DEF TurnFields, Sound
  <2> HIDE DEF opened
  <2>4. /\ GoodUi(opened.ui) /\ opened.ui.session = h.ui.session
        /\ opened.ui.sw = h.ui.sw /\ opened.ui.panel = h.ui.panel
    BY <2>2, <2>3 DEF Sound, GoodUi
  <2>5. Good(opened) /\ opened.ghost.landed = None
    BY <2>2, <2>3, <2>4 DEF Good, Sound, Owned, Landed, NoPanel
  <2>6. Good(base) /\ base.ghost.landed = None
    BY <2>5
  <2> HIDE DEF base
  <2>7. Good(z)
    <3>1. z = [base EXCEPT !.desk.fg = "search"]
      OBVIOUS
    <3> DEFINE surface == "search"
    <3> HIDE DEF surface
    <3>2. z = [base EXCEPT !.desk.fg = surface]
      BY <3>1 DEF surface
    <3> HIDE DEF z
    <3> QED BY <2>6, <3>2, FrontingASurface
  <2> HIDE DEF z
  <2>8. CASE y = z
    BY <2>7, <2>8
  <2>9. CASE y = RequestSnapshot(z, "Search", FALSE, granted)
    <3>1. PICK kind, refresh : y = RequestSnapshot(z, kind, refresh, granted)
      BY <2>9
    <3> QED BY <2>7, <3>1, Requesting
  <2> QED BY <2>1, <2>8, <2>9
<1> QED BY <1>1, <1>2

\* The details are shown over the panel, or the session fails.
LEMMA OpeningDetails ==
  ASSUME NEW x, Good(x), NEW granted, NEW y, y = OpenDetails(x, granted)
  PROVE  Good(y)
<1> DEFINE refused == \/ ~x.ui.setup.details \/ x.desk.fg # "panel" \/ x.ui.view.kind = "details"
                      \/ ~x.ui.sw.painted
                      \/ ~x.ui.panel.shown \/ x.ui.panel.apps = <<>>
           group == Selected(x.ui.panel).group
           view == [kind |-> "details", group |-> group, event |-> None,
                    rows |-> GroupRows(x, x.ui.panel.ids, group)]
           z == [x EXCEPT !.ui.view = view, !.ui.surface = "Details", !.ui.sw.sticky = TRUE,
                          !.ui.show = FALSE]
<1>1. CASE refused
  BY <1>1 DEF OpenDetails
<1>2. CASE ~refused /\ ~granted
  <2>1. y = Fail(x, x.ui.session, granted) /\ x.ui.session \in Nat /\ Sound(x)
    BY <1>2 DEF OpenDetails, Good, Sound, GoodUi
  <2> QED BY <2>1, Failing
<1>3. CASE ~refused /\ granted
  <2>1. x.ghost.landed = None
    BY <1>3, LandedIsAWindow, Surfacing DEF Good
  <2>2. y = [x EXCEPT !.ui.view = view, !.ui.surface = "Details", !.ui.sw.sticky = TRUE,
                      !.ui.show = FALSE, !.desk.fg = "details"]
    BY <1>3 DEF OpenDetails
  <2>3. view.kind = "details" /\ "kind" \in DOMAIN view
    OBVIOUS
  <2> HIDE DEF view
  <2>4. /\ DOMAIN y = TurnFields /\ y.mail = x.mail /\ y.input = x.input /\ y.ghost = x.ghost
        /\ y.desk = [x.desk EXCEPT !.fg = "details"]
        /\ DOMAIN y.ui = DOMAIN x.ui /\ y.ui.view = view /\ y.ui.session = x.ui.session
        /\ y.ui.panel = x.ui.panel /\ y.ui.setup = x.ui.setup
        /\ DOMAIN y.ui.sw = DOMAIN x.ui.sw /\ y.ui.sw.actions = x.ui.sw.actions
        /\ y.ui.sw.pending = x.ui.sw.pending
    <3>1. DOMAIN y = TurnFields /\ y.mail = x.mail /\ y.input = x.input /\ y.ghost = x.ghost
      BY <2>2 DEF TurnFields, Good, Sound
    <3>2. y.desk = [x.desk EXCEPT !.fg = "details"]
      BY <2>2 DEF TurnFields, Good, Sound
    <3>3. y = [z EXCEPT !.desk.fg = "details"]
      BY <2>2 DEF z
    <3>4. DOMAIN z = TurnFields /\ z.ui =
            [x.ui EXCEPT !.view = view, !.surface = "Details", !.sw.sticky = TRUE, !.show = FALSE]
      BY DEF TurnFields, Good, Sound, z
    <3> HIDE DEF z
    <3>5. y.ui = z.ui
      BY <3>3, <3>4 DEF TurnFields
    <3>6. /\ DOMAIN y.ui = DOMAIN x.ui /\ y.ui.view = view /\ y.ui.session = x.ui.session
          /\ y.ui.panel = x.ui.panel /\ y.ui.setup = x.ui.setup
      BY <3>4, <3>5 DEF Good, Sound, GoodUi
    <3>7. /\ DOMAIN y.ui.sw = DOMAIN x.ui.sw /\ y.ui.sw.actions = x.ui.sw.actions
          /\ y.ui.sw.pending = x.ui.sw.pending
      BY <3>4, <3>5 DEF Good, Sound, GoodUi
    <3> QED BY <3>1, <3>2, <3>6, <3>7
  <2>5. /\ GoodUi(y.ui) /\ y.ui.session = x.ui.session /\ y.ui.panel = x.ui.panel
        /\ y.ui.sw.pending = x.ui.sw.pending
    BY <2>3, <2>4 DEF Good, Sound, GoodUi
  <2>6. GoodDesk(y.desk)
    BY <2>4 DEF Good, Sound, GoodDesk
  <2> QED BY <2>1, <2>4, <2>5, <2>6 DEF Good, Sound, Owned, Landed
<1> QED BY <1>1, <1>2, <1>3

\* The panel is painted, and takes the foreground only where no window has landed.
LEMMA Flushing ==
  ASSUME NEW x, Good(x), x.ghost.landed # None => ~x.ui.panel.shown, NEW granted,
         NEW y, y = FlushPanel(x, granted)
  PROVE  Good(y)
<1> DEFINE quiet == \/ x.ui.view.kind = "details" \/ x.ui.sw.finishing # None
                    \/ ~PermittedNow(x) \/ ~x.ui.panel.shown
           z == [x EXCEPT !.ui.surface = "Panel"]
<1>1. CASE quiet
  BY <1>1 DEF FlushPanel
<1>2. CASE ~quiet
  <2>1. x.ghost.landed = None
    BY <1>2
  <2>2. /\ DOMAIN z = TurnFields /\ z.mail = x.mail /\ z.input = x.input /\ z.ghost = x.ghost
        /\ z.desk = x.desk /\ z.ui = [x.ui EXCEPT !.surface = "Panel"]
    BY DEF TurnFields, Good, Sound
  <2>3. y = IF ~x.ui.sw.dirty THEN z
            ELSE [z EXCEPT !.ui.sw.dirty = FALSE, !.ui.sw.painted = TRUE, !.ui.show = TRUE,
                           !.desk.fg = IF granted /\ ~x.ui.show THEN "panel" ELSE @]
    BY <1>2 DEF FlushPanel
  <2> HIDE DEF z
  <2>4. /\ GoodUi(z.ui) /\ z.ui.session = x.ui.session /\ z.ui.panel = x.ui.panel
        /\ z.ui.sw = x.ui.sw
    BY <2>2 DEF Good, Sound, GoodUi
  <2>5. Good(z) /\ z.ghost.landed = None
    BY <2>1, <2>2, <2>4, SameStanding
  <2>6. CASE ~x.ui.sw.dirty
    BY <2>3, <2>5, <2>6
  <2>7. CASE x.ui.sw.dirty
    <3>1. PICK fg : y = [z EXCEPT !.ui.sw.dirty = FALSE, !.ui.sw.painted = TRUE, !.ui.show = TRUE,
                                  !.desk.fg = fg]
      BY <2>3, <2>7
    <3>2. /\ DOMAIN y = TurnFields /\ y.mail = z.mail /\ y.input = z.input /\ y.ghost = z.ghost
          /\ y.desk = [z.desk EXCEPT !.fg = fg]
          /\ y.ui = [z.ui EXCEPT !.sw.dirty = FALSE, !.sw.painted = TRUE, !.show = TRUE]
      BY <2>5, <3>1 DEF TurnFields, Good, Sound
    <3>3. /\ GoodUi(y.ui) /\ y.ui.session = z.ui.session /\ y.ui.panel = z.ui.panel
          /\ y.ui.sw.pending = z.ui.sw.pending
      <4>1. /\ DOMAIN y.ui = DOMAIN z.ui /\ y.ui.session = z.ui.session
            /\ y.ui.panel = z.ui.panel /\ y.ui.view = z.ui.view /\ y.ui.setup = z.ui.setup
            /\ y.ui.sw = [z.ui.sw EXCEPT !.dirty = FALSE, !.painted = TRUE]
        BY <2>5, <3>2 DEF Good, Sound, GoodUi
      <4>2. /\ DOMAIN y.ui.sw = DOMAIN z.ui.sw /\ y.ui.sw.actions = z.ui.sw.actions
            /\ y.ui.sw.pending = z.ui.sw.pending
        BY <2>5, <4>1 DEF Good, Sound, GoodUi
      <4> QED BY <2>5, <4>1, <4>2 DEF Good, Sound, GoodUi
    <3>4. GoodDesk(y.desk)
      BY <2>5, <3>2 DEF Good, Sound, GoodDesk
    <3> QED BY <2>5, <3>2, <3>3, <3>4 DEF Good, Sound, Owned, Landed
  <2> QED BY <2>6, <2>7
<1> QED BY <1>1, <1>2

\* Accepting a row keeps the turn sound, granted or not.
LEMMA ActivatingARow ==
  ASSUME NEW x, Good(x), NEW id, NEW granted, NEW y, y = ActivateRow(x, id, granted)
  PROVE  Good(y)
<1> DEFINE search == x.ui.view.kind = "search"
           allowed == /\ search \/ OwnsPickerForeground(x)
                      /\ PermittedNow(x) /\ IsCurrent(x.desk, id)
           z == [x EXCEPT !.ui.view.ready = FALSE, !.ui.view.next = None]
           a == Activate(x, id, allowed, granted)
<1>1. CASE allowed /\ granted
  <2>1. y = CompleteSwitch(a, granted)
    BY <1>1 DEF ActivateRow
  <2>2. allowed => IsCurrent(x.desk, id)
    OBVIOUS
  <2> HIDE DEF allowed
  <2>3. Sound(a)
    <3> HIDE DEF a
    <3> QED BY <2>2, Activating DEF Good, a
  <2> HIDE DEF a
  <2> QED BY <2>1, <2>3, Completing
<1>2. CASE ~(allowed /\ granted) /\ search
  <2>1. PICK kind, refresh : y = RequestSnapshot(z, kind, refresh, granted)
    BY <1>2 DEF ActivateRow
  <2>2. /\ DOMAIN z = TurnFields /\ z.mail = x.mail /\ z.input = x.input /\ z.ghost = x.ghost
        /\ z.desk = x.desk /\ z.ui = [x.ui EXCEPT !.view.ready = FALSE, !.view.next = None]
    BY DEF TurnFields, Good, Sound
  <2> HIDE DEF z
  <2>3. /\ DOMAIN z.ui = DOMAIN x.ui /\ z.ui.sw = x.ui.sw /\ z.ui.panel = x.ui.panel
        /\ z.ui.session = x.ui.session /\ z.ui.setup = x.ui.setup
        /\ z.ui.view = [x.ui.view EXCEPT !.ready = FALSE, !.next = None]
    BY <2>2 DEF Good, Sound, GoodUi
  <2>4. "kind" \in DOMAIN z.ui.view /\ z.ui.view.kind = x.ui.view.kind
    BY <2>3 DEF Good, Sound, GoodUi
  <2>5. GoodUi(z.ui)
    BY <2>3, <2>4 DEF Good, Sound, GoodUi
  <2>6. Good(z)
    BY <2>2, <2>3, <2>5, SameStanding
  <2> QED BY <2>1, <2>6, Requesting
<1>3. CASE ~(allowed /\ granted) /\ ~search
  <2>1. PICK kind, refresh : y = RequestSnapshot(x, kind, refresh, granted)
    BY <1>3 DEF ActivateRow
  <2> QED BY <2>1, Requesting
<1> QED BY <1>1, <1>2, <1>3

\* So does going back from the details to the panel.
LEMMA GoingBackToThePanel ==
  ASSUME NEW x, Good(x), NEW granted, NEW y, y = BackFromDetails(x, granted)
  PROVE  Good(y)
<1> DEFINE over == ~OwnsPickerForeground(x) \/ ~x.ui.panel.shown \/ x.ui.panel.apps = <<>>
           c == CloseView(x)
           z == [c EXCEPT !.ui.sw.dirty = TRUE]
<1>1. CASE over
  <2>1. y = CompleteSwitch(x, granted)
    BY <1>1 DEF BackFromDetails
  <2> QED BY <2>1, Completing DEF Good
<1>2. CASE ~over
  <2>1. y = FlushPanel(z, granted)
    BY <1>2 DEF BackFromDetails
  <2>2. x.ghost.landed = None
    BY <1>2, LandedIsAWindow, Surfacing DEF Good, OwnsPickerForeground
  <2>3. /\ Sound(c) /\ c.ui.sw = x.ui.sw /\ c.ui.panel = x.ui.panel /\ c.ui.session = x.ui.session
        /\ c.mail = x.mail /\ c.input = x.input /\ c.ghost = x.ghost
    <3> HIDE DEF c
    <3> QED BY ClosingTheView DEF c, Good
  <2> HIDE DEF c
  <2>4. Good(c)
    BY <2>3 DEF Good, Owned
  <2>5. /\ DOMAIN z = TurnFields /\ z.mail = c.mail /\ z.input = c.input /\ z.ghost = c.ghost
        /\ z.desk = c.desk /\ z.ui = [c.ui EXCEPT !.sw.dirty = TRUE]
    BY <2>4 DEF TurnFields, Good, Sound
  <2> HIDE DEF z
  <2>6. /\ GoodUi(z.ui) /\ z.ui.session = c.ui.session /\ z.ui.panel = c.ui.panel
        /\ z.ui.sw.pending = c.ui.sw.pending
    BY <2>4, <2>5 DEF Good, Sound, GoodUi
  <2>7. Good(z) /\ z.ghost.landed = None
    BY <2>2, <2>3, <2>4, <2>5, <2>6, SameStanding
  <2> QED BY <2>1, <2>7, Flushing
<1> QED BY <1>1, <1>2

\* Whatever the user did in the view, polling it keeps the turn sound.
LEMMA PollingTheView ==
  ASSUME NEW x, Good(x), NEW granted, NEW y, y = PollView(x, granted)
  PROVE  Good(y)
<1> DEFINE v == x.ui.view
           z == [x EXCEPT !.ui.view.event = None]
           s == [x EXCEPT !.ui.view.rows = v.next, !.ui.view.ready = TRUE, !.ui.view.next = None]
<1>1. y = IF v.kind = "none" THEN x
          ELSE IF v.event # None
          THEN CASE v.event.do = "cancel" -> CompleteSwitch(z, granted)
                 [] v.event.do = "back" -> BackFromDetails(z, granted)
                 [] OTHER -> ActivateRow(z, v.event.id, granted)
          ELSE IF v.kind = "search" /\ v.next # None THEN s
          ELSE x
  BY DEF PollView
<1>2. Good(z)
  <2>1. /\ DOMAIN z = TurnFields /\ z.mail = x.mail /\ z.input = x.input /\ z.ghost = x.ghost
        /\ z.desk = x.desk /\ z.ui = [x.ui EXCEPT !.view.event = None]
    BY DEF TurnFields, Good, Sound
  <2> HIDE DEF z
  <2>2. /\ GoodUi(z.ui) /\ z.ui.sw = x.ui.sw /\ z.ui.panel = x.ui.panel
        /\ z.ui.session = x.ui.session
    BY <2>1 DEF Good, Sound, GoodUi
  <2> QED BY <2>1, <2>2, SameStanding
<1>3. Good(s)
  <2> DEFINE next == v.next
  <2> HIDE DEF next
  <2>1. s = [x EXCEPT !.ui.view.rows = next, !.ui.view.ready = TRUE, !.ui.view.next = None]
    BY DEF next
  <2> HIDE DEF s
  <2>2. /\ DOMAIN s = TurnFields /\ s.mail = x.mail /\ s.input = x.input /\ s.ghost = x.ghost
        /\ s.desk = x.desk
        /\ s.ui = [x.ui EXCEPT !.view.rows = next, !.view.ready = TRUE, !.view.next = None]
    BY <2>1 DEF TurnFields, Good, Sound
  <2>3. /\ DOMAIN s.ui = DOMAIN x.ui /\ s.ui.sw = x.ui.sw /\ s.ui.panel = x.ui.panel
        /\ s.ui.session = x.ui.session /\ s.ui.setup = x.ui.setup
        /\ s.ui.view = [x.ui.view EXCEPT !.rows = next, !.ready = TRUE, !.next = None]
    BY <2>2 DEF Good, Sound, GoodUi
  <2>4. "kind" \in DOMAIN s.ui.view /\ s.ui.view.kind = x.ui.view.kind
    BY <2>3 DEF Good, Sound, GoodUi
  <2>5. GoodUi(s.ui)
    BY <2>3, <2>4 DEF Good, Sound, GoodUi
  <2> QED BY <2>2, <2>3, <2>5, SameStanding
<1> HIDE DEF z, s
<1>4. \/ y = x \/ y = s \/ y = CompleteSwitch(z, granted) \/ y = BackFromDetails(z, granted)
      \/ y = ActivateRow(z, v.event.id, granted)
  <2>1. CASE v.kind # "none" /\ v.event # None
    BY <1>1, <2>1
  <2>2. CASE ~(v.kind # "none" /\ v.event # None)
    BY <1>1, <2>2
  <2> QED BY <2>1, <2>2
<1> HIDE DEF v
<1>5. CASE y = CompleteSwitch(z, granted)
  BY <1>2, <1>5, Completing DEF Good
<1>6. CASE y = BackFromDetails(z, granted)
  BY <1>2, <1>6, GoingBackToThePanel
<1>7. CASE y = ActivateRow(z, v.event.id, granted)
  BY <1>2, <1>7, ActivatingARow
<1> QED BY <1>3, <1>4, <1>5, <1>6, <1>7

\* A new session begins without the panel and the request of the one before.
LEMMA Beginning ==
  ASSUME NEW x, Good(x), NEW session \in Nat, NEW granted, NEW y, y = Begin(x, session, granted)
  PROVE  Good(y) /\ y.ghost.landed = x.ghost.landed
<1> DEFINE c == CancelSwitchApp(x, granted)
           w == c.desk.fg
           focus == IF w \in Live(c.desk) THEN Identity(c.desk, w) ELSE None
<1>1. CASE x.ui.session = session
  BY <1>1 DEF Begin
<1>2. CASE x.ui.session # session
  <2>1. y = [c EXCEPT !.ui.session = session, !.ui.sw.anchor = w, !.ui.sw.returnFocus = focus]
    BY <1>2 DEF Begin
  <2>2. /\ Good(c) /\ ~c.ui.panel.shown /\ c.ui.sw.pending = None
        /\ c.ghost.landed = x.ghost.landed
    <3> HIDE DEF c
    <3> QED BY GivingUp DEF c, Good, Coordinator
  <2> HIDE DEF c, w, focus
  <2>3. /\ DOMAIN y = TurnFields /\ y.mail = c.mail /\ y.input = c.input /\ y.ghost = c.ghost
        /\ y.desk = c.desk
        /\ y.ui = [c.ui EXCEPT !.session = session, !.sw.anchor = w, !.sw.returnFocus = focus]
    <3>1. DOMAIN c = TurnFields
      BY <2>2 DEF Good, Sound
    <3>2. DOMAIN y = TurnFields /\ y.mail = c.mail /\ y.input = c.input /\ y.ghost = c.ghost
          /\ y.desk = c.desk
      BY <2>1, <3>1 DEF TurnFields
    <3>3. y.ui = [c.ui EXCEPT !.session = session, !.sw.anchor = w, !.sw.returnFocus = focus]
      BY <2>1, <3>1 DEF TurnFields
    <3> QED BY <3>2, <3>3
  <2>4. /\ DOMAIN y.ui = DOMAIN c.ui /\ y.ui.session = session /\ y.ui.panel = c.ui.panel
        /\ y.ui.view = c.ui.view /\ y.ui.setup = c.ui.setup
        /\ y.ui.sw = [c.ui.sw EXCEPT !.anchor = w, !.returnFocus = focus]
    BY <2>2, <2>3 DEF Good, Sound, GoodUi
  <2>5. /\ DOMAIN y.ui.sw = DOMAIN c.ui.sw /\ y.ui.sw.actions = c.ui.sw.actions
        /\ y.ui.sw.pending = c.ui.sw.pending
    BY <2>2, <2>4 DEF Good, Sound, GoodUi
  <2>6. GoodUi(y.ui)
    BY <2>2, <2>4, <2>5 DEF Good, Sound, GoodUi
  <2> QED BY <2>2, <2>3, <2>4, <2>5, <2>6 DEF Good, Sound, Owned, Landed
<1> QED BY <1>1, <1>2

\* An action that is queued changes the queue of the switches only.
LEMMA Pushing ==
  ASSUME NEW x, Good(x), NEW action \in Cycles, NEW y, y = Pushed(x, action)
  PROVE  Good(y) /\ y.ghost.landed = x.ghost.landed
<1> DEFINE actions == Append(x.ui.sw.actions, action)
<1>1. PICK aim : y = [x EXCEPT !.ui.sw.actions = actions, !.ghost.aim = aim]
  BY DEF Pushed
<1>2. actions \in Seq(Cycles)
  BY DEF Good, Sound, GoodUi
<1> HIDE DEF actions
<1>3. /\ DOMAIN y = TurnFields /\ y.mail = x.mail /\ y.input = x.input
      /\ y.desk = x.desk /\ y.ghost = [x.ghost EXCEPT !.aim = aim]
      /\ y.ui = [x.ui EXCEPT !.sw.actions = actions]
  BY <1>1 DEF TurnFields, Good, Sound
<1>4. /\ GoodUi(y.ui) /\ y.ui.session = x.ui.session /\ y.ui.panel = x.ui.panel
      /\ y.ui.sw.pending = x.ui.sw.pending
  BY <1>2, <1>3 DEF Good, Sound, GoodUi
<1>5. DOMAIN y.ghost = GhostFields /\ y.ghost.landed = x.ghost.landed /\ y.ghost.owner = x.ghost.owner
  BY <1>3 DEF Good, Sound, GhostFields
<1> QED BY <1>3, <1>4, <1>5 DEF Good, Sound, Owned, Landed

\* The end of a gesture is remembered by the coordinator; nothing lands by it.
LEMMA FinishingUp ==
  ASSUME NEW x, Good(x), NEW kind, NEW y, y = Finishing(x, kind)
  PROVE  Good(y) /\ y.ghost = x.ghost
<1> DEFINE f == [x EXCEPT !.ui.sw.finishing = kind]
           m == NoRequest(x.mail)
<1>1. /\ DOMAIN f = TurnFields /\ f.mail = x.mail /\ f.input = x.input /\ f.ghost = x.ghost
      /\ f.desk = x.desk /\ f.ui = [x.ui EXCEPT !.sw.finishing = kind]
  BY DEF TurnFields, Good, Sound
<1>2. \/ y = f
      \/ y = [f EXCEPT !.ui.sw.pending = None, !.mail = NoRequest(@)]
  BY DEF Finishing
<1> HIDE DEF f
<1>3. /\ GoodUi(f.ui) /\ f.ui.session = x.ui.session /\ f.ui.panel = x.ui.panel
      /\ f.ui.sw.pending = x.ui.sw.pending
  BY <1>1 DEF Good, Sound, GoodUi
<1>4. Good(f)
  BY <1>1, <1>3, SameStanding
<1>5. CASE y = [f EXCEPT !.ui.sw.pending = None, !.mail = NoRequest(@)]
  <2>1. GoodMail(m)
    BY DEF Good, Sound, GoodMail, NoRequest
  <2> HIDE DEF m
  <2>2. /\ DOMAIN y = TurnFields /\ y.mail = m /\ y.input = f.input /\ y.ghost = f.ghost
        /\ y.desk = f.desk /\ y.ui = [f.ui EXCEPT !.sw.pending = None]
    BY <1>1, <1>5 DEF TurnFields, m
  <2>3. /\ GoodUi(y.ui) /\ y.ui.session = f.ui.session /\ y.ui.panel = f.ui.panel
        /\ y.ui.sw.pending = None
    BY <1>4, <2>2 DEF Good, Sound, GoodUi
  <2> QED BY <1>1, <1>4, <2>1, <2>2, <2>3 DEF Good, Sound, Owned, Landed
<1> QED BY <1>1, <1>2, <1>4, <1>5

\* A hotkey's action leaves what was built before it in order.
LEMMA Acting ==
  ASSUME NEW x, Good(x), x.ghost.landed = None, NEW action \in Actions, NEW granted,
         NEW y, y = ApplyAction(x, action, granted)
  PROVE  Good(y)
<1>1. CASE action.do = "details"
  <2>1. y = OpenDetails(x, granted)
    BY <1>1 DEF ApplyAction
  <2> QED BY <2>1, OpeningDetails
<1>2. CASE action.do = "cancel"
  <2>1. y = CompleteSwitch(x, granted)
    BY <1>2 DEF ApplyAction
  <2> QED BY <2>1, Completing DEF Good
<1>3. CASE action.do = "cycle" /\ action.kind = "Search"
  <2>1. y = StartSearch(x, granted)
    BY <1>3 DEF ApplyAction
  <2> QED BY <2>1, StartingSearch
<1>4. CASE action.do = "cycle" /\ action.kind # "Search"
  <2>1. y = PumpSwitches(Pushed(x, action), granted)
    BY <1>4 DEF ApplyAction
  <2>2. action \in Cycles
    BY <1>4 DEF Actions, Cycles, Cycle, Finish, Cancel, ShowDetails
  <2>3. Good(Pushed(x, action))
    BY <2>2, Pushing
  <2> QED BY <2>1, <2>3, Pumping
<1>5. CASE action.do \notin {"details", "cancel", "cycle"}
  <2>1. y = PumpSwitches(Finishing(x, action.kind), granted)
    BY <1>5 DEF ApplyAction
  <2>2. Good(Finishing(x, action.kind))
    BY FinishingUp
  <2> QED BY <2>1, <2>2, Pumping
<1> QED BY <1>1, <1>2, <1>3, <1>4, <1>5

-------------------------------------------------------------------------------
(* The invariant holds to begin with and after every step.                  *)

LEMMA Initially == ASSUME Init PROVE Inv
<1>1. PICK setup \in Setups :
        /\ ui = [session |-> 0, sw |-> Coordinator, panel |-> NoPanel, view |-> NoView,
                 surface |-> "None", show |-> FALSE, cache |-> None, released |-> TRUE,
                 setup |-> setup]
        /\ desk = [zorder |-> setup.zorder, life |-> [w \in Windows |-> 0],
                   fg |-> setup.zorder[1]]
  BY DEF Init
<1>2. <<>> \in Seq(Cycles) /\ <<>> \in Seq(Events)
  OBVIOUS
<1>3. GoodUi(ui) /\ ~ui.panel.shown /\ ui.sw.pending = None
  BY <1>1, <1>2 DEF GoodUi, Coordinator, NoPanel, NoView
<1>4. GoodDesk(desk)
  BY <1>1, SessionAssumption DEF GoodDesk
<1>5. GoodMail(mail) /\ GoodInput(input)
  BY DEF Init, GoodMail, GoodInput
<1>6. DOMAIN ghost = GhostFields /\ ghost.landed = None
  BY DEF Init, GhostFields
<1>7. /\ Whole.ui = ui /\ Whole.desk = desk /\ Whole.mail = mail /\ Whole.input = input
      /\ Whole.ghost = ghost /\ DOMAIN Whole = TurnFields
  BY DEF Whole, TurnFields
<1> HIDE DEF Whole
<1>8. Good(Whole)
  BY <1>3, <1>4, <1>5, <1>6, <1>7 DEF Good, Sound, Owned, Landed
<1> QED BY <1>2, <1>8 DEF Init, Inv

\* At the start of a step nothing has landed in it.
LEMMA NowIsGood ==
  ASSUME Inv
  PROVE  Good(Now) /\ Now.ghost.landed = None /\ Now.ui = ui /\ Now.desk = desk
         /\ Now.mail = mail /\ Now.input = input
<1>1. /\ Whole.ui = ui /\ Whole.desk = desk /\ Whole.mail = mail /\ Whole.input = input
      /\ Whole.ghost = ghost /\ Good(Whole)
  BY DEF Whole, Inv
<1>2. /\ Now.ui = ui /\ Now.desk = desk /\ Now.mail = mail /\ Now.input = input
      /\ DOMAIN Now = TurnFields /\ Now.ghost = [ghost EXCEPT !.landed = None]
  BY DEF Now, TurnFields
<1> HIDE DEF Whole, Now
<1>3. /\ DOMAIN Now.ghost = GhostFields /\ Now.ghost.landed = None
      /\ Now.ghost.owner = ghost.owner
  BY <1>1, <1>2 DEF Good, Sound, GhostFields
<1> QED BY <1>1, <1>2, <1>3 DEF Good, Sound, Owned, Landed

\* A step that becomes a sound turn record keeps the invariant's part of it.
LEMMA Becoming ==
  ASSUME NEW x, Good(x), Become(x)
  PROVE  Good(Whole')
<1>1. /\ Whole'.ui = x.ui /\ Whole'.desk = x.desk /\ Whole'.mail = x.mail
      /\ Whole'.input = x.input /\ Whole'.ghost = x.ghost /\ DOMAIN Whole' = TurnFields
  BY DEF Whole, Become, TurnFields
<1> HIDE DEF Whole
<1> QED BY <1>1 DEF Good, Sound, Owned, Landed

\* A step of the hook, the worker or the user that leaves the sessions' work alone.
LEMMA Undisturbed ==
  ASSUME Good(Whole), desk' = desk, ghost' = ghost, GoodUi(ui'), GoodMail(mail'), GoodInput(input'),
         ui'.session = ui.session, ui'.sw = ui.sw, ui'.panel = ui.panel, mail'.for = mail.for
  PROVE  Good(Whole')
<1>1. /\ Whole.ui = ui /\ Whole.desk = desk /\ Whole.mail = mail /\ Whole.input = input
      /\ Whole.ghost = ghost
      /\ Whole'.ui = ui' /\ Whole'.desk = desk' /\ Whole'.mail = mail' /\ Whole'.input = input'
      /\ Whole'.ghost = ghost' /\ DOMAIN Whole' = TurnFields
  BY DEF Whole, TurnFields
<1> HIDE DEF Whole
<1> QED BY <1>1 DEF Good, Sound, Owned, Landed

\* Every phase of the turn keeps it.
LEMMA TurnKeeps == ASSUME Inv, Turn PROVE Good(Whole')
<1> USE NowIsGood
<1>1. CASE TurnStarts
  <2>1. PICK granted \in ui.setup.grants :
          LET revoked == IF ui.session # 0 /\ ~Permits(input, ui.session)
                         THEN CompleteSwitch(Now, granted) ELSE Now
          IN  Become(IF revoked.ui.sw.sticky /\ ~OwnsPickerForeground(revoked)
                     THEN CompleteSwitch(revoked, granted) ELSE revoked)
    BY <1>1 DEF TurnStarts
  <2> DEFINE revoked == IF ui.session # 0 /\ ~Permits(input, ui.session)
                        THEN CompleteSwitch(Now, granted) ELSE Now
             x == IF revoked.ui.sw.sticky /\ ~OwnsPickerForeground(revoked)
                  THEN CompleteSwitch(revoked, granted) ELSE revoked
  <2>2. Become(x)
    BY <2>1
  <2>3. Good(revoked)
    <3>1. Good(CompleteSwitch(Now, granted))
      BY Completing DEF Good
    <3> QED BY <3>1
  <2> HIDE DEF revoked
  <2>4. Good(x)
    <3>1. Good(CompleteSwitch(revoked, granted))
      BY <2>3, Completing DEF Good
    <3> QED BY <2>3, <3>1
  <2> HIDE DEF x
  <2> QED BY <2>2, <2>4, Becoming
<1>2. CASE ApplyInput
  <2> DEFINE event == Head(taken)
  <2>1. PICK granted :
          Become(IF Permits(input, event.session)
                 THEN ApplyAction(Begin(Now, event.session, granted), event.action, granted)
                 ELSE [Now EXCEPT !.input = Ended(@, event.session)])
    BY <1>2 DEF ApplyInput
  <2>2. event \in Events
    BY <1>2 DEF ApplyInput, Inv
  <2> HIDE DEF event
  <2>3. event.session \in Nat /\ event.action \in Actions
    BY <2>2 DEF Events
  <2>4. CASE Permits(input, event.session)
    <3> DEFINE b == Begin(Now, event.session, granted)
               x == ApplyAction(b, event.action, granted)
    <3>1. Become(x)
      BY <2>1, <2>4
    <3>2. Good(b) /\ b.ghost.landed = None
      BY <2>3, Beginning
    <3> HIDE DEF b
    <3>3. Good(x)
      BY <2>3, <3>2, Acting
    <3> HIDE DEF x
    <3> QED BY <3>1, <3>3, Becoming
  <2>5. CASE ~Permits(input, event.session)
    <3> DEFINE over == Ended(Now.input, event.session)
               x == [Now EXCEPT !.input = over]
    <3>1. Become(x)
      BY <2>1, <2>5
    <3>2. GoodInput(over)
      BY <2>3 DEF Good, Sound, GoodInput, Ended
    <3> HIDE DEF over
    <3>3. /\ DOMAIN x = TurnFields /\ x.ui = Now.ui /\ x.desk = Now.desk /\ x.mail = Now.mail
          /\ x.input = over /\ x.ghost = Now.ghost
      BY DEF TurnFields, Good, Sound
    <3> HIDE DEF x
    <3>4. Good(x)
      BY <3>2, <3>3 DEF Good, Sound, Owned, Landed
    <3> QED BY <3>1, <3>4, Becoming
  <2> QED BY <2>4, <2>5
<1>3. CASE InputsDone
  BY <1>3 DEF InputsDone, Inv, Whole
<1>4. CASE Poll
  <2>1. PICK granted, due : Become(PollView(PollSwitching(Now, due, granted), granted))
    BY <1>4 DEF Poll
  <2> DEFINE s == PollSwitching(Now, due, granted)
             x == PollView(s, granted)
  <2>2. Answered(Now) => Now.mail.answer.ids # None
    BY <1>4 DEF Poll, PollErrs
  <2>3. Good(s)
    BY <2>2, Polling
  <2> HIDE DEF s
  <2>4. Good(x)
    BY <2>3, PollingTheView
  <2>5. Become(x)
    BY <2>1 DEF s
  <2> HIDE DEF x
  <2> QED BY <2>4, <2>5, Becoming
<1>5. CASE PollFails
  <2>1. PICK granted : Become(Fail(Now, ui.session, granted))
    BY <1>5 DEF PollFails
  <2>2. Sound(Now) /\ ui.session \in Nat
    BY DEF Good, Sound, GoodUi
  <2>3. Good(Fail(Now, ui.session, granted))
    BY <2>2, Failing
  <2> QED BY <2>1, <2>3, Becoming
<1>6. CASE PumpAndFlush
  <2>1. PICK granted : Become(FlushPanel(PumpSwitches(Now, granted), granted))
    BY <1>6 DEF PumpAndFlush
  <2> DEFINE p == PumpSwitches(Now, granted)
             x == FlushPanel(p, granted)
  <2>2. Good(p) /\ (p.ghost.landed # None => ~p.ui.panel.shown)
    BY Pumping
  <2> HIDE DEF p
  <2>3. Good(x)
    BY <2>2, Flushing
  <2>4. Become(x)
    BY <2>1 DEF p
  <2> HIDE DEF x
  <2> QED BY <2>3, <2>4, Becoming
<1> QED BY <1>1, <1>2, <1>3, <1>4, <1>5, <1>6 DEF Turn

\* So do clicks on the panel and messages that repaint it.
LEMMA PanelKeeps == ASSUME Inv, PanelEntryChosen \/ PanelInvalidated PROVE Good(Whole')
<1> USE NowIsGood
<1>1. CASE PanelEntryChosen
  <2>1. PICK i \in DOMAIN ui.panel.apps, invoke \in BOOLEAN, granted \in ui.setup.grants :
          LET x == [Now EXCEPT !.ui.panel.index = i - 1, !.ui.sw.dirty = TRUE,
                               !.ghost.settled = FALSE]
          IN  /\ IsCurrent(desk, ui.panel.apps[i].id)
              /\ Become(IF invoke THEN CompleteSwitch(DoSwitchApp(x, granted), granted)
                        ELSE [x EXCEPT !.desk.fg = IF granted THEN "panel" ELSE @])
    BY <1>1 DEF PanelEntryChosen
  <2> DEFINE x == [Now EXCEPT !.ui.panel.index = i - 1, !.ui.sw.dirty = TRUE,
                              !.ghost.settled = FALSE]
             d == DoSwitchApp(x, granted)
             f == [x EXCEPT !.desk.fg = IF granted THEN "panel" ELSE @]
  <2>2. ui.panel.shown /\ IsPanel(ui.panel)
    <3>1. ui.panel.shown
      BY <1>1 DEF PanelEntryChosen
    <3> QED BY <3>1 DEF Good, Sound, GoodUi
  <2>3. i - 1 \in Nat /\ i - 1 \in 0..(Len(ui.panel.apps) - 1)
    <3>1. ui.panel.apps \in Seq(Applications)
      BY <2>2 DEF IsPanel
    <3>2. DOMAIN ui.panel.apps = 1..Len(ui.panel.apps) /\ Len(ui.panel.apps) \in Nat
      BY <3>1
    <3> QED BY <3>2
  <2>4. Good(x) /\ x.ghost.landed = None
    <3> DEFINE at == i - 1
    <3> HIDE DEF at
    <3>1. x = [Now EXCEPT !.ui.panel.index = at, !.ui.sw.dirty = TRUE, !.ghost.settled = FALSE]
      BY DEF at
    <3> HIDE DEF x
    <3>2. /\ DOMAIN x = TurnFields /\ x.desk = Now.desk /\ x.mail = Now.mail
          /\ x.input = Now.input /\ x.ghost = [Now.ghost EXCEPT !.settled = FALSE]
          /\ x.ui = [ui EXCEPT !.panel.index = at, !.sw.dirty = TRUE]
      BY <3>1 DEF TurnFields, Good, Sound
    <3>3. /\ DOMAIN x.ghost = GhostFields /\ x.ghost.landed = None
          /\ x.ghost.owner = Now.ghost.owner
      BY <3>2 DEF GhostFields, Good, Sound
    <3>4. /\ DOMAIN x.ui = DOMAIN ui /\ x.ui.session = ui.session
          /\ x.ui.setup = ui.setup /\ x.ui.view = ui.view
          /\ x.ui.panel = [ui.panel EXCEPT !.index = at]
          /\ x.ui.sw = [ui.sw EXCEPT !.dirty = TRUE]
      BY <3>2 DEF Good, Sound, GoodUi
    <3>5. /\ DOMAIN x.ui.panel = DOMAIN ui.panel /\ x.ui.panel.apps = ui.panel.apps
          /\ x.ui.panel.index = at
      BY <2>2, <3>4 DEF IsPanel
    <3>6. /\ DOMAIN x.ui.sw = DOMAIN ui.sw /\ x.ui.sw.actions = ui.sw.actions
          /\ x.ui.sw.pending = ui.sw.pending
      BY <3>4 DEF Good, Sound, GoodUi
    <3>7. IsPanel(x.ui.panel)
      BY <2>2, <2>3, <3>5 DEF IsPanel, at
    <3>8. GoodUi(x.ui)
      BY <3>4, <3>6, <3>7 DEF Good, Sound, GoodUi
    <3> QED BY <2>2, <3>2, <3>3, <3>4, <3>6, <3>8 DEF Good, Sound, Owned, Landed
  <2>5. Become(IF invoke THEN CompleteSwitch(d, granted) ELSE f)
    BY <2>1
  <2> HIDE DEF x
  <2>6. CASE invoke
    <3>1. Sound(d)
      BY <2>4, SwitchingApps
    <3> HIDE DEF d
    <3>2. Good(CompleteSwitch(d, granted)) /\ Become(CompleteSwitch(d, granted))
      BY <2>5, <2>6, <3>1, Completing
    <3> QED BY <3>2, Becoming
  <2>7. CASE ~invoke
    <3>1. PICK fg : f = [x EXCEPT !.desk.fg = fg]
      OBVIOUS
    <3>2. Become(f)
      BY <2>5, <2>7
    <3> HIDE DEF f
    <3>3. Good(f)
      BY <2>4, <3>1, FrontingASurface
    <3> QED BY <3>2, <3>3, Becoming
  <2> QED BY <2>6, <2>7
<1>2. CASE PanelInvalidated
  <2> DEFINE z == [Now EXCEPT !.ui.sw.dirty = TRUE]
  <2>1. PICK granted, gone : Become(IF gone THEN CompleteSwitch(Now, granted)
                                    ELSE FlushPanel(z, granted))
    BY <1>2 DEF PanelInvalidated
  <2>2. CASE gone
    <3>1. Good(CompleteSwitch(Now, granted)) /\ Become(CompleteSwitch(Now, granted))
      BY <2>1, <2>2, Completing DEF Good
    <3> QED BY <3>1, Becoming
  <2>3. CASE ~gone
    <3>1. /\ DOMAIN z = TurnFields /\ z.desk = Now.desk /\ z.mail = Now.mail
          /\ z.input = Now.input /\ z.ghost = Now.ghost
          /\ z.ui = [ui EXCEPT !.sw.dirty = TRUE]
      BY DEF TurnFields, Good, Sound
    <3>2. Become(FlushPanel(z, granted))
      BY <2>1, <2>3
    <3> HIDE DEF z
    <3>3. /\ GoodUi(z.ui) /\ z.ui.session = ui.session /\ z.ui.panel = ui.panel
          /\ z.ui.sw.pending = ui.sw.pending
      <4>1. GoodUi(ui)
        BY DEF Good, Sound
      <4> QED BY <3>1, <4>1 DEF GoodUi
    <3>4. Good(z) /\ z.ghost.landed = None
      BY <3>1, <3>3, SameStanding
    <3>5. Good(FlushPanel(z, granted))
      BY <3>4, Flushing
    <3> QED BY <3>2, <3>5, Becoming
  <2> QED BY <2>2, <2>3
<1> QED BY <1>1, <1>2

\* The hook submits events of its sessions and leaves the turns alone.
LEMMA HookKeeps ==
  ASSUME Inv, Hook
  PROVE  Good(Whole') /\ inbox' \in Seq(Events) /\ taken' = taken /\ pc' = pc
<1>1. /\ Good(Whole) /\ GoodUi(ui) /\ GoodMail(mail) /\ GoodInput(input)
      /\ inbox \in Seq(Events)
  <2>1. Whole.ui = ui /\ Whole.mail = mail /\ Whole.input = input
    BY DEF Whole
  <2> HIDE DEF Whole
  <2> QED BY <2>1 DEF Inv, Good, Sound
<1>2. ASSUME NEW session \in Nat, NEW action \in Actions
      PROVE  Append(inbox, [session |-> session, action |-> action]) \in Seq(Events)
  <2>1. [session |-> session, action |-> action] \in Events
    BY DEF Events
  <2> QED BY <1>1, <2>1
<1>3. /\ ui.setup.kinds \subseteq Kinds /\ ui.setup.reverse \in BOOLEAN
  BY <1>1, SessionAssumption DEF GoodUi
<1>4. ASSUME NEW kind \in Kinds
      PROVE  Cycle(kind, ui.setup.reverse) \in Actions /\ Finish(kind) \in Actions
  BY <1>3 DEF Actions, Cycles
<1>5. Cancel \in Actions /\ ShowDetails \in Actions
  BY DEF Actions
<1>6. input.opened \in Nat /\ input.opened + 1 \in Nat
  BY <1>1 DEF GoodInput
<1>7. Gesturing => input.gesture \in [kind : Kinds, sticky : BOOLEAN]
  BY <1>1 DEF Gesturing, GoodInput
<1>8. CASE \E kind \in ui.setup.kinds : Opens(kind)
  <2>1. PICK kind \in ui.setup.kinds : Opens(kind)
    BY <1>8
  <2>2. GoodInput(input')
    BY <1>1, <1>3, <2>1 DEF Opens, GoodInput
  <2>3. inbox' \in Seq(Events)
    BY <1>2, <1>3, <1>4, <1>6, <2>1 DEF Opens, Submit
  <2> QED BY <1>1, <2>1, <2>2, <2>3, Undisturbed DEF Opens
<1>9. CASE \E kind \in ui.setup.kinds : Presses(kind)
  <2>1. PICK kind \in ui.setup.kinds : Presses(kind)
    BY <1>9
  <2>2. Gesturing
    BY <2>1 DEF Presses, Holding, Sticky, OnPanel
  <2>3. GoodInput(input')
    BY <1>1, <1>3, <1>7, <2>1, <2>2 DEF Presses, GoodInput
  <2>4. inbox' \in Seq(Events)
    BY <1>2, <1>3, <1>4, <1>6, <2>1 DEF Presses, Submit
  <2> QED BY <1>1, <2>1, <2>3, <2>4, Undisturbed DEF Presses
<1>10. CASE Releases
  <2>1. Gesturing
    BY <1>10 DEF Releases, Holding, Sticky, OnPanel
  <2>2. GoodInput(input')
    BY <1>1, <1>10 DEF Releases, GoodInput
  <2>3. inbox' \in Seq(Events)
    BY <1>2, <1>4, <1>6, <1>7, <1>10, <2>1 DEF Releases, Submit
  <2> QED BY <1>1, <1>10, <2>2, <2>3, Undisturbed DEF Releases
<1>11. CASE Escapes
  <2>1. GoodInput(input')
    BY <1>1, <1>11 DEF Escapes, GoodInput
  <2>2. inbox' \in Seq(Events)
    BY <1>2, <1>5, <1>6, <1>11 DEF Escapes, Submit
  <2> QED BY <1>1, <1>11, <2>1, <2>2, Undisturbed DEF Escapes
<1>12. CASE AsksForDetails
  <2>1. Gesturing
    BY <1>12 DEF AsksForDetails
  <2>2. GoodInput(input')
    BY <1>1, <1>7, <1>12, <2>1 DEF AsksForDetails, GoodInput
  <2>3. inbox' \in Seq(Events)
    BY <1>2, <1>5, <1>6, <1>12 DEF AsksForDetails, Submit
  <2> QED BY <1>1, <1>12, <2>2, <2>3, Undisturbed DEF AsksForDetails
<1>13. CASE Revokes
  <2>1. GoodInput(input')
    BY <1>1, <1>13 DEF Revokes, GoodInput, Ended
  <2> QED BY <1>1, <1>13, <2>1, Undisturbed DEF Revokes
<1> QED BY <1>8, <1>9, <1>10, <1>11, <1>12, <1>13 DEF Hook

\* A change of the desktop in which nothing landed keeps the turn sound.
LEMMA NewDesktop ==
  ASSUME NEW x, Good(x), x.ghost.landed = None, NEW y, DOMAIN y = TurnFields, y.ui = x.ui,
         y.mail = x.mail, y.input = x.input, DOMAIN y.ghost = GhostFields,
         y.ghost.landed = x.ghost.landed, y.ghost.owner = x.ghost.owner, GoodDesk(y.desk)
  PROVE  Good(y)
BY DEF Good, Sound, Owned, Landed

\* Counting a move keeps it sound.
LEMMA Moving ==
  ASSUME NEW x, Good(x), NEW y, y = Changed(x)
  PROVE  Good(y) /\ y.ghost = x.ghost /\ y.desk = x.desk /\ y.ui = x.ui
<1>1. PICK moves : y = [x EXCEPT !.input.moves = moves]
  BY DEF Changed
<1>2. /\ DOMAIN y = TurnFields /\ y.ui = x.ui /\ y.desk = x.desk /\ y.mail = x.mail
      /\ y.ghost = x.ghost /\ y.input = [x.input EXCEPT !.moves = moves]
  BY <1>1 DEF TurnFields, Good, Sound
<1>3. GoodInput(y.input)
  BY <1>2 DEF Good, Sound, GoodInput
<1> QED BY <1>2, <1>3 DEF Good, Sound, Owned, Landed

\* A surface that loses the foreground asks its view to close, and that is all.
LEMMA Deactivating ==
  ASSUME NEW x, Good(x), NEW y, y = Deactivated(x)
  PROVE  Good(y) /\ y.ghost = x.ghost /\ y.desk = x.desk
<1>1. CASE y = x
  BY <1>1
<1>2. CASE y = [x EXCEPT !.ui.view.event = Closing]
  <2> DEFINE event == Closing
  <2> HIDE DEF event
  <2>1. y = [x EXCEPT !.ui.view.event = event]
    BY <1>2 DEF event
  <2>2. /\ DOMAIN y = TurnFields /\ y.desk = x.desk /\ y.mail = x.mail /\ y.input = x.input
        /\ y.ghost = x.ghost /\ y.ui = [x.ui EXCEPT !.view.event = event]
    BY <2>1 DEF TurnFields, Good, Sound
  <2>3. /\ DOMAIN y.ui = DOMAIN x.ui /\ y.ui.sw = x.ui.sw /\ y.ui.panel = x.ui.panel
        /\ y.ui.session = x.ui.session /\ y.ui.setup = x.ui.setup
        /\ y.ui.view = [x.ui.view EXCEPT !.event = event]
    BY <2>2 DEF Good, Sound, GoodUi
  <2>4. "kind" \in DOMAIN y.ui.view /\ y.ui.view.kind = x.ui.view.kind
    BY <2>3 DEF Good, Sound, GoodUi
  <2>5. GoodUi(y.ui)
    BY <2>3, <2>4 DEF Good, Sound, GoodUi
  <2> QED BY <2>2, <2>3, <2>5, SameStanding
<1> QED BY <1>1, <1>2 DEF Deactivated

\* Whatever windows, worker, clock and user do keeps the turn sound.
LEMMA WorldKeeps ==
  ASSUME Inv, World
  PROVE  Good(Whole') /\ inbox' = inbox /\ taken' = taken /\ pc' = pc
<1> USE NowIsGood
<1>1. Good(Whole) /\ GoodUi(ui) /\ GoodDesk(desk) /\ GoodMail(mail) /\ GoodInput(input)
  <2>1. Whole.ui = ui /\ Whole.desk = desk /\ Whole.mail = mail /\ Whole.input = input
    BY DEF Whole
  <2> HIDE DEF Whole
  <2> QED BY <2>1 DEF Inv, Good, Sound
<1> DEFINE c == Changed(Deactivated(Now))
<1>2. Good(c) /\ c.desk = desk /\ c.ghost.landed = None
  <2> DEFINE d == Deactivated(Now)
  <2>1. Good(d) /\ d.desk = desk /\ d.ghost = Now.ghost
    <3> HIDE DEF d
    <3> QED BY Deactivating DEF d
  <2> HIDE DEF d
  <2>2. c = Changed(d)
    BY DEF d
  <2> HIDE DEF c
  <2> QED BY <2>1, <2>2, Moving
<1> HIDE DEF c
<1>3. ASSUME NEW w \in Windows, NEW x, Become(x),
             \/ x = [c EXCEPT !.desk.fg = w, !.desk.zorder = Raised(desk.zorder, w)]
             \/ x = [c EXCEPT !.desk.zorder = Raised(desk.zorder, w), !.desk.fg = w]
      PROVE  Good(Whole')
  <2> DEFINE order == Raised(desk.zorder, w)
  <2>1. order \in Seq(Windows) /\ IsInjective(order)
    BY <1>1, Raising DEF GoodDesk
  <2>2. \/ x = [c EXCEPT !.desk.fg = w, !.desk.zorder = order]
        \/ x = [c EXCEPT !.desk.zorder = order, !.desk.fg = w]
    BY <1>3
  <2> HIDE DEF order
  <2>3. /\ DOMAIN x = TurnFields /\ x.ui = c.ui /\ x.mail = c.mail /\ x.input = c.input
        /\ x.ghost = c.ghost
    BY <1>2, <2>2 DEF Good, Sound, TurnFields
  <2>4. DOMAIN x.desk = DOMAIN desk /\ x.desk.zorder = order /\ x.desk.life = desk.life
    <3>1. DOMAIN c = TurnFields /\ c.desk = desk
      BY <1>2 DEF Good, Sound
    <3>2. \/ x.desk = [desk EXCEPT !.fg = w, !.zorder = order]
          \/ x.desk = [desk EXCEPT !.zorder = order, !.fg = w]
      BY <2>2, <3>1 DEF TurnFields
    <3>3. DOMAIN desk = {"zorder", "life", "fg"}
      BY <1>1 DEF GoodDesk
    <3>4. CASE x.desk = [desk EXCEPT !.fg = w, !.zorder = order]
      BY <3>3, <3>4
    <3>5. CASE x.desk = [desk EXCEPT !.zorder = order, !.fg = w]
      BY <3>3, <3>5
    <3> QED BY <3>2, <3>4, <3>5
  <2>5. GoodDesk(x.desk)
    BY <1>1, <2>1, <2>4 DEF GoodDesk
  <2>6. Good(x)
    BY <1>2, <2>3, <2>5, NewDesktop DEF Good, Sound
  <2> QED BY <1>3, <2>6, Becoming
<1>4. CASE \E w \in Windows : UserActivates(w)
  <2>1. PICK w \in Windows : UserActivates(w)
    BY <1>4
  <2> DEFINE x == [c EXCEPT !.desk.fg = w, !.desk.zorder = Raised(desk.zorder, w)]
  <2>2. Become(x)
    BY <2>1 DEF UserActivates, c
  <2>3. x = [c EXCEPT !.desk.fg = w, !.desk.zorder = Raised(desk.zorder, w)]
    OBVIOUS
  <2> HIDE DEF x
  <2> QED BY <1>3, <2>1, <2>2, <2>3 DEF UserActivates
<1>5. CASE \E w \in Windows : WindowOpens(w)
  <2>1. PICK w \in Windows : WindowOpens(w)
    BY <1>5
  <2> DEFINE x == [c EXCEPT !.desk.zorder = Raised(desk.zorder, w), !.desk.fg = w]
  <2>2. Become(x)
    BY <2>1 DEF WindowOpens, c
  <2>3. x = [c EXCEPT !.desk.zorder = Raised(desk.zorder, w), !.desk.fg = w]
    OBVIOUS
  <2> HIDE DEF x
  <2> QED BY <1>3, <2>1, <2>2, <2>3 DEF WindowOpens
<1>6. CASE \E w \in Windows : WindowCloses(w)
  <2>1. PICK w \in Windows : WindowCloses(w)
    BY <1>6
  <2> DEFINE left == Without(desk.zorder, w)
             m == Changed(Now)
             fg == IF m.desk.fg # w THEN m.desk.fg ELSE IF left = <<>> THEN None ELSE Head(left)
             x == [m EXCEPT !.desk.zorder = left, !.desk.life[w] = @ + 1, !.desk.fg = fg,
                            !.ghost.visited = {}]
  <2>2. Become(x)
    BY <2>1 DEF WindowCloses
  <2>3. Good(m) /\ m.ghost = Now.ghost /\ m.desk = desk
    <3> HIDE DEF m
    <3> QED BY Moving DEF m
  <2>4. left \in Seq(Windows) /\ IsInjective(left)
    BY <1>1, Raising DEF GoodDesk
  <2> HIDE DEF left, m, fg
  <2>5. /\ DOMAIN x = TurnFields /\ x.ui = m.ui /\ x.mail = m.mail /\ x.input = m.input
        /\ x.ghost = [m.ghost EXCEPT !.visited = {}]
        /\ x.desk = [m.desk EXCEPT !.zorder = left, !.life[w] = @ + 1, !.fg = fg]
    BY <2>3 DEF Good, Sound, TurnFields
  <2> HIDE DEF x
  <2>6. /\ DOMAIN x.ghost = GhostFields /\ x.ghost.landed = None
        /\ x.ghost.owner = m.ghost.owner /\ m.ghost.landed = None
    BY <2>3, <2>5 DEF Good, Sound, GhostFields
  <2>7. /\ DOMAIN x.desk = DOMAIN desk /\ x.desk.zorder = left
        /\ x.desk.life = [desk.life EXCEPT ![w] = @ + 1]
    BY <1>1, <2>3, <2>5 DEF GoodDesk
  <2>8. GoodDesk(x.desk)
    BY <1>1, <2>4, <2>7 DEF GoodDesk
  <2>9. Good(x)
    BY <2>3, <2>5, <2>6, <2>8, NewDesktop
  <2> QED BY <2>1, <2>2, <2>9, Becoming DEF WindowCloses
<1>7. CASE WorkerAnswers
  <2>1. PICK ids \in {[i \in DOMAIN desk.zorder |-> Identity(desk, desk.zorder[i])], None} :
          mail' = [mail EXCEPT !.asked = FALSE, !.answer = [ids |-> ids]]
    BY <1>7 DEF WorkerAnswers
  <2>2. ids # None => ids \in Seq(Identities) /\ IsInjective(ids)
    <3> DEFINE s == [i \in DOMAIN desk.zorder |-> Identity(desk, desk.zorder[i])]
    <3>1. \A i \in DOMAIN desk.zorder : desk.zorder[i] \in Windows
      BY <1>1 DEF GoodDesk
    <3>2. \A i \in DOMAIN desk.zorder :
             s[i] = Identity(desk, desk.zorder[i]) /\ s[i] \in Identities /\ s[i][1] = desk.zorder[i]
      BY <1>1, <3>1 DEF GoodDesk, Identity, Identities
    <3>3. s \in Seq(Identities)
      <4>1. DOMAIN desk.zorder = 1..Len(desk.zorder) /\ Len(desk.zorder) \in Nat
        BY <1>1 DEF GoodDesk
      <4>2. DOMAIN s = 1..Len(desk.zorder) /\ s = [i \in 1..Len(desk.zorder) |-> s[i]]
        BY <4>1
      <4>3. \A i \in 1..Len(desk.zorder) : s[i] \in Identities
        BY <3>2, <4>1
      <4> HIDE DEF s
      <4> QED BY <4>1, <4>2, <4>3
    <3>4. IsInjective(s)
      BY <1>1, <3>2 DEF GoodDesk, IsInjective
    <3> QED BY <2>1, <3>3, <3>4
  <2>3. GoodMail(mail') /\ mail'.for = mail.for
    BY <1>1, <2>1, <2>2 DEF GoodMail
  <2> QED BY <1>1, <1>7, <2>3, Undisturbed DEF WorkerAnswers
<1>8. CASE WorkerDies
  <2>1. GoodMail(mail') /\ mail'.for = mail.for
    BY <1>1, <1>8 DEF GoodMail, WorkerDies
  <2> QED BY <1>1, <1>8, <2>1, Undisturbed DEF WorkerDies
<1>9. CASE RequestAges
  <2>1. GoodMail(mail') /\ mail'.for = mail.for
    BY <1>1, <1>9 DEF GoodMail, RequestAges
  <2> QED BY <1>1, <1>9, <2>1, Undisturbed DEF RequestAges
<1>10. CASE UserChooses
  <2>1. PICK event : ui' = [ui EXCEPT !.view.event = event]
    BY <1>10 DEF UserChooses
  <2>2. /\ DOMAIN ui' = DOMAIN ui /\ ui'.sw = ui.sw /\ ui'.panel = ui.panel
        /\ ui'.session = ui.session /\ ui'.setup = ui.setup
        /\ ui'.view = [ui.view EXCEPT !.event = event]
    BY <1>1, <2>1 DEF GoodUi
  <2>3. "kind" \in DOMAIN ui'.view /\ ui'.view.kind = ui.view.kind
    BY <1>1, <2>2 DEF GoodUi
  <2>4. GoodUi(ui')
    BY <1>1, <2>2, <2>3 DEF GoodUi
  <2> QED BY <1>1, <1>10, <2>2, <2>4, Undisturbed DEF UserChooses
<1> QED BY <1>4, <1>5, <1>6, <1>7, <1>8, <1>9, <1>10 DEF World, UserActivates, WindowOpens, WindowCloses,
      WorkerAnswers, WorkerDies, RequestAges, UserChooses

\* The invariant is inductive.
LEMMA Stepping == Inv /\ [Next]_vars => Inv'
<1> SUFFICES ASSUME Inv, [Next]_vars PROVE Inv'
  OBVIOUS
<1>1. CASE Turn
  <2>1. Good(Whole')
    BY <1>1, TurnKeeps
  <2>2. <<>> \in Seq(Events) /\ inbox \in Seq(Events) /\ taken \in Seq(Events)
    BY DEF Inv
  <2>3. taken # <<>> => Tail(taken) \in Seq(Events)
    BY <2>2
  <2>4. inbox' \in Seq(Events) /\ taken' \in Seq(Events)
    BY <1>1, <2>2, <2>3
    DEF Turn, TurnStarts, ApplyInput, InputsDone, Poll, PollFails, PumpAndFlush
  <2>5. pc' \in {"idle", "inputs", "poll", "pump"}
    BY <1>1 DEF Inv, Turn, TurnStarts, ApplyInput, InputsDone, Poll, PollFails, PumpAndFlush
  <2> QED BY <2>1, <2>4, <2>5 DEF Inv
<1>2. CASE PanelEntryChosen \/ PanelInvalidated
  <2>1. Good(Whole')
    BY <1>2, PanelKeeps
  <2> QED BY <1>2, <2>1 DEF Inv, PanelEntryChosen, PanelInvalidated
<1>3. CASE Hook
  BY <1>3, HookKeeps DEF Inv
<1>4. CASE World
  BY <1>4, WorldKeeps DEF Inv
<1>5. CASE UNCHANGED vars
  BY <1>5 DEF vars, Inv, Whole
<1> QED BY <1>1, <1>2, <1>3, <1>4, <1>5 DEF Next

\* A turn's state has the shape its handlers rely on, whatever ran before it:
\* the windows stand once on the desktop, an answer lists a window once, the
\* panel's entries are distinct applications of which it selects one, and the
\* request that is under way was made for the session (app.rs, coordinator.rs).
THEOREM TurnsStaySound == Spec => []Inv
<1>1. Init => Inv
  BY Initially
<1> QED BY <1>1, Stepping, PTL DEF Spec

\* The panel on screen was built by an answer to the session it belongs to, and
\* its selection is one of its entries, which are distinct applications
\* (apply_app_snapshot, poll_switching).
THEOREM PanelStaysWithItsSession == Spec => []PanelBelongs
<1>1. Inv => PanelBelongs
  <2> SUFFICES ASSUME Inv PROVE PanelBelongs
    OBVIOUS
  <2>1. Good(Whole) /\ Whole.ui = ui /\ Whole.desk = desk /\ Whole.ghost = ghost
    BY DEF Inv, Whole
  <2> HIDE DEF Whole
  <2>2. desk.zorder \in Seq(Windows)
    BY <2>1 DEF Good, Sound, GoodDesk
  <2>3. ui.panel.shown => IsPanel(ui.panel) /\ ui.session # 0 /\ ghost.owner = ui.session
    BY <2>1 DEF Good, Sound, GoodUi, Owned
  <2>4. ui.panel.shown => {e.id : e \in Range(ui.panel.apps)} \subseteq Identities
    <3>1. ui.panel.shown => \A e \in Range(ui.panel.apps) : e.id \in Identities
      <4> SUFFICES ASSUME ui.panel.shown, NEW e \in Range(ui.panel.apps)
                   PROVE  e.id \in Identities
        OBVIOUS
      <4>1. PICK i \in DOMAIN ui.panel.apps : e = ui.panel.apps[i]
        BY DEF Range
      <4>2. ui.panel.apps \in Seq(Applications)
        BY <2>3 DEF IsPanel
      <4>3. e \in Applications
        BY <4>1, <4>2
      <4> QED BY <4>3 DEF Applications
    <3> QED BY <3>1
  <2>5. Range(desk.zorder) \subseteq Windows
    BY <2>2 DEF Range
  <2> QED BY <2>3, <2>4, <2>5 DEF Inv, IsPanel, Distinct, PanelBelongs
<1> QED BY <1>1, TurnsStaySound, PTL

\* The window the user chose is in front when the step is over, the window that
\* was listed and not another with its handle: nothing that follows in the step,
\* giving the focus back and hiding the surfaces, undoes it (do_switch_app,
\* cycle_windows, cancel_switch_app).
THEOREM ChosenWindowsLand == Spec => []ActivationLands
<1>1. Inv => ActivationLands
  <2> SUFFICES ASSUME Inv PROVE ActivationLands
    OBVIOUS
  <2>1. Good(Whole) /\ Whole.ui = ui /\ Whole.desk = desk /\ Whole.ghost = ghost
    BY DEF Inv, Whole
  <2> HIDE DEF Whole
  <2> QED BY <2>1 DEF Good, Sound, Landed, ActivationLands
<1> QED BY <1>1, TurnsStaySound, PTL
===============================================================================
