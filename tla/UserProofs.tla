----------------------------- MODULE UserProofs -----------------------------
(***************************************************************************)
(* What surrounds the kernel's core, proved for every size of its buffers, *)
(* every tree of widgets and every set of services and processes: the      *)
(* widget library, the text console, the Ring 3 services, the switch of    *)
(* contexts below them, the loader of programs and packages, what is read  *)
(* of devices and firmware when the kernel starts, and the browser.        *)
(***************************************************************************)
EXTENDS Widgets, Console, Ring3, Context, Loader, Devices, Browser, QueueLemmas

-----------------------------------------------------------------------------
(* Widgets *)

(* Every handler of a widget in its range leaves it in its range.           *)
InRange(w, s) ==
    /\ w = "slider" => s \in SliderMin .. SliderMax
    /\ w = "scroll" => s \in 0 .. MaxScroll
    /\ w \in {"drop", "tabs"} => s \in 0 .. Items - 1
    /\ w = "box" => s.text \in Nat /\ \E f : s = [focused |-> f, text |-> s.text]

(* The handle of a slider cannot be dragged out of its range.               *)
LEMMA SlideInRange ==
    ASSUME NEW at \in 0 .. Width - 1
    PROVE  SlideTo(at) \in SliderMin .. SliderMax
<1> DEFINE d == SliderMax - SliderMin
<1>1. d \in Nat /\ Width \in Nat /\ Width > 0 /\ at \in Nat /\ at < Width /\ SliderMin \in Int
    BY WidgetAssumption
<1> HIDE DEF d
<1>2. at * d \in Nat /\ at * d <= Width * d
    BY <1>1
<1> DEFINE q == (at * d) \div Width
<1>3. q \in Int /\ Width * q <= at * d /\ at * d < Width * (q + 1)
    BY <1>1, <1>2
<1> HIDE DEF q
<1>4. Width * q <= Width * d /\ 0 < Width * (q + 1)
    BY <1>1, <1>2, <1>3
<1>5. q <= d
    BY <1>1, <1>3, <1>4
<1>6. q + 1 > 0
    BY <1>1, <1>3, <1>4
<1>7. SlideTo(at) = SliderMin + q
    BY DEF SlideTo, q, d
<1> QED BY <1>1, <1>3, <1>5, <1>6, <1>7, WidgetAssumption DEF d

LEMMA HandledInRange ==
    ASSUME NEW i, NEW w, NEW s, NEW e \in Events3, InRange(w, s),
           NEW t \in HandleEvent(i, w, s, e)
    PROVE  InRange(w, t)
<1>1. CASE w = "slider"
    <2>1. t = SlideTo(e.at) /\ e.kind = "click"
        BY <1>1 DEF HandleEvent, SliderEvent, When, Click
    <2>2. e.at \in 0 .. Width - 1
        BY <2>1 DEF Events3
    <2> QED BY <1>1, <2>1, <2>2, SlideInRange DEF InRange
<1>2. CASE w = "scroll"
    <2>1. t = ClampScroll(s - ScrollStep) \/ t = ClampScroll(s + ScrollStep)
        BY <1>2 DEF HandleEvent, ScrollEvent, When
    <2> QED BY <1>2, <2>1, WidgetAssumption DEF InRange, ClampScroll
<1>3. CASE w = "drop"
    <2>1. t = (s + 1) % Items
        BY <1>3 DEF HandleEvent, DropEvent, When, Following3
    <2>2. s \in Int /\ Items \in Nat /\ Items > 0
        BY <1>3, WidgetAssumption DEF InRange
    <2> QED BY <1>3, <2>1, <2>2 DEF InRange
<1>4. CASE w = "tabs"
    <2>1. t = TabAt(e.at) /\ t < Items /\ e.kind = "click"
        BY <1>4 DEF HandleEvent, TabEvent, When
    <2>2. e.at \in 0 .. Width - 1
        BY <2>1 DEF Events3
    <2> DEFINE b == Width \div Items
    <2>3. b \in Nat /\ b > 0
        <3>1. Width \in Nat /\ Items \in Nat /\ Items > 0 /\ Width >= Items
            BY WidgetAssumption
        <3>2. b \in Int /\ Items * b <= Width /\ Width < Items * (b + 1)
            BY <3>1
        <3> HIDE DEF b
        <3>3. Items < Items * (b + 1)
            BY <3>1, <3>2
        <3> QED BY <3>1, <3>2, <3>3
    <2> HIDE DEF b
    <2>4. e.at \div b \in Nat
        BY <2>2, <2>3, WidgetAssumption
    <2>5. t = e.at \div b
        BY <2>1 DEF TabAt, b
    <2> QED BY <1>4, <2>1, <2>4, <2>5, WidgetAssumption DEF InRange
<1>5. CASE w = "box"
    <2>1. t = [s EXCEPT !.focused = ~s.focused] \/ t = [s EXCEPT !.text = @ + 1]
        BY <1>5 DEF HandleEvent, BoxEvent, When
    <2>2. PICK f : s.text \in Nat /\ s = [focused |-> f, text |-> s.text]
        BY <1>5 DEF InRange
    <2>3. PICK n \in Nat : n = s.text /\ s = [focused |-> f, text |-> n]
        BY <2>2
    <2>4. t = [focused |-> ~s.focused, text |-> n] \/ t = [focused |-> f, text |-> n + 1]
        BY <2>1, <2>3
    <2>5. t.text \in Nat /\ \E g : t = [focused |-> g, text |-> t.text]
        BY <2>3, <2>4
    <2> QED BY <1>5, <2>5 DEF InRange
<1> QED BY <1>1, <1>2, <1>3, <1>4, <1>5 DEF InRange

(* What is typed into a box is never taken away.                            *)
LEMMA TextGrows ==
    ASSUME NEW i, NEW s, NEW e \in Events3, InRange("box", s), NEW t \in HandleEvent(i, "box", s, e)
    PROVE  t.text >= s.text /\ s.text \in Nat /\ t.text \in Nat
<1>1. t = [s EXCEPT !.focused = ~s.focused] \/ t = [s EXCEPT !.text = @ + 1]
    BY DEF HandleEvent, BoxEvent, When
<1>2. PICK f : s.text \in Nat /\ s = [focused |-> f, text |-> s.text]
    BY DEF InRange
<1>3. PICK n \in Nat : n = s.text /\ s = [focused |-> f, text |-> n]
    BY <1>2
<1>4. t.text = n \/ t.text = n + 1
    BY <1>1, <1>3
<1> QED BY <1>3, <1>4

(* Only the picture of a hidden dialog depends on what was there before.    *)
LEMMA PictureOfState ==
    ASSUME NEW w, NEW s, NEW old, NEW new, ~(w = "dialog" /\ ~s)
    PROVE  DrawnAs(w, s, old) = DrawnAs(w, s, new)
BY DEF DrawnAs, DialogDraw

(* A visible dialog is dirty only before its first picture: it is not drawn *)
(* over widgets that are on the screen already.                             *)
DialogsWereDrawn == \A d \in dirtyW : tree.kind[d] = "dialog" /\ st[d] => dirtyW = Nodes3

WidgetInv ==
    /\ tree.kind \in Seq(STRING) /\ tree.first \in [Nodes3 -> Nat] /\ dirtyW \subseteq Nodes3
    /\ st = [i \in Nodes3 |-> st[i]] /\ screen = [i \in Nodes3 |-> screen[i]]
    /\ DialogsWereDrawn /\ ScreenIsCurrent
    /\ \A i \in Nodes3 : InRange(tree.kind[i], st[i])

LEMMA NewInRange ==
    ASSUME NEW w
    PROVE  InRange(w, NewOf(w))
<1>1. CASE w = "slider"
    <2>1. NewOf(w) = SliderMin
        BY <1>1, Zenon DEF NewOf
    <2> QED BY <1>1, <2>1, WidgetAssumption DEF InRange
<1>2. CASE w \in {"scroll", "drop", "tabs"}
    <2>1. NewOf(w) = 0
        BY <1>2, Zenon DEF NewOf
    <2> QED BY <1>2, <2>1, WidgetAssumption DEF InRange
<1>3. CASE w = "box"
    <2>1. NewOf(w) = BoxNew
        BY <1>3, Zenon DEF NewOf
    <2>2. BoxNew.text \in Nat /\ \E f : BoxNew = [focused |-> f, text |-> BoxNew.text]
        BY DEF BoxNew
    <2> QED BY <1>3, <2>1, <2>2 DEF InRange
<1> QED BY <1>1, <1>2, <1>3 DEF InRange

LEMMA WidgetInvInit ==
    ASSUME WidgetInit
    PROVE  WidgetInv
<1>1. tree.kind \in Seq(STRING) /\ tree.first \in [Nodes3 -> Nat] /\ dirtyW = Nodes3
    BY WidgetAssumption DEF WidgetInit, Nodes3
<1>2. st = [i \in Nodes3 |-> NewOf(tree.kind[i])] /\ screen = [i \in Nodes3 |-> Nothing]
    BY DEF WidgetInit, NewWidgets, Unpainted, Nodes3
<1>3. \A i \in Nodes3 : InRange(tree.kind[i], st[i])
    BY <1>2, NewInRange
<1>4. DialogsWereDrawn /\ ScreenIsCurrent
    BY <1>1 DEF DialogsWereDrawn, ScreenIsCurrent
<1> QED BY <1>1, <1>2, <1>3, <1>4 DEF WidgetInv

LEMMA SetRootKeeps ==
    ASSUME SetRoot
    PROVE  WidgetInv'
<1>1. tree'.kind \in Seq(STRING) /\ tree'.first \in [Nodes3' -> Nat] /\ dirtyW' = Nodes3'
    BY WidgetAssumption DEF SetRoot, Nodes3
<1>2. st' = [i \in Nodes3' |-> NewOf(tree'.kind[i])] /\ screen' = [i \in Nodes3' |-> Nothing]
    BY DEF SetRoot, NewWidgets, Unpainted, Nodes3
<1>3. \A i \in Nodes3' : InRange(tree'.kind[i], st'[i])
    BY <1>2, NewInRange
<1>4. DialogsWereDrawn' /\ ScreenIsCurrent'
    BY <1>1 DEF DialogsWereDrawn, ScreenIsCurrent
<1> QED BY <1>1, <1>2, <1>3, <1>4 DEF WidgetInv, InRange

LEMMA DispatchKeeps ==
    ASSUME WidgetInv, NEW e \in Events3, Dispatch(e)
    PROVE  WidgetInv'
<1>0. /\ tree' = tree /\ screen' = screen /\ Nodes3' = Nodes3 /\ dirtyW \subseteq Nodes3
      /\ \A i \in Nodes3 : InRange(tree.kind[i], st[i])
    BY DEF Dispatch, Nodes3, WidgetInv
<1>1. CASE UNCHANGED <<st, dirtyW>>
    BY <1>0, <1>1 DEF WidgetInv, DialogsWereDrawn, ScreenIsCurrent, MaySpoil, TooLong, Descendant, InRange
<1>2. CASE ~UNCHANGED <<st, dirtyW>>
    <2>1. PICK i \in Takers(e) : /\ \E s \in HandleEvent(i, tree.kind[i], st[i], e) : st' = [st EXCEPT ![i] = s]
                                 /\ dirtyW' = dirtyW \cup {i}
        BY <1>2 DEF Dispatch
    <2>2. PICK s \in HandleEvent(i, tree.kind[i], st[i], e) : st' = [st EXCEPT ![i] = s]
        BY <2>1
    <2>3. i \in Nodes3
        BY DEF Takers
    <2>4. st' = [j \in Nodes3 |-> IF j = i THEN s ELSE st[j]]
        BY <2>2, <2>3 DEF WidgetInv
    <2>5. InRange(tree.kind[i], s)
        BY <1>0, <2>3, HandledInRange
    <2>6. \A j \in Nodes3 : InRange(tree.kind[j], st'[j])
        BY <1>0, <2>4, <2>5
    <2>7. \A j \in Nodes3 : TooLong(j) => TooLong(j)'
        <3> SUFFICES ASSUME NEW j \in Nodes3, tree.kind[j] = "box", st[j].text > BoxChars
                     PROVE  st'[j].text > BoxChars
            BY <1>0 DEF TooLong
        <3>1. CASE j = i
            <4>1. s.text >= st[i].text /\ st[i].text \in Nat /\ s.text \in Nat
                BY <1>0, <2>2, <3>1, TextGrows
            <4>2. st'[j] = s
                BY <2>4, <3>1
            <4> QED BY <3>1, <4>1, <4>2, WidgetAssumption
        <3>2. CASE j # i
            BY <2>4, <3>2
        <3> QED BY <3>1, <3>2
    <2>8. \A j \in Nodes3, k \in Nodes3 : MaySpoil(j, k) => MaySpoil(j, k)'
        BY <1>0, <2>7 DEF MaySpoil, Descendant
    <2>9. ScreenIsCurrent'
        <3> SUFFICES ASSUME NEW k \in Nodes3, k \notin dirtyW'
                     PROVE  \/ tree.kind[k] = "dialog" /\ ~st'[k]
                            \/ screen[k] = DrawnAs(tree.kind[k], st'[k], Nothing)
                            \/ screen[k] = Nothing /\ \E j \in Nodes3 : MaySpoil(j, k)'
            BY <1>0 DEF ScreenIsCurrent
        <3>1. k \in Nodes3 \ dirtyW /\ st'[k] = st[k]
            BY <2>1, <2>4
        <3>2. \/ tree.kind[k] = "dialog" /\ ~st[k]
              \/ screen[k] = DrawnAs(tree.kind[k], st[k], Nothing)
              \/ screen[k] = Nothing /\ \E j \in Nodes3 : MaySpoil(j, k)
            BY <3>1 DEF WidgetInv, ScreenIsCurrent
        <3> QED BY <2>8, <3>1, <3>2
    <2>10. DialogsWereDrawn'
        <3> SUFFICES ASSUME NEW d \in dirtyW', tree.kind[d] = "dialog", st'[d]
                     PROVE  dirtyW' = Nodes3
            BY <1>0 DEF DialogsWereDrawn
        <3>1. CASE d = i
            <4>1. s = FALSE
                BY <2>2, <3>1 DEF HandleEvent, DialogEvent, When
            <4> QED BY <2>3, <2>4, <3>1, <4>1
        <3>2. CASE d # i
            <4>1. d \in dirtyW /\ d \in Nodes3
                BY <1>0, <2>1, <3>2
            <4>2. dirtyW = Nodes3
                BY <2>4, <3>2, <4>1 DEF WidgetInv, DialogsWereDrawn
            <4> QED BY <2>1, <2>3, <4>2
        <3> QED BY <3>1, <3>2
    <2> QED BY <1>0, <2>1, <2>3, <2>4, <2>6, <2>9, <2>10 DEF WidgetInv, InRange
<1> QED BY <1>1, <1>2

(* A parent is drawn before what lies in it.                                *)
LEMMA ParentFirst ==
    ASSUME tree.first \in [Nodes3 -> Nat], NEW i \in Nodes3, NEW j \in Nodes3, Descendant(i, j)
    PROVE  ~DrawnBefore(i, j)
<1>2. i \in tree.first[j] .. j - 1
    BY DEF Descendant
<1>3. i \in Int /\ j \in Int
    BY DEF Nodes3
<1>4. i < j
    BY <1>2, <1>3
<1>5. ~Descendant(j, i)
    BY <1>3, <1>4 DEF Descendant
<1> QED BY <1>5 DEF DrawnBefore

LEMMA RenderKeeps ==
    ASSUME WidgetInv, RenderDirty
    PROVE  WidgetInv'
<1>0. tree' = tree /\ st' = st /\ dirtyW' = {} /\ Nodes3' = Nodes3
    BY DEF RenderDirty, Nodes3
<1>1. /\ screen' = [i \in Nodes3 |-> screen'[i]]
      /\ \A i \in Nodes3 : screen'[i] = IF PaintedOver(i) THEN Nothing
              ELSE IF i \in dirtyW THEN DrawnAs(tree.kind[i], st[i], Before3(i)) ELSE screen[i]
    BY DEF RenderDirty
<1>2. DialogsWereDrawn'
    BY <1>0 DEF DialogsWereDrawn
<1>3. ScreenIsCurrent'
    <2> SUFFICES ASSUME NEW i \in Nodes3, ~(tree.kind[i] = "dialog" /\ ~st[i])
                 PROVE  \/ screen'[i] = DrawnAs(tree.kind[i], st[i], Nothing)
                        \/ screen'[i] = Nothing /\ \E j \in Nodes3 : MaySpoil(j, i)
        BY <1>0 DEF ScreenIsCurrent, MaySpoil, TooLong, Descendant
    <2>1. CASE PaintedOver(i)
        <3>1. PICK j \in dirtyW : PaintsOn(j, i) /\ (i \in dirtyW => DrawnBefore(i, j))
            BY <2>1 DEF PaintedOver
        <3>2. j \in Nodes3 /\ tree.first \in [Nodes3 -> Nat]
            BY DEF WidgetInv
        <3>3. ASSUME Descendant(i, j), tree.kind[j] = "dialog", st[j]
              PROVE  FALSE
            <4>1. i \in dirtyW
                BY <3>3 DEF WidgetInv, DialogsWereDrawn
            <4> QED BY <3>1, <3>2, <3>3, <4>1, ParentFirst
        <3>4. MaySpoil(j, i)
            BY <3>1, <3>3 DEF PaintsOn, PaintsAll, MaySpoil
        <3> QED BY <1>1, <2>1, <3>2, <3>4
    <2>2. CASE ~PaintedOver(i) /\ i \in dirtyW
        <3>1. screen'[i] = DrawnAs(tree.kind[i], st[i], Before3(i))
            BY <1>1, <2>2
        <3> QED BY <3>1, PictureOfState
    <2>3. CASE ~PaintedOver(i) /\ i \notin dirtyW
        <3>1. screen'[i] = screen[i]
            BY <1>1, <2>3
        <3> QED BY <2>3, <3>1 DEF WidgetInv, ScreenIsCurrent
    <2> QED BY <2>1, <2>2, <2>3
<1> QED BY <1>0, <1>1, <1>2, <1>3 DEF WidgetInv, InRange

(* What the user sees of every widget that is not waiting to be drawn is    *)
(* its present state, unless it lies in a button, a dropdown or a text box  *)
(* or beside a box with too long a text, and no event leads a widget out of *)
(* its range, for trees of any depth, every width and every range.  The     *)
(* screen alone is not inductive: a dialog painted again would cover its    *)
(* children, and that it is not rests on Escape being the only event it     *)
(* takes (libspark_ui.rs: dispatch_node, render_node and the handlers).     *)
THEOREM WidgetsAreSound == WidgetSpec => []WidgetsSound
<1>1. WidgetInit => WidgetInv
    BY WidgetInvInit
<1>2. WidgetInv /\ [WidgetNext]_widgetVars => WidgetInv'
    <2> SUFFICES ASSUME WidgetInv, [WidgetNext]_widgetVars
                 PROVE  WidgetInv'
        OBVIOUS
    <2>1. CASE UNCHANGED widgetVars
        <3>1. tree' = tree /\ st' = st /\ dirtyW' = dirtyW /\ screen' = screen /\ Nodes3' = Nodes3
            BY <2>1 DEF widgetVars, Nodes3
        <3> QED BY <3>1 DEF WidgetInv, DialogsWereDrawn, ScreenIsCurrent, MaySpoil, TooLong, Descendant, InRange
    <2>2. CASE RenderDirty
        BY <2>2, RenderKeeps
    <2>3. CASE \E e \in Events3 : Dispatch(e)
        BY <2>3, DispatchKeeps
    <2>4. CASE SetRoot
        BY <2>4, SetRootKeeps
    <2> QED BY <2>1, <2>2, <2>3, <2>4 DEF WidgetNext
<1>3. WidgetInv => WidgetsSound
    BY DEF WidgetInv, WidgetsSound, WidgetsInRange, InRange
<1> QED BY <1>1, <1>2, <1>3, PTL DEF WidgetSpec

-----------------------------------------------------------------------------
(* Console: the ring *)

(* The remainder of what is less than twice the divisor.                    *)
LEMMA ModOnce ==
    ASSUME NEW n \in Nat, n > 0, NEW a \in 0 .. 2 * n - 1
    PROVE  a % n = IF a < n THEN a ELSE a - n
<1>1. CASE a < n
    BY <1>1
<1>2. CASE a >= n
    <2> DEFINE b == a - n
    <2>1. b \in 0 .. n - 1 /\ a = b + n
        BY <1>2
    <2> QED BY <1>2, <2>1
<1> QED BY <1>1, <1>2

(* The keys, and the characters of lines, names and what is shown.          *)
Chars ==
    Codes \cup SerialKeys \cup {"up", "down", "8", "2", NoKey, "prompt erased"}
    \cup UNION {{n[i] : i \in 1 .. Len(n)} : n \in FileNames}

RingHolds(rg, r, w, u) ==
    /\ rg \in [0 .. RingSize - 1 -> Chars] /\ u \in Seq(Chars)
    /\ r \in 0 .. RingSize - 1 /\ w \in 0 .. RingSize - 1
    /\ Len(u) = (w - r + RingSize) % RingSize
    /\ \A i \in DOMAIN u : u[i] = rg[(r + i - 1) % RingSize]

(* Where things are, without remainders.                                    *)
RingPlace(r, i) == IF r + i < RingSize THEN r + i ELSE r + i - RingSize
Held(r, w) == IF w >= r THEN w - r ELSE w - r + RingSize

RingSays(rg, r, w, u) ==
    /\ rg \in [0 .. RingSize - 1 -> Chars] /\ u \in Seq(Chars)
    /\ Len(u) = Held(r, w)
    /\ \A i \in 1 .. Held(r, w) : u[i] = rg[RingPlace(r, i - 1)]

LEMMA AfterPlace ==
    ASSUME NEW w \in 0 .. RingSize - 1
    PROVE  After(w) = RingPlace(w, 1)
<1>1. RingSize \in Nat /\ RingSize > 1
    BY ConsoleAssumption
<1> QED BY <1>1, ModOnce DEF After, RingPlace

LEMMA RingPlaces ==
    ASSUME NEW rg, NEW u, NEW r \in 0 .. RingSize - 1, NEW w \in 0 .. RingSize - 1
    PROVE  RingHolds(rg, r, w, u) <=> RingSays(rg, r, w, u)
<1>1. RingSize \in Nat /\ RingSize > 1
    BY ConsoleAssumption
<1>3. (w - r + RingSize) % RingSize = Held(r, w)
    <2>1. w - r + RingSize \in 0 .. 2 * RingSize - 1
        BY <1>1
    <2> QED BY <1>1, <2>1, ModOnce DEF Held
<1>4. Held(r, w) \in 0 .. RingSize - 1
    BY <1>1 DEF Held
<1>5. \A i \in 1 .. Held(r, w) : (r + i - 1) % RingSize = RingPlace(r, i - 1)
    <2> SUFFICES ASSUME NEW i \in 1 .. Held(r, w)
                 PROVE  (r + i - 1) % RingSize = RingPlace(r, i - 1)
        OBVIOUS
    <2>1. r + i - 1 \in 0 .. 2 * RingSize - 1
        BY <1>1, <1>4
    <2> QED BY <1>1, <1>4, <2>1, ModOnce DEF RingPlace
<1>6. u \in Seq(Chars) => DOMAIN u = 1 .. Len(u)
    OBVIOUS
<1> HIDE DEF RingPlace, Held
<1> QED BY <1>3, <1>5, <1>6 DEF RingHolds, RingSays

(* push: unless the ring is full there is room in the queue it stands for.  *)
LEMMA RingPushed ==
    ASSUME NEW rg, NEW u, NEW r, NEW w, NEW k \in Chars,
           RingHolds(rg, r, w, u), After(w) # r
    PROVE  /\ Len(u) < RingSize - 1
           /\ RingHolds([rg EXCEPT ![w] = k], r, After(w), Append(u, k))
<1>1. RingSize \in Nat /\ RingSize > 1 /\ r \in 0 .. RingSize - 1 /\ w \in 0 .. RingSize - 1
    BY ConsoleAssumption DEF RingHolds
<1>2. /\ rg \in [0 .. RingSize - 1 -> Chars] /\ u \in Seq(Chars)
      /\ Len(u) = Held(r, w)
      /\ \A i \in 1 .. Held(r, w) : u[i] = rg[RingPlace(r, i - 1)]
      /\ After(w) = RingPlace(w, 1)
    <2>1. RingSays(rg, r, w, u)
        BY <1>1, RingPlaces, Zenon
    <2>2. After(w) = RingPlace(w, 1)
        BY <1>1, AfterPlace
    <2> QED BY <2>1, <2>2, Zenon DEF RingSays
<1>3. /\ Held(r, w) < RingSize - 1 /\ RingPlace(w, 1) \in 0 .. RingSize - 1
      /\ Held(r, RingPlace(w, 1)) = Held(r, w) + 1 /\ Held(r, w) \in Nat
      /\ RingPlace(r, Held(r, w)) = w
      /\ \A i \in 1 .. Held(r, w) : RingPlace(r, i - 1) # w /\ RingPlace(r, i - 1) \in 0 .. RingSize - 1
    BY <1>1, <1>2 DEF Held, RingPlace
<1> DEFINE v == Append(u, k)
           g == [rg EXCEPT ![w] = k]
<1>4. v \in Seq(Chars) /\ Len(v) = Held(r, w) + 1 /\ g \in [0 .. RingSize - 1 -> Chars]
    BY <1>1, <1>2
<1>5. \A i \in 1 .. Held(r, w) + 1 : v[i] = g[RingPlace(r, i - 1)]
    <2> SUFFICES ASSUME NEW i \in 1 .. Held(r, w) + 1 PROVE v[i] = g[RingPlace(r, i - 1)]
        OBVIOUS
    <2>1. CASE i \in 1 .. Held(r, w)
        <3>1. v[i] = u[i]
            BY <1>2, <2>1
        <3>2. g[RingPlace(r, i - 1)] = rg[RingPlace(r, i - 1)]
            BY <1>2, <1>3, <2>1
        <3> QED BY <1>2, <2>1, <3>1, <3>2
    <2>2. CASE i = Held(r, w) + 1
        <3>1. i - 1 = Held(r, w) /\ RingPlace(r, i - 1) = w
            BY <1>3, <2>2
        <3>2. v[i] = k
            BY <1>2, <2>2, AppendProperties
        <3>3. w \in DOMAIN rg
            BY <1>1, <1>2
        <3>4. g[w] = k
            BY <3>3, Zenon
        <3> QED BY <3>1, <3>2, <3>4
    <2>3. i \in 1 .. Held(r, w) \/ i = Held(r, w) + 1
        BY <1>3
    <2> QED BY <2>1, <2>2, <2>3, Zenon
<1> HIDE DEF v, g
<1>6. RingHolds(g, r, RingPlace(w, 1), v)
    <2>1. RingSays(g, r, RingPlace(w, 1), v)
        BY <1>3, <1>4, <1>5 DEF RingSays
    <2> QED BY <1>1, <1>3, <2>1, RingPlaces, Zenon
<1> QED BY <1>2, <1>3, <1>6 DEF v, g

(* pop: the key at the read end is the oldest one.                          *)
LEMMA RingPopped ==
    ASSUME NEW rg, NEW u, NEW r, NEW w, NEW k \in Chars,
           RingHolds(rg, r, w, u), r # w
    PROVE  RingHolds([rg EXCEPT ![r] = k], After(r), w, Tail(u)) /\ rg[r] \in Chars
<1>1. RingSize \in Nat /\ RingSize > 1 /\ r \in 0 .. RingSize - 1 /\ w \in 0 .. RingSize - 1
    BY ConsoleAssumption DEF RingHolds
<1>2. /\ rg \in [0 .. RingSize - 1 -> Chars] /\ u \in Seq(Chars)
      /\ Len(u) = Held(r, w)
      /\ \A i \in 1 .. Held(r, w) : u[i] = rg[RingPlace(r, i - 1)]
      /\ After(r) = RingPlace(r, 1)
    <2>1. RingSays(rg, r, w, u)
        BY <1>1, RingPlaces, Zenon
    <2>2. After(r) = RingPlace(r, 1)
        BY <1>1, AfterPlace
    <2> QED BY <2>1, <2>2, Zenon DEF RingSays
<1>3. /\ RingPlace(r, 1) \in 0 .. RingSize - 1 /\ Held(r, w) \in Nat \ {0}
      /\ Held(RingPlace(r, 1), w) = Held(r, w) - 1
      /\ \A i \in 1 .. Held(r, w) - 1 : /\ RingPlace(RingPlace(r, 1), i - 1) = RingPlace(r, i)
                                        /\ RingPlace(r, i) # r /\ RingPlace(r, i) \in 0 .. RingSize - 1
    BY <1>1 DEF Held, RingPlace
<1> DEFINE v == Tail(u)
           g == [rg EXCEPT ![r] = k]
<1>4. u # << >>
    BY <1>2, <1>3
<1>5. /\ v \in Seq(Chars) /\ Len(v) = Held(r, w) - 1 /\ g \in [0 .. RingSize - 1 -> Chars]
      /\ \A i \in 1 .. Held(r, w) - 1 : v[i] = u[i + 1]
    BY <1>1, <1>2, <1>4, HeadTailProperties
<1>6. \A i \in 1 .. Held(r, w) - 1 : v[i] = g[RingPlace(RingPlace(r, 1), i - 1)]
    <2> SUFFICES ASSUME NEW i \in 1 .. Held(r, w) - 1 PROVE v[i] = g[RingPlace(RingPlace(r, 1), i - 1)]
        OBVIOUS
    <2>1. i + 1 \in 1 .. Held(r, w) /\ (i + 1) - 1 = i
        BY <1>3
    <2>2. u[i + 1] = rg[RingPlace(r, i)]
        BY <1>2, <2>1
    <2>3. g[RingPlace(r, i)] = rg[RingPlace(r, i)]
        BY <1>2, <1>3
    <2> QED BY <1>3, <1>5, <2>2, <2>3
<1> HIDE DEF v, g
<1>7. RingHolds(g, RingPlace(r, 1), w, v)
    <2>1. RingSays(g, RingPlace(r, 1), w, v)
        BY <1>3, <1>5, <1>6 DEF RingSays
    <2> QED BY <1>1, <1>3, <2>1, RingPlaces, Zenon
<1> QED BY <1>1, <1>2, <1>7 DEF v, g

(* Console: the line and the history *)

LEMMA KeysAreChars ==
    /\ \A code \in Codes : KeyOf(code) \in Chars
    /\ SerialKeys \subseteq Chars /\ NoKey \in Chars /\ "prompt erased" \in Chars
<1>1. ASSUME NEW code \in Codes
      PROVE  KeyOf(code) \in Chars
    <2>1. KeyOf(code) \in {"up", "down", NoKey, "ctrlc", "c", "8", "2", code}
        BY DEF KeyOf
    <2> QED BY <2>1, Zenon DEF Chars, Codes, SerialKeys
<1> QED BY <1>1, Zenon DEF Chars

LEMMA NamesAreChars ==
    ASSUME NEW n \in FileNames
    PROVE  n \in Seq(Chars)
<1>1. n \in Seq(STRING)
    BY ConsoleAssumption
<1>2. Len(n) \in Nat /\ n \in [1 .. Len(n) -> STRING]
    BY <1>1, LenProperties
<1>3. ASSUME NEW i \in 1 .. Len(n)
      PROVE  n[i] \in Chars
    <2> DEFINE R == {n[j] : j \in 1 .. Len(n)}
    <2>1. R \in {{m[j] : j \in 1 .. Len(m)} : m \in FileNames}
        BY Zenon
    <2>2. n[i] \in R
        OBVIOUS
    <2> HIDE DEF R
    <2> QED BY <2>1, <2>2, Zenon DEF Chars
<1>4. n \in [1 .. Len(n) -> Chars]
    BY <1>2, <1>3, Zenon
<1> HIDE DEF Chars
<1> QED BY <1>2, <1>4

(* The last gap in a line is in the line.                                   *)
LEMMA LastExists ==
    ASSUME NEW n \in Nat, NEW T \in SUBSET (1 .. n), T # {}
    PROVE  \E m \in T : \A t \in T : t <= m
<1> DEFINE U == {n - t : t \in T}
<1>1. U \in SUBSET Nat /\ U # {}
    <2>1. \A t \in T : n - t \in Nat
        OBVIOUS
    <2>2. PICK t \in T : TRUE
        OBVIOUS
    <2>3. n - t \in U
        OBVIOUS
    <2> QED BY <2>1, <2>3
<1>2. PICK u \in U : \A v \in U : u <= v
    BY <1>1, MinExists
<1>3. PICK m \in T : u = n - m
    BY <1>2
<1>4. \A t \in T : n - m <= n - t
    BY <1>2, <1>3
<1> QED BY <1>4

LEMMA WordInLine ==
    ASSUME line \in Seq(Chars)
    PROVE  WordStart \in 0 .. Len(line)
<1> DEFINE gaps == {i \in DOMAIN line : line[i] = "space"}
<1>0. Len(line) \in Nat /\ DOMAIN line = 1 .. Len(line)
    OBVIOUS
<1>1. WordStart = IF gaps = {} THEN 0 ELSE CHOOSE i \in gaps : \A j \in gaps : j <= i
    BY Zenon DEF WordStart
<1>2. gaps \in SUBSET (1 .. Len(line))
    BY <1>0
<1> HIDE DEF gaps
<1>3. CASE gaps # {}
    <2>1. \E i \in gaps : \A j \in gaps : j <= i
        BY <1>0, <1>2, <1>3, LastExists
    <2>2. WordStart \in gaps
        BY <1>1, <1>3, <2>1
    <2> QED BY <1>0, <1>2, <2>2
<1> QED BY <1>0, <1>1, <1>3

(* What load_history and auto_complete leave on the screen: the part of the *)
(* line that is kept, and behind it what is written.                        *)
LEMMA Rewritten3 ==
    ASSUME NEW l \in Seq(Chars), NEW w \in 0 .. Len(l), NEW t \in Seq(Chars)
    PROVE  /\ SubSeq(l, 1, w) \o t \in Seq(Chars)
           /\ LET c == SubSeq(l, 1, w) \o t
              IN  SubSeq(l, 1, Len(l) - Len(SubSeq(l, w + 1, Len(l)))) \o SubSeq(c, w + 1, Len(c)) = c
           /\ Len(SubSeq(l, w + 1, Len(l))) <= Len(l)
<1> DEFINE a == SubSeq(l, 1, w)
           c == a \o t
           b == SubSeq(l, w + 1, Len(l))
           d == SubSeq(c, w + 1, Len(c))
<1>0. Len(l) \in Nat /\ w \in Int /\ \A i \in 1 .. Len(l) : l[i] \in Chars
    OBVIOUS
<1>1. a \in Seq(Chars) /\ Len(a) = w
    <2>1. \A i \in 1 .. w : l[i] \in Chars
        BY <1>0
    <2> QED BY <1>0, <2>1, SubSeqProperties
<1>2. Len(b) = Len(l) - w
    <2>1. \A i \in w + 1 .. Len(l) : l[i] \in Chars
        BY <1>0
    <2>2. Len(b) = IF w + 1 <= Len(l) THEN Len(l) - (w + 1) + 1 ELSE 0
        BY <1>0, <2>1, SubSeqProperties
    <2> QED BY <1>0, <2>2
<1> HIDE DEF a
<1>3. /\ c \in Seq(Chars) /\ Len(c) = w + Len(t) /\ Len(t) \in Nat
      /\ \A i \in 1 .. w + Len(t) : c[i] = IF i <= w THEN a[i] ELSE t[i - w]
    <2>1. /\ c \in Seq(Chars) /\ Len(c) = Len(a) + Len(t)
          /\ \A i \in 1 .. Len(a) + Len(t) : c[i] = IF i <= Len(a) THEN a[i] ELSE t[i - Len(a)]
        BY <1>1, ConcatProperties, Zenon
    <2>2. Len(t) \in Nat
        OBVIOUS
    <2> HIDE DEF c
    <2> QED BY <1>1, <2>1, <2>2
<1> HIDE DEF c
<1>4. d \in Seq(Chars) /\ Len(d) = Len(t) /\ \A i \in 1 .. Len(t) : d[i] = c[w + i]
    <2>1. \A i \in w + 1 .. Len(c) : c[i] \in Chars
        BY <1>0, <1>3
    <2>2. /\ d \in Seq(Chars) /\ Len(d) = IF w + 1 <= Len(c) THEN Len(c) - (w + 1) + 1 ELSE 0
          /\ \A i \in 1 .. Len(c) - (w + 1) + 1 : d[i] = c[w + 1 + i - 1]
        <3>1. w + 1 \in Int /\ Len(c) \in Int
            BY <1>0, <1>3
        <3>2. d \in Seq(Chars)
            BY <2>1, <3>1, SubSeqProperties
        <3>3. Len(d) = IF w + 1 <= Len(c) THEN Len(c) - (w + 1) + 1 ELSE 0
            BY <2>1, <3>1, SubSeqProperties
        <3>4. \A i \in 1 .. Len(c) - (w + 1) + 1 : d[i] = c[w + 1 + i - 1]
            BY <2>1, <3>1, SubSeqProperties
        <3> QED BY <3>2, <3>3, <3>4, Zenon
    <2> QED BY <1>0, <1>3, <2>2
<1> HIDE DEF d
<1>5. d = t
    <2>1. ASSUME NEW i \in 1 .. Len(d) PROVE d[i] = t[i]
        <3>1. w + i \in 1 .. w + Len(t) /\ ~(w + i <= w) /\ (w + i) - w = i
            BY <1>0, <1>3, <1>4
        <3> QED BY <1>3, <1>4, <3>1
    <2> QED BY <1>3, <1>4, <2>1, SeqEqual
<1>6. Len(l) - Len(b) = w
    BY <1>0, <1>2
<1>7. SubSeq(l, 1, Len(l) - Len(b)) \o d = c
    BY <1>5, <1>6 DEF a, c
<1>8. Len(b) <= Len(l)
    BY <1>0, <1>2
<1> QED BY <1>3, <1>7, <1>8, Zenon DEF a, c, d

(* A history the arrows can walk.                                           *)
Usable(h) ==
    /\ h \in Seq(Seq(Chars)) /\ Len(h) <= HistorySize
    /\ \A i \in DOMAIN h : ~Blank(h[i]) /\ (i > 1 => h[i] # h[i - 1])

LEMMA HistoryGrows ==
    ASSUME NEW h, Usable(h), NEW l \in Seq(Chars), ~Blank(l), ~(h # << >> /\ Last(h) = l)
    PROVE  Usable(Kept20(Append(h, l)))
<1> DEFINE a == Append(h, l)
<1>1. h \in Seq(Seq(Chars)) /\ Len(h) \in Nat /\ HistorySize \in Nat /\ Len(h) <= HistorySize
    BY ConsoleAssumption DEF Usable
<1>2. /\ a \in Seq(Seq(Chars)) /\ Len(a) = Len(h) + 1 /\ a # << >>
      /\ \A i \in 1 .. Len(h) : a[i] = h[i]
      /\ a[Len(h) + 1] = l
    BY <1>1, AppendProperties
<1> HIDE DEF a
<1>3. \A i \in 1 .. Len(a) : ~Blank(a[i]) /\ (i > 1 => a[i] # a[i - 1])
    <2> SUFFICES ASSUME NEW i \in 1 .. Len(a) PROVE ~Blank(a[i]) /\ (i > 1 => a[i] # a[i - 1])
        OBVIOUS
    <2>1. CASE i <= Len(h)
        <3>1. i \in 1 .. Len(h) /\ i \in DOMAIN h /\ (i > 1 => i - 1 \in 1 .. Len(h))
            BY <1>1, <2>1
        <3>2. ~Blank(h[i]) /\ (i > 1 => h[i] # h[i - 1])
            BY <3>1 DEF Usable
        <3> QED BY <1>2, <3>1, <3>2
    <2>2. CASE i = Len(h) + 1
        <3>1. i > 1 => h # << >> /\ a[i - 1] = h[Len(h)]
            BY <1>1, <1>2, <2>2
        <3>2. i > 1 => a[i - 1] # l
            BY <3>1 DEF Last
        <3> QED BY <1>2, <2>2, <3>2
    <2> QED BY <1>1, <1>2, <2>1, <2>2
<1>4. CASE Len(a) > HistorySize
    <2> DEFINE b == Tail(a)
    <2>1. /\ b \in Seq(Seq(Chars)) /\ Len(b) = Len(h)
          /\ \A i \in 1 .. Len(b) : b[i] = a[i + 1]
        BY <1>1, <1>2, HeadTailProperties
    <2>2. Kept20(a) = b
        BY <1>4 DEF Kept20
    <2> HIDE DEF b
    <2>3. ASSUME NEW i \in 1 .. Len(b)
          PROVE  ~Blank(b[i]) /\ (i > 1 => b[i] # b[i - 1])
        <3>1. i + 1 \in 1 .. Len(a) /\ i + 1 > 1 /\ (i + 1) - 1 = i
            BY <1>1, <1>2, <2>1
        <3>2. b[i] = a[i + 1] /\ (i > 1 => b[i - 1] = a[i])
            BY <1>1, <2>1
        <3>3. ~Blank(a[i + 1]) /\ a[i + 1] # a[i]
            BY <1>3, <3>1
        <3> QED BY <3>2, <3>3
    <2>4. DOMAIN b = 1 .. Len(b)
        BY <2>1
    <2> QED BY <1>1, <2>1, <2>2, <2>3, <2>4 DEF Usable, a
<1>5. CASE ~(Len(a) > HistorySize)
    <2>1. Kept20(a) = a /\ DOMAIN a = 1 .. Len(a) /\ Len(a) <= HistorySize
        BY <1>1, <1>2, <1>5 DEF Kept20
    <2> QED BY <1>2, <1>3, <2>1 DEF Usable, a
<1> QED BY <1>4, <1>5

(* Console: the steps *)

LineTyped == /\ key \in Chars /\ line \in Seq(Chars) /\ column \in 0 .. Cols /\ room \in 0 .. Cols
             /\ Usable(history) /\ historyIdx \in 0 .. Len(history)

RingInv == RingHolds(ring, readAt, writeAt, unread)

(* While the line fits into the row of its prompt the cursor is behind it.  *)
EchoHolds == /\ lost \/ shown = line
             /\ fits => ~lost /\ Len(line) <= room /\ column = Cols - room + Len(line)
ScreenInv == conAt \in {"poll", "pop", "got"} /\ ~mixed => EchoHolds

ConsoleInv == RingInv /\ LineTyped /\ ScreenInv

LEMMA EchoKept ==
    ASSUME line' = line, shown' = shown, column' = column, room' = room, fits' = fits, lost' = lost
    PROVE  EchoHolds' = EchoHolds
BY DEF EchoHolds

LEMMA EmptyRing ==
    ASSUME NEW rg \in [0 .. RingSize - 1 -> Chars]
    PROVE  RingHolds(rg, 0, 0, << >>)
<1>1. RingSize \in Nat /\ RingSize > 1 /\ 0 \in 0 .. RingSize - 1
    BY ConsoleAssumption
<1>2. RingSize % RingSize = 0
    BY <1>1, ModOnce
<1>3. << >> \in Seq(Chars) /\ Len(<< >>) = 0 /\ DOMAIN << >> = {}
    OBVIOUS
<1>4. (0 - 0 + RingSize) % RingSize = 0
    BY <1>1, <1>2
<1> QED BY <1>1, <1>3, <1>4 DEF RingHolds

LEMMA ConsoleInvInit ==
    ASSUME ConsoleInit
    PROVE  ConsoleInv
<1>1. RingSize \in Nat /\ RingSize > 1 /\ HistorySize \in Nat
    BY ConsoleAssumption
<1>2. << >> \in Seq(Chars) /\ Len(<< >>) = 0 /\ << >> \in Seq(Seq(Chars))
    OBVIOUS
<1>3. RingInv
    <2>1. [i \in 0 .. RingSize - 1 |-> NoKey] \in [0 .. RingSize - 1 -> Chars]
        BY KeysAreChars, Zenon
    <2>2. RingHolds([i \in 0 .. RingSize - 1 |-> NoKey], 0, 0, << >>)
        BY <2>1, EmptyRing
    <2> QED BY <2>2, Zenon DEF RingInv, ConsoleInit
<1>4. Usable(<< >>)
    BY <1>1, <1>2 DEF Usable
<1>5. LineTyped
    <2>1. NoKey \in Chars
        BY KeysAreChars, Zenon
    <2> QED BY <1>2, <1>4, <2>1, ConsoleAssumption DEF LineTyped, ConsoleInit
<1>6. ScreenInv
    BY DEF ScreenInv, ConsoleInit
<1> QED BY <1>3, <1>5, <1>6 DEF ConsoleInv

(* A row that is not left goes on to the right.                             *)
LEMMA AdvancesTo ==
    ASSUME NEW c \in Nat, NEW n \in Nat
    PROVE  Advanced(c, n) \in 0 .. Cols /\ (c + n <= Cols => Advanced(c, n) = c + n)
<1>1. Cols \in Nat /\ Cols > 0
    BY ConsoleAssumption
<1>2. CASE c + n = 0
    BY <1>1, <1>2 DEF Advanced
<1>3. CASE c + n # 0
    <2>1. PICK x \in Nat : x = c + n - 1
        BY <1>3
    <2>2. x % Cols \in 0 .. Cols - 1 /\ (x < Cols => x % Cols = x)
        BY <1>1, <2>1
    <2>3. Advanced(c, n) = (x % Cols) + 1
        BY <1>3, <2>1 DEF Advanced
    <2> QED BY <1>1, <2>1, <2>2, <2>3
<1> QED BY <1>2, <1>3

(* An arm that erases the end of the line and writes another shows it.      *)
LEMMA EchoKeeps ==
    ASSUME LineTyped, NEW n \in 0 .. Len(line), NEW new \in Seq(Chars), NEW rest \in Seq(Chars),
           rest = SubSeq(line, 1, Len(line) - n), line' = rest \o new, Echo(n, new)
    PROVE  /\ line' \in Seq(Chars) /\ column' \in 0 .. Cols /\ room' \in 0 .. Cols /\ mixed' = mixed
           /\ EchoHolds => EchoHolds'
<1>1. /\ line \in Seq(Chars) /\ column \in 0 .. Cols /\ room \in 0 .. Cols /\ Len(line) \in Nat /\ n \in Nat
      /\ Len(new) \in Nat /\ Cols \in Nat
    BY ConsoleAssumption DEF LineTyped
<1>2. line' \in Seq(Chars) /\ Len(rest) = Len(line) - n /\ Len(line') = Len(line) - n + Len(new)
    <2>1. rest \o new \in Seq(Chars) /\ Len(rest \o new) = Len(rest) + Len(new)
        OBVIOUS
    <2>2. Len(rest) = Len(line) - n
        BY <1>1
    <2> QED BY <1>1, <2>1, <2>2
<1>3. PICK b : b = Back(n)
    OBVIOUS
<1>4. b \in Nat /\ b <= column /\ (n <= column => b = n)
    BY <1>1, <1>3 DEF Back
<1>5. column - b \in Nat /\ column' = Advanced(column - b, Len(new)) /\ room' = room /\ mixed' = mixed
    BY <1>1, <1>3, <1>4 DEF Echo
<1>6. column' \in 0 .. Cols
    BY <1>1, <1>5, AdvancesTo
<1>7. ~lost' => ~lost /\ ~(n > column)
    BY Zenon DEF Echo
<1>8. fits' => fits /\ Len(line') <= room
    BY Zenon DEF Echo
<1>9. ~lost /\ ~(n > column) => ~lost'
    BY Zenon DEF Echo
<1>10. ASSUME EchoHolds, ~lost'
       PROVE  shown' = line'
    <2>1. shown = line /\ b = n /\ ~(b > Len(shown))
        BY <1>1, <1>4, <1>7, <1>10 DEF EchoHolds
    <2>2. Erased(n) = SubSeq(line, 1, Len(line) - n)
        BY <1>3, <2>1 DEF Erased
    <2> QED BY <2>2 DEF Echo
<1>11. ASSUME EchoHolds, fits'
       PROVE  ~lost' /\ Len(line') <= room' /\ column' = Cols - room' + Len(line')
    <2>1. ~lost /\ Len(line) <= room /\ column = Cols - room + Len(line) /\ Len(line') <= room
        BY <1>8, <1>11 DEF EchoHolds
    <2>2. ~(n > column) /\ b = n
        BY <1>1, <1>4, <2>1
    <2>3. column - b + Len(new) = Cols - room + Len(line') /\ column - b + Len(new) <= Cols
        <3>1. PICK x, y, z : x = Len(line) /\ y = Len(new) /\ z = Len(line')
            OBVIOUS
        <3>2. x \in Nat /\ y \in Nat /\ z = x - n + y /\ column = Cols - room + x /\ z <= room
            BY <1>1, <1>2, <2>1, <3>1
        <3>3. column - n + y = Cols - room + z /\ column - n + y <= Cols
            BY <1>1, <3>2
        <3> QED BY <2>2, <3>1, <3>3
    <2>4. column' = column - b + Len(new)
        BY <1>1, <1>5, <2>3, AdvancesTo
    <2> QED BY <1>5, <1>9, <2>1, <2>2, <2>3, <2>4
<1> QED BY <1>1, <1>2, <1>5, <1>6, <1>10, <1>11 DEF EchoHolds

(* What is written behind a new prompt is shown.                            *)
LEMMA PromptShows ==
    ASSUME NEW text \in Seq(Chars), line' = text, Prompted(text)
    PROVE  column' \in 0 .. Cols /\ room' \in 0 .. Cols /\ EchoHolds'
<1>1. PICK c \in PromptEnds : /\ shown' = text /\ column' = Advanced(c, Len(text)) /\ room' = Cols - c
                              /\ fits' = (Len(text) <= Cols - c) /\ lost' = FALSE
    BY DEF Prompted
<1>2. c \in Nat /\ c <= Cols /\ Cols \in Nat /\ Len(text) \in Nat
    BY ConsoleAssumption
<1>3. column' \in 0 .. Cols /\ (c + Len(text) <= Cols => column' = c + Len(text))
    BY <1>1, <1>2, AdvancesTo
<1>4. ASSUME fits' PROVE Len(text) <= Cols - c
    BY <1>1, <1>4
<1>5. fits' => Len(line') <= room' /\ column' = Cols - room' + Len(line')
    BY <1>1, <1>2, <1>3, <1>4
<1> QED BY <1>1, <1>2, <1>3, <1>5 DEF EchoHolds

(* The interrupt and the reader of the ring.                                *)
LEMMA ScancodeKeeps ==
    ASSUME ConsoleInv, NEW code \in Codes, AddScancode(code)
    PROVE  ConsoleInv'
<1>1. LineTyped' /\ ScreenInv'
    <2>1. UNCHANGED <<conAt, key, line, history, historyIdx, shown, column, room, fits, lost, mixed>>
        BY DEF AddScancode, lineVars
    <2> QED BY <2>1, EchoKept DEF ConsoleInv, LineTyped, Usable, ScreenInv
<1>2. CASE UNCHANGED <<ring, writeAt, unread>>
    BY <1>1, <1>2 DEF ConsoleInv, AddScancode, RingInv
<1>3. CASE ~UNCHANGED <<ring, writeAt, unread>>
    <2>1. PICK k \in Chars : k = KeyOf(code)
        BY KeysAreChars
    <2>2. Push(k) /\ readAt' = readAt
        BY <1>3, <2>1 DEF AddScancode
    <2>3. /\ After(writeAt) # readAt /\ ring' = [ring EXCEPT ![writeAt] = k] /\ writeAt' = After(writeAt)
          /\ unread' = IF Len(unread) < RingSize - 1 THEN Append(unread, k) ELSE unread
        BY <1>3, <2>2 DEF Push, Fits
    <2>4. PICK rg, r, w, u : rg = ring /\ r = readAt /\ w = writeAt /\ u = unread
        OBVIOUS
    <2>5. Len(u) < RingSize - 1 /\ RingHolds([rg EXCEPT ![w] = k], r, After(w), Append(u, k))
        BY <2>3, <2>4, RingPushed DEF ConsoleInv, RingInv
    <2>6. ring' = [rg EXCEPT ![w] = k] /\ writeAt' = After(w) /\ unread' = Append(u, k) /\ readAt' = r
        BY <2>2, <2>3, <2>4, <2>5
    <2>7. RingInv'
        BY <2>5, <2>6, Zenon DEF RingInv
    <2> QED BY <1>1, <2>7 DEF ConsoleInv
<1> QED BY <1>2, <1>3

LEMMA ReadingKeeps ==
    ASSUME ConsoleInv, KeyboardThread \/ Prompt \/ SerialByte \/ LockRing \/ Pop \/ PopNone \/ ClearRing
    PROVE  ConsoleInv'
<1> USE DEF ConsoleInv
<1>0. << >> \in Seq(Chars)
    OBVIOUS
<1>8. ASSUME UNCHANGED lineVars, conAt' \in {"poll", "pop", "got"} => conAt \in {"poll", "pop", "got"}, key' \in Chars
      PROVE  LineTyped' /\ ScreenInv'
    <2>1. UNCHANGED <<line, history, historyIdx, shown, column, room, fits, lost, mixed>>
        BY <1>8 DEF lineVars
    <2> QED BY <1>8, <2>1, EchoKept DEF LineTyped, Usable, ScreenInv
<1>9. key \in Chars
    BY DEF LineTyped
<1>1. CASE KeyboardThread
    BY <1>1, <1>8, <1>9 DEF KeyboardThread, ringVars, RingInv
<1>2. CASE Prompt
    <2>1. line' = << >> /\ Prompted(<< >>) /\ UNCHANGED ringVars /\ UNCHANGED <<key, history, historyIdx>>
        BY <1>2 DEF Prompt
    <2>2. column' \in 0 .. Cols /\ room' \in 0 .. Cols /\ EchoHolds'
        BY <1>0, <2>1, PromptShows
    <2> QED BY <1>0, <2>1, <2>2 DEF LineTyped, Usable, ScreenInv, ringVars, RingInv
<1>3. CASE SerialByte
    BY <1>3, <1>8, KeysAreChars DEF SerialByte, RingInv
<1>4. CASE LockRing
    BY <1>4, <1>8, <1>9 DEF LockRing, ringVars, RingInv
<1>5. CASE Pop
    <2>1. PICK rg, r, w, u : rg = ring /\ r = readAt /\ w = writeAt /\ u = unread
        OBVIOUS
    <2>2. r # w /\ NoKey \in Chars
        BY <1>5, <2>1, KeysAreChars DEF Pop
    <2>3. RingHolds([rg EXCEPT ![r] = NoKey], After(r), w, Tail(u)) /\ rg[r] \in Chars
        BY <2>1, <2>2, RingPopped DEF RingInv
    <2>4. /\ ring' = [rg EXCEPT ![r] = NoKey] /\ readAt' = After(r) /\ writeAt' = w /\ unread' = Tail(u)
          /\ key' = rg[r]
        BY <1>5, <2>1 DEF Pop
    <2>5. RingInv'
        BY <2>3, <2>4, Zenon DEF RingInv
    <2>6. LineTyped' /\ ScreenInv'
        BY <1>5, <1>8, <2>3, <2>4 DEF Pop
    <2> QED BY <2>5, <2>6
<1>6. CASE PopNone
    BY <1>6, <1>8, <1>9 DEF PopNone, ringVars, RingInv
<1>7. CASE ClearRing
    <2>1. PICK rg : rg = ring
        OBVIOUS
    <2>3. rg \in [0 .. RingSize - 1 -> Chars]
        BY <2>1 DEF RingInv, RingHolds
    <2>4. RingHolds(rg, 0, 0, << >>)
        BY <2>3, EmptyRing
    <2>5. ring' = rg /\ readAt' = 0 /\ writeAt' = 0 /\ unread' = << >>
        BY <1>7, <2>1 DEF ClearRing
    <2>6. RingInv'
        BY <2>4, <2>5, Zenon DEF RingInv
    <2>7. LineTyped' /\ ScreenInv'
        BY <1>7, <1>8, <1>9 DEF ClearRing
    <2> QED BY <2>6, <2>7
<1> QED BY <1>1, <1>2, <1>3, <1>4, <1>5, <1>6, <1>7

(* What the shell was shown before a step that leaves the screen to Echo.   *)
LEMMA EditKeeps ==
    ASSUME ConsoleInv, conAt = "got", UNCHANGED ringVars, key' = key, Usable(history)', historyIdx' \in 0 .. Len(history'),
           line' \in Seq(Chars), column' \in 0 .. Cols, room' \in 0 .. Cols, mixed' = mixed, EchoHolds => EchoHolds'
    PROVE  ConsoleInv'
BY DEF ConsoleInv, LineTyped, ScreenInv, ringVars, RingInv

(* The keys that edit the line.                                             *)
LEMMA EditingKeeps ==
    ASSUME ConsoleInv, CtrlC \/ Typed \/ Backspace \/ Escape
    PROVE  ConsoleInv'
<1>0. /\ << >> \in Seq(Chars) /\ line \in Seq(Chars) /\ key \in Chars /\ LineTyped /\ Len(line) \in Nat
      /\ column \in 0 .. Cols /\ room \in 0 .. Cols /\ Usable(history) /\ historyIdx \in 0 .. Len(history) /\ Cols \in Nat
    BY ConsoleAssumption DEF ConsoleInv, LineTyped
<1>1. conAt = "got" /\ UNCHANGED ringVars /\ key' = key /\ history' = history /\ historyIdx' = historyIdx
    BY DEF CtrlC, Typed, Backspace, Escape, Handles
<1>2. Usable(history)' /\ historyIdx' \in 0 .. Len(history')
    BY <1>0, <1>1 DEF Usable
<1>3. CASE UNCHANGED <<line, screenVars>>
    <2>1. UNCHANGED <<line, shown, column, room, fits, lost, mixed>>
        BY <1>3 DEF screenVars
    <2> QED BY <1>0, <1>1, <1>2, <2>1, EchoKept, EditKeeps
<1>4. CASE CtrlC
    <2>1. line' = << >> /\ shown' = << >> /\ column' = 0 /\ fits' = FALSE /\ room' = room /\ mixed' = mixed
        BY <1>4 DEF CtrlC
    <2>2. EchoHolds'
        BY <2>1 DEF EchoHolds
    <2> QED BY <1>0, <1>1, <1>2, <2>1, <2>2, EditKeeps
<1>5. ASSUME NEW n \in 0 .. Len(line), NEW new \in Seq(Chars), NEW rest \in Seq(Chars),
             rest = SubSeq(line, 1, Len(line) - n), line' = rest \o new, Echo(n, new)
      PROVE  ConsoleInv'
    BY <1>0, <1>1, <1>2, <1>5, EchoKeeps, EditKeeps
<1>6. CASE Typed /\ ~UNCHANGED <<line, screenVars>>
    <2>1. line' = Append(line, key) /\ Echo(0, <<key>>)
        BY <1>6 DEF Typed
    <2>2. SubSeq(line, 1, Len(line) - 0) = line /\ line \o <<key>> = Append(line, key) /\ <<key>> \in Seq(Chars)
        BY <1>0
    <2>3. 0 \in 0 .. Len(line)
        BY <1>0
    <2>4. PICK rest, new : rest = line /\ new = <<key>>
        OBVIOUS
    <2>5. rest \in Seq(Chars) /\ new \in Seq(Chars) /\ rest = SubSeq(line, 1, Len(line) - 0)
        BY <1>0, <2>2, <2>4
    <2>6. line' = rest \o new /\ Echo(0, new)
        BY <2>1, <2>2, <2>4
    <2> QED BY <1>5, <2>3, <2>5, <2>6
<1>7. CASE Backspace /\ ~UNCHANGED <<line, screenVars>>
    <2>1. line # << >> /\ line' = SubSeq(line, 1, Len(line) - 1) /\ Echo(1, << >>)
        BY <1>7 DEF Backspace, Front
    <2>2. 1 \in 0 .. Len(line)
        BY <1>0, <2>1
    <2>3. PICK f : f = SubSeq(line, 1, Len(line) - 1)
        OBVIOUS
    <2>4. f \in Seq(Chars)
        BY <1>0, <2>2, <2>3
    <2>5. f \o << >> = f
        BY <2>4, ConcatEmptySeq
    <2> QED BY <1>0, <1>5, <2>1, <2>2, <2>3, <2>4, <2>5
<1>8. CASE Escape
    <2>1. line' = << >> /\ Echo(Len(line), << >>)
        BY <1>8 DEF Escape
    <2>2. Len(line) \in 0 .. Len(line) /\ Len(line) - Len(line) = 0 /\ SubSeq(line, 1, 0) = << >>
        BY <1>0, SubSeqEmpty
    <2>3. << >> \o << >> = << >>
        BY <1>0, ConcatEmptySeq
    <2> QED BY <1>0, <1>5, <2>1, <2>2, <2>3
<1> QED BY <1>3, <1>4, <1>6, <1>7, <1>8

LEMMA EnterKeeps ==
    ASSUME ConsoleInv, Enter
    PROVE  ConsoleInv'
<1> USE DEF ConsoleInv
<1>1. PICK h, l : h = history /\ l = line
    OBVIOUS
<1>2. Usable(h) /\ l \in Seq(Chars)
    BY <1>1 DEF LineTyped
<1>3. history' = IF Blank(l) \/ (h # << >> /\ Last(h) = l) THEN h ELSE Kept20(Append(h, l))
    BY <1>1 DEF Enter, IsLast
<1>4. PICK n : n = history'
    OBVIOUS
<1>5. Usable(n)
    <2>1. CASE Blank(l) \/ (h # << >> /\ Last(h) = l)
        BY <1>2, <1>3, <1>4, <2>1
    <2>2. CASE ~(Blank(l) \/ (h # << >> /\ Last(h) = l))
        BY <1>2, <1>3, <1>4, <2>2, HistoryGrows
    <2> QED BY <2>1, <2>2
<1>6. Len(n) \in 0 .. Len(n)
    BY <1>5 DEF Usable
<1>7. /\ historyIdx' = Len(n) /\ key' = key /\ line' = line /\ UNCHANGED ringVars
      /\ column' = column /\ room' = room
    BY <1>4 DEF Enter, Handles, screenVars
<1>8. LineTyped'
    BY <1>4, <1>5, <1>6, <1>7 DEF LineTyped
<1>9. conAt' \in {"prompt", "run"}
    BY DEF Enter
<1>10. ScreenInv'
    BY <1>9 DEF ScreenInv
<1> QED BY <1>7, <1>8, <1>10 DEF ringVars, RingInv

LEMMA LoadKeeps ==
    ASSUME ConsoleInv, NEW i \in 0 .. Len(history), Load(i)
    PROVE  /\ line' \in Seq(Chars) /\ history' = history /\ historyIdx' = i
           /\ column' \in 0 .. Cols /\ room' \in 0 .. Cols /\ mixed' = mixed /\ (EchoHolds => EchoHolds')
<1>0. /\ line \in Seq(Chars) /\ << >> \in Seq(Chars) /\ history \in Seq(Seq(Chars))
      /\ Len(history) \in Nat /\ Len(line) \in Nat /\ LineTyped
    BY DEF ConsoleInv, LineTyped, Usable
<1>1. PICK n : n = Loaded(i)
    OBVIOUS
<1>2. n \in Seq(Chars)
    <2>1. CASE i < Len(history)
        <3>1. i + 1 \in 1 .. Len(history)
            BY <1>0, <2>1
        <3>2. history[i + 1] \in Seq(Chars)
            BY <1>0, <3>1, ElementOfSeq
        <3> QED BY <1>1, <2>1, <3>2 DEF Loaded
    <2>2. CASE ~(i < Len(history))
        BY <1>0, <1>1, <2>2 DEF Loaded
    <2> QED BY <2>1, <2>2
<1>3. line' = n /\ Echo(Len(line), n) /\ history' = history /\ historyIdx' = i
    BY <1>1 DEF Load
<1>4. Len(line) \in 0 .. Len(line) /\ Len(line) - Len(line) = 0 /\ SubSeq(line, 1, 0) = << >>
    BY <1>0, SubSeqEmpty
<1>5. << >> \o n = n
    BY <1>2, ConcatEmptySeq
<1> QED BY <1>0, <1>2, <1>3, <1>4, <1>5, EchoKeeps

LEMMA ArrowsKeep ==
    ASSUME ConsoleInv, HistoryUp \/ HistoryDown
    PROVE  ConsoleInv'
<1>1. /\ conAt = "got" /\ UNCHANGED ringVars /\ key' = key /\ conAt' = "poll"
    BY DEF HistoryUp, HistoryDown, Handles, Stays
<1>2. Len(history) \in Nat /\ historyIdx \in 0 .. Len(history) /\ Usable(history)
    BY DEF ConsoleInv, LineTyped, Usable
<1>3. CASE UNCHANGED lineVars
    <2>1. UNCHANGED <<line, history, historyIdx, shown, column, room, fits, lost, mixed>>
        BY <1>3 DEF lineVars
    <2> QED BY <1>1, <2>1, EchoKept DEF ConsoleInv, LineTyped, Usable, ScreenInv, ringVars, RingInv
<1>4. CASE ~UNCHANGED lineVars
    <2>1. PICK i \in 0 .. Len(history) : Load(i)
        BY <1>2, <1>4 DEF HistoryUp, HistoryDown
    <2>2. /\ line' \in Seq(Chars) /\ history' = history /\ historyIdx' = i
          /\ column' \in 0 .. Cols /\ room' \in 0 .. Cols /\ mixed' = mixed /\ (EchoHolds => EchoHolds')
        BY <2>1, LoadKeeps
    <2>3. Usable(history)' /\ historyIdx' \in 0 .. Len(history')
        BY <1>2, <2>1, <2>2 DEF Usable
    <2> QED BY <1>1, <2>2, <2>3, EditKeeps
<1> QED BY <1>3, <1>4

LEMMA CompletionKeeps ==
    ASSUME ConsoleInv, AutoComplete
    PROVE  ConsoleInv'
<1>1. /\ conAt = "got" /\ UNCHANGED ringVars /\ key' = key /\ conAt' = "poll" /\ UNCHANGED <<history, historyIdx>>
    BY DEF AutoComplete, Handles, Stays
<1>2. line \in Seq(Chars) /\ LineTyped /\ Usable(history) /\ historyIdx \in 0 .. Len(history)
    BY DEF ConsoleInv, LineTyped
<1>3. Usable(history)' /\ historyIdx' \in 0 .. Len(history')
    BY <1>1, <1>2 DEF Usable
<1>4. CASE UNCHANGED <<line, screenVars>>
    <2>1. UNCHANGED <<line, shown, column, room, fits, lost, mixed>>
        BY <1>4 DEF screenVars
    <2> QED BY <1>1, <1>2, <1>3, <2>1, EchoKept, EditKeeps DEF LineTyped
<1>5. CASE UNCHANGED line /\ Prompted(line)
    <2>1. column' \in 0 .. Cols /\ room' \in 0 .. Cols /\ EchoHolds'
        BY <1>2, <1>5, PromptShows
    <2> QED BY <1>1, <1>2, <1>3, <1>5, <2>1 DEF ConsoleInv, LineTyped, ScreenInv, ringVars, RingInv
<1>6. CASE \E n \in FileNames : /\ line' = Completed(n)
                                /\ Echo(Len(Word), SubSeq(Completed(n), WordStart + 1, Len(Completed(n))))
    <2>1. PICK n \in FileNames : /\ line' = Completed(n)
                                 /\ Echo(Len(Word), SubSeq(Completed(n), WordStart + 1, Len(Completed(n))))
        BY <1>6
    <2>2. PICK l, w, b : l = line /\ w = WordStart /\ b = Len(Word)
        OBVIOUS
    <2>3. l \in Seq(Chars) /\ w \in 0 .. Len(l) /\ Len(l) \in Nat /\ b = Len(SubSeq(l, w + 1, Len(l)))
        BY <1>2, <2>2, WordInLine DEF Word
    <2> DEFINE m == IF Len(n) <= LineSize - w THEN Len(n) ELSE LineSize - w
               t == SubSeq(n, 1, m)
    <2>4. t \in Seq(Chars)
        <3>1. n \in Seq(Chars)
            BY NamesAreChars
        <3>2. m \in Int /\ m <= Len(n)
            BY <2>3, <3>1, ConsoleAssumption
        <3> HIDE DEF m
        <3>3. \A i \in 1 .. m : n[i] \in Chars
            BY <3>1, <3>2
        <3> QED BY <3>2, <3>3, SubSeqProperties
    <2>5. Completed(n) = SubSeq(l, 1, w) \o t
        BY <2>2 DEF Completed
    <2> HIDE DEF t
    <2>6. PICK c : c = SubSeq(l, 1, w) \o t
        OBVIOUS
    <2>7. c \in Seq(Chars) /\ b <= Len(l) /\ SubSeq(l, 1, Len(l) - b) \o SubSeq(c, w + 1, Len(c)) = c
        BY <2>3, <2>4, <2>6, Rewritten3
    <2>8. b \in 0 .. Len(l)
        BY <2>3, <2>7
    <2>9. PICK rest, new : rest = SubSeq(l, 1, Len(l) - b) /\ new = SubSeq(c, w + 1, Len(c))
        OBVIOUS
    <2>10. rest \in Seq(Chars)
        BY <2>3, <2>8, <2>9
    <2>11. new \in Seq(Chars)
        <3>1. w + 1 \in Int /\ Len(c) \in Int /\ w >= 0
            BY <2>3, <2>7
        <3>2. \A i \in 1 .. Len(c) : c[i] \in Chars
            BY <2>7, ElementOfSeq
        <3>3. \A i \in w + 1 .. Len(c) : c[i] \in Chars
            BY <2>3, <3>1, <3>2
        <3> QED BY <2>9, <3>1, <3>3, SubSeqProperties
    <2>12. line' = rest \o new /\ Echo(b, new)
        BY <2>1, <2>2, <2>5, <2>6, <2>7, <2>9
    <2>13. /\ line' \in Seq(Chars) /\ column' \in 0 .. Cols /\ room' \in 0 .. Cols /\ mixed' = mixed
           /\ EchoHolds => EchoHolds'
        BY <1>2, <2>2, <2>8, <2>9, <2>10, <2>11, <2>12, EchoKeeps
    <2> QED BY <1>1, <1>3, <2>13, EditKeeps
<1> QED BY <1>4, <1>5, <1>6 DEF AutoComplete

LEMMA CommandsKeep ==
    ASSUME ConsoleInv, Report \/ Gui \/ StartPing \/ Ping \/ NoCard \/ UserWaits
    PROVE  ConsoleInv'
<1>1. /\ UNCHANGED ringVars /\ UNCHANGED <<key, line, history, historyIdx, column, room>>
      /\ conAt \in {"run", "ping"} /\ conAt' \in {"run", "ping", "prompt"}
    BY DEF Report, Gui, StartPing, Runs, Ping, NoCard, UserWaits, lineVars
<1> QED BY <1>1 DEF ConsoleInv, LineTyped, ScreenInv, ringVars, RingInv

LEMMA OutputKeeps ==
    ASSUME ConsoleInv, UserWrite
    PROVE  ConsoleInv'
<1>1. /\ UNCHANGED ringVars /\ UNCHANGED <<key, line, history, historyIdx, room>> /\ column' \in 0 .. Cols
      /\ mixed' = TRUE
    BY ConsoleAssumption DEF UserWrite
<1> QED BY <1>1 DEF ConsoleInv, LineTyped, ScreenInv, ringVars, RingInv

(* Keys reach the shell once and in order, what is behind the prompt is the *)
(* line that Enter will run while it fits into its row and nobody else has  *)
(* written, and the history holds no blank line, nothing twice in a row and *)
(* no place that does not exist, for every size of the ring, of the line,   *)
(* of the screen and of the history and for every set of names.  What the   *)
(* screen shows is not inductive without where the cursor is.               *)
THEOREM ConsoleIsSound == ConsoleSpec => []ConsoleSound
<1>1. ConsoleInit => ConsoleInv
    BY ConsoleInvInit
<1>2. ConsoleInv /\ [ConsoleNext]_consoleVars => ConsoleInv'
    <2> SUFFICES ASSUME ConsoleInv, [ConsoleNext]_consoleVars
                 PROVE  ConsoleInv'
        OBVIOUS
    <2>1. CASE UNCHANGED consoleVars
        <3>1. UNCHANGED <<ring, readAt, writeAt, unread, conAt, key, line, history, historyIdx, shown, column, room, fits, lost, mixed>>
            BY <2>1 DEF consoleVars
        <3> QED BY <3>1, EchoKept DEF ConsoleInv, RingInv, LineTyped, Usable, ScreenInv
    <2>2. CASE \E code \in Codes : AddScancode(code)
        BY <2>2, ScancodeKeeps
    <2>3. CASE KeyboardThread \/ Prompt \/ SerialByte \/ LockRing \/ Pop \/ PopNone \/ ClearRing
        BY <2>3, ReadingKeeps
    <2>4. CASE CtrlC \/ Typed \/ Backspace \/ Escape
        BY <2>4, EditingKeeps
    <2>5. CASE Enter
        BY <2>5, EnterKeeps
    <2>6. CASE HistoryUp \/ HistoryDown
        BY <2>6, ArrowsKeep
    <2>7. CASE AutoComplete
        BY <2>7, CompletionKeeps
    <2>8. CASE Report \/ Gui \/ StartPing \/ Ping \/ NoCard \/ UserWaits
        BY <2>8, CommandsKeep
    <2>9. CASE UserWrite
        BY <2>9, OutputKeeps
    <2> QED BY <2>1, <2>2, <2>3, <2>4, <2>5, <2>6, <2>7, <2>8, <2>9, Zenon DEF ConsoleNext
<1>3. ConsoleInv => ConsoleSound
    <2>1. ConsoleInv => RingIsQueue /\ HistoryUsable
        BY DEF ConsoleInv, RingInv, RingHolds, RingIsQueue, LineTyped, Usable, HistoryUsable
    <2>2. ConsoleInv => ScreenShowsLine
        BY DEF ConsoleInv, ScreenInv, EchoHolds, ScreenShowsLine
    <2> QED BY <2>1, <2>2 DEF ConsoleSound
<1> QED BY <1>1, <1>2, <1>3, PTL DEF ConsoleSpec

-----------------------------------------------------------------------------
(* Ring 3: the programs.                                                    *)
LEMMA ServicesListed ==
    Services3 = {"keysvc", "serdrv", "faultsvc", "netdrv", "netsvc", "demo", "livedemo",
                 "disksvc", "fssvc", "sh", "displaysvc", "wm"} /\ Idle \notin Services3
<1> DEFINE R(c) == {c[i] : i \in DOMAIN c}
<1>1. /\ R(<<"keysvc">>) = {"keysvc"} /\ R(<<"serdrv">>) = {"serdrv"} /\ R(<<"faultsvc">>) = {"faultsvc"}
      /\ R(<<"netdrv", "netsvc">>) = {"netdrv", "netsvc"} /\ R(<<"demo">>) = {"demo"}
      /\ R(<<"livedemo">>) = {"livedemo"}
    OBVIOUS
<1>2. R(<<"disksvc", "fssvc", "sh", "displaysvc", "wm">>) = {"disksvc", "fssvc", "sh", "displaysvc", "wm"}
    OBVIOUS
<1>3. Services3 = UNION {R(c) : c \in Chains}
    BY Zenon DEF Services3
<1> HIDE DEF R
<1>4. Services3 = R(<<"keysvc">>) \cup R(<<"serdrv">>) \cup R(<<"faultsvc">>) \cup R(<<"netdrv", "netsvc">>)
                  \cup R(<<"demo">>) \cup R(<<"livedemo">>) \cup R(<<"disksvc", "fssvc", "sh", "displaysvc", "wm">>)
    BY <1>3 DEF Chains
<1> QED BY <1>1, <1>2, <1>4 DEF Idle

(* Instructions with the next one behind them, and with a choice of two.    *)
Straight == {"call", "bind", "write", "ioperm", "out", "out_reset", "out_enable", "out_transmit", "in", "out_lba",
             "out_read", "in_sector"}
Branches == {"try_recv", "thr_empty", "more", "map_dma", "in_reset", "rok", "verify", "create_slot", "send", "in_busy",
             "in_drq", "is_spfs", "jump"}
LeadsTo(c, i, n) ==
    \/ c.op \in Straight /\ n = i + 1
    \/ c.op \in Branches /\ (n = c.yes \/ n = c.no)

(* No jump leaves a program, and the places behind a check are reached from *)
(* it alone: 8 of the disk service, 11 and 12 of the network driver.        *)
StaysInside(s, len, i, n) ==
    /\ n \in 1 .. len
    /\ s = "disksvc" => (n = 8 => i = 7) /\ (i = 8 => n = 9) /\ i # 9
    /\ s = "netdrv" => (n = 11 => i = 10) /\ (n = 12 => i = 11)

(* The instructions the properties are about are where they belong.         *)
InPlace(s, i, c) ==
    /\ c.op = "in_sector" => s = "disksvc" /\ i = 6
    /\ c.op = "is_spfs" => s = "disksvc" /\ i = 7 /\ c.no # 8
    /\ c.op = "write" /\ c.arg = "sector_verified" => s = "disksvc" /\ i = 8
    /\ c.op = "out_reset" => s = "netdrv" /\ i = 3
    /\ c.op = "send" => s = "netdrv" /\ i = 12
    /\ c.op = "verify" => s = "netdrv" /\ i = 10 /\ c.no # 11
    /\ s = "disksvc" /\ i = 7 => c.op = "is_spfs"
    /\ s = "netdrv" /\ i = 10 => c.op = "verify"
WellPlaced(s, len, i, c) == InPlace(s, i, c) /\ \A n : LeadsTo(c, i, n) => StaysInside(s, len, i, n)

LEMMA DriversArePlaced ==
    /\ \A i \in 1 .. 8 : WellPlaced("keysvc", 8, i, ServiceCode[i])
    /\ \A i \in 1 .. 5 : WellPlaced("serdrv", 5, i, SerialCode[i])
    /\ \A i \in 1 .. 22 : WellPlaced("netdrv", 22, i, NetCode[i])
    /\ \A i \in 1 .. 11 : WellPlaced("disksvc", 11, i, DiskCode[i])
<1> USE DEF WellPlaced, InPlace, LeadsTo, StaysInside, Straight, Branches, I, B
<1>1. \A i \in 1 .. 8 : WellPlaced("keysvc", 8, i, ServiceCode[i])
    BY DEF ServiceCode
<1>2. \A i \in 1 .. 5 : WellPlaced("serdrv", 5, i, SerialCode[i])
    BY DEF SerialCode
<1>3. \A i \in 1 .. 22 : WellPlaced("netdrv", 22, i, NetCode[i])
    BY DEF NetCode
<1>4. \A i \in 1 .. 11 : WellPlaced("disksvc", 11, i, DiskCode[i])
    BY DEF DiskCode
<1> QED BY <1>1, <1>2, <1>3, <1>4

LEMMA OthersArePlaced ==
    /\ \A i \in 1 .. 9 : WellPlaced("netsvc", 9, i, NetsvcCode[i])
    /\ \A i \in 1 .. 2 : WellPlaced("faultsvc", 2, i, FaultCode[i])
    /\ \A i \in 1 .. 1 : WellPlaced("demo", 1, i, DemoCode[i])
    /\ \A i \in 1 .. 3 : WellPlaced("livedemo", 3, i, LiveDemoCode[i])
    /\ \A i \in 1 .. 2 : WellPlaced("fssvc", 2, i, FssvcCode[i])
    /\ \A i \in 1 .. 2 : WellPlaced("sh", 2, i, ShellCode[i])
    /\ \A i \in 1 .. 2 : WellPlaced("displaysvc", 2, i, DisplayCode[i])
    /\ \A i \in 1 .. 2 : WellPlaced("wm", 2, i, WmCode[i])
<1> USE DEF WellPlaced, InPlace, LeadsTo, StaysInside, Straight, Branches, I, B
<1>1. \A i \in 1 .. 9 : WellPlaced("netsvc", 9, i, NetsvcCode[i])
    BY DEF NetsvcCode
<1>2. \A i \in 1 .. 2 : WellPlaced("faultsvc", 2, i, FaultCode[i])
    BY DEF FaultCode
<1>3. \A i \in 1 .. 1 : WellPlaced("demo", 1, i, DemoCode[i])
    BY DEF DemoCode
<1>4. \A i \in 1 .. 3 : WellPlaced("livedemo", 3, i, LiveDemoCode[i])
    BY DEF LiveDemoCode
<1>5. \A i \in 1 .. 2 : WellPlaced("fssvc", 2, i, FssvcCode[i])
    BY DEF FssvcCode
<1>6. \A i \in 1 .. 2 : WellPlaced("sh", 2, i, ShellCode[i])
    BY DEF ShellCode
<1>7. \A i \in 1 .. 2 : WellPlaced("displaysvc", 2, i, DisplayCode[i])
    BY DEF DisplayCode
<1>8. \A i \in 1 .. 2 : WellPlaced("wm", 2, i, WmCode[i])
    BY DEF WmCode
<1> QED BY <1>1, <1>2, <1>3, <1>4, <1>5, <1>6, <1>7, <1>8

LEMMA ProgramsAreShort ==
    /\ Len(ServiceCode) = 8 /\ Len(SerialCode) = 5 /\ Len(NetCode) = 22 /\ Len(DiskCode) = 11 /\ Len(NetsvcCode) = 9
    /\ Len(FaultCode) = 2 /\ Len(DemoCode) = 1 /\ Len(LiveDemoCode) = 3 /\ Len(FssvcCode) = 2 /\ Len(ShellCode) = 2
    /\ Len(DisplayCode) = 2 /\ Len(WmCode) = 2
BY DEF ServiceCode, SerialCode, NetCode, DiskCode, NetsvcCode, FaultCode, DemoCode, LiveDemoCode, FssvcCode, ShellCode,
       DisplayCode, WmCode

LEMMA ProgramsArePlaced ==
    ASSUME NEW s \in Services3
    PROVE  /\ Len(CodeOf(s)) \in Nat \ {0}
           /\ \A i \in 1 .. Len(CodeOf(s)) : WellPlaced(s, Len(CodeOf(s)), i, CodeOf(s)[i])
<1>1. s \in {"keysvc", "serdrv", "faultsvc", "netdrv", "netsvc", "demo", "livedemo",
             "disksvc", "fssvc", "sh", "displaysvc", "wm"}
    BY ServicesListed
<1>2. CASE s = "keysvc"
    <2>1. CodeOf(s) = ServiceCode
        BY <1>2 DEF CodeOf
    <2>2. \A i \in 1 .. Len(CodeOf(s)) : WellPlaced(s, Len(CodeOf(s)), i, CodeOf(s)[i])
        BY ONLY <1>2, <2>1, DriversArePlaced, ProgramsAreShort, Zenon
    <2>3. Len(CodeOf(s)) \in Nat \ {0}
        BY ONLY <2>1, ProgramsAreShort
    <2> QED BY <2>2, <2>3
<1>3. CASE s = "serdrv"
    <2>1. CodeOf(s) = SerialCode
        BY <1>3 DEF CodeOf
    <2>2. \A i \in 1 .. Len(CodeOf(s)) : WellPlaced(s, Len(CodeOf(s)), i, CodeOf(s)[i])
        BY ONLY <1>3, <2>1, DriversArePlaced, ProgramsAreShort, Zenon
    <2>3. Len(CodeOf(s)) \in Nat \ {0}
        BY ONLY <2>1, ProgramsAreShort
    <2> QED BY <2>2, <2>3
<1>4. CASE s = "netdrv"
    <2>1. CodeOf(s) = NetCode
        BY <1>4 DEF CodeOf
    <2>2. \A i \in 1 .. Len(CodeOf(s)) : WellPlaced(s, Len(CodeOf(s)), i, CodeOf(s)[i])
        BY ONLY <1>4, <2>1, DriversArePlaced, ProgramsAreShort, Zenon
    <2>3. Len(CodeOf(s)) \in Nat \ {0}
        BY ONLY <2>1, ProgramsAreShort
    <2> QED BY <2>2, <2>3
<1>5. CASE s = "disksvc"
    <2>1. CodeOf(s) = DiskCode
        BY <1>5 DEF CodeOf
    <2>2. \A i \in 1 .. Len(CodeOf(s)) : WellPlaced(s, Len(CodeOf(s)), i, CodeOf(s)[i])
        BY ONLY <1>5, <2>1, DriversArePlaced, ProgramsAreShort, Zenon
    <2>3. Len(CodeOf(s)) \in Nat \ {0}
        BY ONLY <2>1, ProgramsAreShort
    <2> QED BY <2>2, <2>3
<1>6. CASE s = "netsvc"
    <2>1. CodeOf(s) = NetsvcCode
        BY <1>6 DEF CodeOf
    <2>2. \A i \in 1 .. Len(CodeOf(s)) : WellPlaced(s, Len(CodeOf(s)), i, CodeOf(s)[i])
        BY ONLY <1>6, <2>1, OthersArePlaced, ProgramsAreShort, Zenon
    <2>3. Len(CodeOf(s)) \in Nat \ {0}
        BY ONLY <2>1, ProgramsAreShort
    <2> QED BY <2>2, <2>3
<1>7. CASE s = "faultsvc"
    <2>1. CodeOf(s) = FaultCode
        BY <1>7 DEF CodeOf
    <2>2. \A i \in 1 .. Len(CodeOf(s)) : WellPlaced(s, Len(CodeOf(s)), i, CodeOf(s)[i])
        BY ONLY <1>7, <2>1, OthersArePlaced, ProgramsAreShort, Zenon
    <2>3. Len(CodeOf(s)) \in Nat \ {0}
        BY ONLY <2>1, ProgramsAreShort
    <2> QED BY <2>2, <2>3
<1>8. CASE s = "demo"
    <2>1. CodeOf(s) = DemoCode
        BY <1>8 DEF CodeOf
    <2>2. \A i \in 1 .. Len(CodeOf(s)) : WellPlaced(s, Len(CodeOf(s)), i, CodeOf(s)[i])
        BY ONLY <1>8, <2>1, OthersArePlaced, ProgramsAreShort, Zenon
    <2>3. Len(CodeOf(s)) \in Nat \ {0}
        BY ONLY <2>1, ProgramsAreShort
    <2> QED BY <2>2, <2>3
<1>9. CASE s = "livedemo"
    <2>1. CodeOf(s) = LiveDemoCode
        BY <1>9 DEF CodeOf
    <2>2. \A i \in 1 .. Len(CodeOf(s)) : WellPlaced(s, Len(CodeOf(s)), i, CodeOf(s)[i])
        BY ONLY <1>9, <2>1, OthersArePlaced, ProgramsAreShort, Zenon
    <2>3. Len(CodeOf(s)) \in Nat \ {0}
        BY ONLY <2>1, ProgramsAreShort
    <2> QED BY <2>2, <2>3
<1>10. CASE s = "fssvc"
    <2>1. CodeOf(s) = FssvcCode
        BY <1>10 DEF CodeOf
    <2>2. \A i \in 1 .. Len(CodeOf(s)) : WellPlaced(s, Len(CodeOf(s)), i, CodeOf(s)[i])
        BY ONLY <1>10, <2>1, OthersArePlaced, ProgramsAreShort, Zenon
    <2>3. Len(CodeOf(s)) \in Nat \ {0}
        BY ONLY <2>1, ProgramsAreShort
    <2> QED BY <2>2, <2>3
<1>11. CASE s = "sh"
    <2>1. CodeOf(s) = ShellCode
        BY <1>11 DEF CodeOf
    <2>2. \A i \in 1 .. Len(CodeOf(s)) : WellPlaced(s, Len(CodeOf(s)), i, CodeOf(s)[i])
        BY ONLY <1>11, <2>1, OthersArePlaced, ProgramsAreShort, Zenon
    <2>3. Len(CodeOf(s)) \in Nat \ {0}
        BY ONLY <2>1, ProgramsAreShort
    <2> QED BY <2>2, <2>3
<1>12. CASE s = "displaysvc"
    <2>1. CodeOf(s) = DisplayCode
        BY <1>12 DEF CodeOf
    <2>2. \A i \in 1 .. Len(CodeOf(s)) : WellPlaced(s, Len(CodeOf(s)), i, CodeOf(s)[i])
        BY ONLY <1>12, <2>1, OthersArePlaced, ProgramsAreShort, Zenon
    <2>3. Len(CodeOf(s)) \in Nat \ {0}
        BY ONLY <2>1, ProgramsAreShort
    <2> QED BY <2>2, <2>3
<1>13. CASE s = "wm"
    <2>1. CodeOf(s) = WmCode
        BY <1>13 DEF CodeOf
    <2>2. \A i \in 1 .. Len(CodeOf(s)) : WellPlaced(s, Len(CodeOf(s)), i, CodeOf(s)[i])
        BY ONLY <1>13, <2>1, OthersArePlaced, ProgramsAreShort, Zenon
    <2>3. Len(CodeOf(s)) \in Nat \ {0}
        BY ONLY <2>1, ProgramsAreShort
    <2> QED BY <2>2, <2>3
<1> QED BY <1>1, <1>2, <1>3, <1>4, <1>5, <1>6, <1>7, <1>8, <1>9, <1>10, <1>11, <1>12, <1>13

-----------------------------------------------------------------------------
(* Ring 3: the machine.                                                     *)
Drives == [lba : {0, 1}, status : {"idle", "busy", "drq"}, data : {"none", "superblock", "sector"}, spfs : BOOLEAN]
Cards == [reset : BOOLEAN, on : BOOLEAN, frame : {"none", "arp_reply", "other"}]
States3 == {"off", "none", "ready", "runs", "exited", "killed", "failed"} \cup Leaving
Placed3 ==
    /\ at3 \in [Services3 -> States3]
    /\ ports \in [Services3 -> MadeCaps \cup {NoPorts}]
    /\ capsOf \in [Services3 -> SUBSET MadeCaps]
    /\ cur \in Services3 \cup {Idle}
    /\ pc \in [Services3 -> Nat] /\ \A s \in Services3 : pc[s] \in 1 .. Len(CodeOf(s))
    /\ drive \in Drives /\ card \in Cards

(* Who runs is the one whose status says so, or one that is leaving.        *)
OneRuns ==
    /\ \A s \in Services3 : at3[s] = "runs" => s = cur
    /\ cur # Idle => at3[cur] \in {"runs"} \cup Leaving

(* The capabilities go before the exit comes to its end, the ports with it. *)
RightsEnd ==
    \A s \in Services3 : /\ at3[s] \in Ended => ports[s] = NoPorts
                         /\ at3[s] \in Ended \cup {"disowned"} => capsOf[s] = {}

(* What the bitmap was last written for, it still holds.                    *)
CachedIsWritten == cached # NoPorts => cached \in bitmap

(* Behind its check the disk service holds a superblock, which only a disk  *)
(* that has one gives.                                                      *)
DiskIsChecked ==
    /\ pc["disksvc"] = 8 => got = "superblock"
    /\ "sector_verified" \in said => got = "superblock" /\ pc["disksvc"] = 9
    /\ got = "superblock" \/ drive.data = "superblock" => drive.spfs

(* Between its check and its send the network driver has a reply.           *)
CardIsChecked == pc["netdrv"] \in {11, 12} => card.frame = "arp_reply"

Ring3Inv == /\ Placed3 /\ OneRuns /\ CachedIsWritten /\ OwnPortsWork /\ SpacesAreOfTheLiving /\ RightsEnd
            /\ DiskIsChecked /\ CardIsChecked /\ OnlyVerifiedSlots

LEMMA Ring3Starts == R3Init => Ring3Inv
<1> SUFFICES ASSUME R3Init PROVE Ring3Inv
    OBVIOUS
<1> USE DEF R3Init
<1>1. PICK t \in Together : at3 = [s \in Services3 |-> IF s \in t THEN "none" ELSE "off"]
    OBVIOUS
<1>2. PICK spfs \in BOOLEAN : drive = [lba |-> 1, status |-> "idle", data |-> "none", spfs |-> spfs]
    OBVIOUS
<1>3. \A s \in Services3 : pc[s] \in 1 .. Len(CodeOf(s))
    BY ProgramsArePlaced
<1>4. drive \in Drives /\ card \in Cards
    BY <1>2 DEF Drives, Cards
<1>5. Placed3
    BY <1>1, <1>3, <1>4 DEF Placed3, States3, MadeCaps, NoPorts, Idle
<1>6. OneRuns /\ CachedIsWritten /\ OwnPortsWork /\ SpacesAreOfTheLiving /\ RightsEnd
    BY <1>1, ServicesListed DEF OneRuns, CachedIsWritten, OwnPortsWork, SpacesAreOfTheLiving, RightsEnd, Ended, Idle
<1>7. DiskIsChecked /\ CardIsChecked /\ OnlyVerifiedSlots
    BY <1>2, ServicesListed DEF DiskIsChecked, CardIsChecked, OnlyVerifiedSlots
<1> QED BY <1>5, <1>6, <1>7 DEF Ring3Inv

(* One instruction further, the counter is inside the program, and behind a *)
(* check only where the instruction was that check.                         *)
LEMMA CounterMoves ==
    ASSUME Ring3Inv, cur # Idle, NEW n, Goes(n), LeadsTo(Here3, pc[cur], n)
    PROVE  /\ pc' \in [Services3 -> Nat] /\ \A s \in Services3 : pc'[s] \in 1 .. Len(CodeOf(s))
           /\ pc'["disksvc"] = 8 => pc["disksvc"] = 8 \/ (Here3.op = "is_spfs" /\ n # Here3.no)
           /\ pc["disksvc"] = 9 => pc'["disksvc"] = 9
           /\ pc'["netdrv"] \in {11, 12} => pc["netdrv"] \in {11, 12} \/ (Here3.op = "verify" /\ n # Here3.no)
<1> DEFINE len == Len(CodeOf(cur))
<1>1. cur \in Services3 /\ pc \in [Services3 -> Nat] /\ pc[cur] \in 1 .. len
    BY DEF Ring3Inv, Placed3
<1>2. InPlace(cur, pc[cur], Here3) /\ StaysInside(cur, len, pc[cur], n) /\ len \in Nat
    BY <1>1, ProgramsArePlaced DEF WellPlaced, Here3
<1>3. n \in 1 .. len
    BY <1>2 DEF StaysInside
<1>4. pc' \in [Services3 -> Nat]
    BY <1>1, <1>2, <1>3 DEF Goes
<1>5. \A s \in Services3 : pc'[s] = IF s = cur THEN n ELSE pc[s]
    BY <1>1 DEF Goes
<1>6. \A s \in Services3 : pc'[s] \in 1 .. Len(CodeOf(s))
    BY <1>3, <1>5, Zenon DEF Ring3Inv, Placed3
<1>7. "disksvc" \in Services3 /\ "netdrv" \in Services3
    BY ServicesListed
<1>8. /\ pc'["disksvc"] = 8 => pc["disksvc"] = 8 \/ (Here3.op = "is_spfs" /\ n # Here3.no)
      /\ pc["disksvc"] = 9 => pc'["disksvc"] = 9
    BY <1>2, <1>5, <1>7 DEF InPlace, StaysInside
<1>9. pc'["netdrv"] \in {11, 12} => pc["netdrv"] \in {11, 12} \/ (Here3.op = "verify" /\ n # Here3.no)
    BY <1>2, <1>5, <1>7 DEF InPlace, StaysInside
<1> QED BY <1>4, <1>6, <1>8, <1>9

LEMMA HereIsPlaced ==
    ASSUME Ring3Inv, cur # Idle
    PROVE  cur \in Services3 /\ InPlace(cur, pc[cur], Here3) /\ pc[cur] \in Nat
<1>1. cur \in Services3 /\ pc[cur] \in 1 .. Len(CodeOf(cur))
    BY DEF Ring3Inv, Placed3
<1> QED BY <1>1, ProgramsArePlaced DEF WellPlaced, Here3

(* What an instruction leaves alone keeps its part of the invariant.        *)
LEMMA MachineKept ==
    ASSUME Ring3Inv, cur # Idle, NEW n, Goes(n), LeadsTo(Here3, pc[cur], n), Kept,
           ports' \in [Services3 -> MadeCaps \cup {NoPorts}], drive' \in Drives, card' \in Cards
    PROVE  Placed3' /\ OneRuns' /\ SpacesAreOfTheLiving'
<1>1. pc' \in [Services3 -> Nat] /\ \A s \in Services3 : pc'[s] \in 1 .. Len(CodeOf(s))
    BY CounterMoves
<1>2. Placed3'
    BY <1>1, Zenon DEF Ring3Inv, Placed3, Kept
<1> QED BY <1>2, Zenon DEF Ring3Inv, OneRuns, SpacesAreOfTheLiving, Kept

LEMMA PortsKept ==
    ASSUME Ring3Inv, Kept, UNCHANGED <<ports, bitmap>>
    PROVE  CachedIsWritten' /\ OwnPortsWork' /\ RightsEnd' /\ ports' \in [Services3 -> MadeCaps \cup {NoPorts}]
BY Zenon DEF Ring3Inv, Placed3, CachedIsWritten, OwnPortsWork, RightsEnd, Kept

LEMMA DiskKept ==
    ASSUME Ring3Inv, cur # Idle, NEW n, Goes(n), LeadsTo(Here3, pc[cur], n), UNCHANGED <<drive, got, said>>,
           Here3.op = "is_spfs" => n = Here3.no \/ got = "superblock"
    PROVE  DiskIsChecked' /\ drive' \in Drives
<1>1. /\ pc'["disksvc"] = 8 => pc["disksvc"] = 8 \/ (Here3.op = "is_spfs" /\ n # Here3.no)
      /\ pc["disksvc"] = 9 => pc'["disksvc"] = 9
    BY CounterMoves
<1> QED BY <1>1, Zenon DEF Ring3Inv, Placed3, DiskIsChecked

LEMMA CardKept ==
    ASSUME Ring3Inv, cur # Idle, NEW n, Goes(n), LeadsTo(Here3, pc[cur], n), UNCHANGED <<card, slots>>,
           Here3.op = "verify" => n = Here3.no \/ card.frame = "arp_reply"
    PROVE  CardIsChecked' /\ OnlyVerifiedSlots' /\ card' \in Cards
<1>1. pc'["netdrv"] \in {11, 12} => pc["netdrv"] \in {11, 12} \/ (Here3.op = "verify" /\ n # Here3.no)
    BY CounterMoves
<1> QED BY <1>1, Zenon DEF Ring3Inv, Placed3, CardIsChecked, OnlyVerifiedSlots

(* Instructions that touch no port, no device and say nothing.              *)
LEMMA ComputesKeep ==
    ASSUME Ring3Inv, cur # Idle, NEW n, Goes(n), LeadsTo(Here3, pc[cur], n), Kept,
           UNCHANGED <<ports, bitmap, drive, got, said, card, slots>>,
           Here3.op = "is_spfs" => n = Here3.no \/ got = "superblock",
           Here3.op = "verify" => n = Here3.no \/ card.frame = "arp_reply"
    PROVE  Ring3Inv'
<1>1. CachedIsWritten' /\ OwnPortsWork' /\ RightsEnd' /\ ports' \in [Services3 -> MadeCaps \cup {NoPorts}]
    BY PortsKept
<1>2. DiskIsChecked' /\ drive' \in Drives
    BY DiskKept
<1>3. CardIsChecked' /\ OnlyVerifiedSlots' /\ card' \in Cards
    BY CardKept
<1>4. Placed3' /\ OneRuns' /\ SpacesAreOfTheLiving'
    BY <1>1, <1>2, <1>3, MachineKept
<1> QED BY <1>1, <1>2, <1>3, <1>4 DEF Ring3Inv

LEMMA JumpsKeep ==
    ASSUME Ring3Inv,
           SysOther \/ Jump \/ More \/ TryRecv \/ SerialReady \/ SerialOut \/ CardAsk \/ MapDma \/ CardRok
              \/ Verify \/ CreateSlot \/ DiskAsk \/ DiskVerify
    PROVE  Ring3Inv'
<1> USE DEF Now, Runs3, PortAccess, Quiet
<1>1. CASE SysOther \/ SerialOut
    <2>1. cur # Idle /\ Here3.op \in {"call", "bind", "out"} /\ Goes(pc[cur] + 1) /\ Kept
          /\ UNCHANGED <<ports, bitmap, drive, got, said, card, slots>>
        BY <1>1, Zenon DEF SysOther, SerialOut, Steps
    <2>2. LeadsTo(Here3, pc[cur], pc[cur] + 1) /\ Here3.op # "is_spfs" /\ Here3.op # "verify"
        BY <2>1, Zenon DEF LeadsTo, Straight
    <2> QED BY <2>1, <2>2, ComputesKeep
<1>2. CASE Jump \/ More \/ TryRecv \/ SerialReady \/ CardAsk \/ MapDma \/ CardRok \/ CreateSlot \/ DiskAsk
    <2>1. PICK n : /\ cur # Idle /\ Here3.op \in Branches \ {"is_spfs", "verify"} /\ n \in {Here3.yes, Here3.no}
                   /\ Goes(n) /\ Kept /\ UNCHANGED <<ports, bitmap, drive, got, said, card, slots>>
        BY <1>2, Zenon DEF Jump, More, TryRecv, SerialReady, CardAsk, MapDma, CardRok, CreateSlot, DiskAsk, Jumps, Branches
    <2>2. LeadsTo(Here3, pc[cur], n) /\ Here3.op # "is_spfs" /\ Here3.op # "verify"
        BY <2>1, Zenon DEF LeadsTo
    <2> QED BY <2>1, <2>2, ComputesKeep
<1>3. CASE Verify
    <2>1. /\ cur # Idle /\ Here3.op = "verify" /\ Goes(IF card.frame = "arp_reply" THEN Here3.yes ELSE Here3.no)
          /\ Kept /\ UNCHANGED <<ports, bitmap, drive, got, said, card, slots>>
        BY <1>3, Zenon DEF Verify, Jumps, Verified
    <2>2. PICK n : Goes(n) /\ (n = Here3.yes \/ n = Here3.no) /\ (n = Here3.no \/ card.frame = "arp_reply")
        BY <2>1, Zenon
    <2>3. LeadsTo(Here3, pc[cur], n) /\ Here3.op # "is_spfs"
        BY <2>1, <2>2, Zenon DEF LeadsTo, Branches
    <2> QED BY <2>1, <2>2, <2>3, ComputesKeep
<1>4. CASE DiskVerify
    <2>1. /\ cur # Idle /\ Here3.op = "is_spfs" /\ Goes(IF got = "superblock" THEN Here3.yes ELSE Here3.no)
          /\ Kept /\ UNCHANGED <<ports, bitmap, drive, got, said, card, slots>>
        BY <1>4, Zenon DEF DiskVerify, Jumps, IsSpfs
    <2>2. PICK n : Goes(n) /\ (n = Here3.yes \/ n = Here3.no) /\ (n = Here3.no \/ got = "superblock")
        BY <2>1, Zenon
    <2>3. LeadsTo(Here3, pc[cur], n) /\ Here3.op # "verify"
        BY <2>1, <2>2, Zenon DEF LeadsTo, Branches
    <2> QED BY <2>1, <2>2, <2>3, ComputesKeep
<1> QED BY <1>1, <1>2, <1>3, <1>4, Zenon

LEMMA IopermKeeps == ASSUME Ring3Inv, SysIoperm PROVE Ring3Inv'
<1>1. cur # Idle /\ Here3.op = "ioperm" /\ Goes(pc[cur] + 1) /\ Kept /\ UNCHANGED <<drive, got, said, card, slots>>
    BY Zenon DEF SysIoperm, Now, Runs3, Steps
<1>2. LeadsTo(Here3, pc[cur], pc[cur] + 1) /\ Here3.op # "is_spfs" /\ Here3.op # "verify"
    BY <1>1, Zenon DEF LeadsTo, Straight
<1>3. DiskIsChecked' /\ drive' \in Drives
    BY <1>1, <1>2, DiskKept
<1>4. CardIsChecked' /\ OnlyVerifiedSlots' /\ card' \in Cards
    BY <1>1, <1>2, CardKept
<1>5. cur \in Services3 /\ ports \in [Services3 -> MadeCaps \cup {NoPorts}] /\ capsOf[cur] \subseteq MadeCaps
    BY <1>1 DEF Ring3Inv, Placed3
<1>50. at3[cur] \notin Ended
    BY Zenon DEF SysIoperm, Now, Runs3, Ended
<1>6. CachedIsWritten' /\ OwnPortsWork' /\ RightsEnd' /\ ports' \in [Services3 -> MadeCaps \cup {NoPorts}]
    <2>1. CASE UNCHANGED <<ports, bitmap>>
        BY <1>1, <2>1, PortsKept
    <2>2. CASE Here3.arg \in capsOf[cur] /\ bitmap' = bitmap \cup {Here3.arg} /\ ports' = [ports EXCEPT ![cur] = Here3.arg]
        BY <1>1, <1>5, <1>50, <2>2 DEF Ring3Inv, CachedIsWritten, OwnPortsWork, RightsEnd, Kept
    <2> QED BY <2>1, <2>2 DEF SysIoperm, Ioperm
<1>7. Placed3' /\ OneRuns' /\ SpacesAreOfTheLiving'
    BY <1>1, <1>2, <1>3, <1>4, <1>6, MachineKept
<1> QED BY <1>3, <1>4, <1>6, <1>7 DEF Ring3Inv

LEMMA WriteKeeps == ASSUME Ring3Inv, SysWrite PROVE Ring3Inv'
<1>1. /\ cur # Idle /\ Here3.op = "write" /\ Goes(pc[cur] + 1) /\ Kept /\ UNCHANGED <<ports, bitmap, drive, got, card, slots>>
      /\ said' = said \cup {Here3.arg}
    BY Zenon DEF SysWrite, Now, Runs3, Steps
<1>2. LeadsTo(Here3, pc[cur], pc[cur] + 1) /\ Here3.op # "is_spfs" /\ Here3.op # "verify"
    BY <1>1, Zenon DEF LeadsTo, Straight
<1>3. CardIsChecked' /\ OnlyVerifiedSlots' /\ card' \in Cards
    BY <1>1, <1>2, CardKept
<1>4. CachedIsWritten' /\ OwnPortsWork' /\ RightsEnd' /\ ports' \in [Services3 -> MadeCaps \cup {NoPorts}]
    BY <1>1, PortsKept
<1>5. drive' \in Drives
    BY <1>1 DEF Ring3Inv, Placed3
<1>6. cur \in Services3 /\ InPlace(cur, pc[cur], Here3) /\ pc[cur] \in Nat /\ pc \in [Services3 -> Nat]
    BY <1>1, HereIsPlaced DEF Ring3Inv, Placed3
<1>7. /\ pc'["disksvc"] = 8 => pc["disksvc"] = 8
      /\ pc["disksvc"] = 9 => pc'["disksvc"] = 9
    BY <1>1, <1>2, CounterMoves
<1>8. Here3.arg = "sector_verified" => pc["disksvc"] = 8 /\ pc'["disksvc"] = 9
    BY <1>1, <1>6 DEF InPlace, Goes
<1>9. DiskIsChecked'
    BY <1>1, <1>7, <1>8, Zenon DEF Ring3Inv, DiskIsChecked
<1>10. Placed3' /\ OneRuns' /\ SpacesAreOfTheLiving'
    BY <1>1, <1>2, <1>3, <1>4, <1>5, MachineKept
<1> QED BY <1>3, <1>4, <1>9, <1>10 DEF Ring3Inv

LEMMA CardOutKeeps == ASSUME Ring3Inv, CardOut PROVE Ring3Inv'
<1>1. /\ cur # Idle /\ Here3.op \in {"out_reset", "out_enable", "out_transmit"} /\ Goes(pc[cur] + 1) /\ Kept
      /\ UNCHANGED <<ports, bitmap, drive, got, said, slots>>
      /\ \/ Here3.op = "out_reset" /\ card' = [reset |-> TRUE, on |-> FALSE, frame |-> "none"]
         \/ card' = [card EXCEPT !.on = TRUE] \/ card' = card
    BY Zenon DEF CardOut, PortAccess, Now, Runs3, Steps, Quiet
<1>2. LeadsTo(Here3, pc[cur], pc[cur] + 1) /\ Here3.op # "is_spfs" /\ Here3.op # "verify"
    BY <1>1, Zenon DEF LeadsTo, Straight
<1>3. DiskIsChecked' /\ drive' \in Drives
    BY <1>1, <1>2, DiskKept
<1>4. CachedIsWritten' /\ OwnPortsWork' /\ RightsEnd' /\ ports' \in [Services3 -> MadeCaps \cup {NoPorts}]
    BY <1>1, PortsKept
<1>5. card \in Cards
    BY DEF Ring3Inv, Placed3
<1>6. card' \in Cards /\ (Here3.op = "out_reset" \/ card'.frame = card.frame)
    <2>1. CASE Here3.op = "out_reset" /\ card' = [reset |-> TRUE, on |-> FALSE, frame |-> "none"]
        <3>1. [reset |-> TRUE, on |-> FALSE, frame |-> "none"] \in Cards
            BY DEF Cards
        <3> QED BY <2>1, <3>1, Zenon
    <2>2. CASE card' = [card EXCEPT !.on = TRUE]
        BY <1>5, <2>2 DEF Cards
    <2>3. CASE card' = card
        BY <1>5, <2>3, Zenon
    <2> QED BY <1>1, <2>1, <2>2, <2>3, Zenon
<1>7. cur \in Services3 /\ InPlace(cur, pc[cur], Here3) /\ pc[cur] \in Nat /\ pc \in [Services3 -> Nat]
    BY <1>1, HereIsPlaced DEF Ring3Inv, Placed3
<1>8. Here3.op = "out_reset" => pc'["netdrv"] = 4
    BY <1>1, <1>7 DEF InPlace, Goes
<1>9. pc'["netdrv"] \in {11, 12} => pc["netdrv"] \in {11, 12}
    BY <1>1, <1>2, CounterMoves
<1>10. CardIsChecked'
    BY <1>6, <1>8, <1>9 DEF Ring3Inv, CardIsChecked
<1>11. OnlyVerifiedSlots'
    BY <1>1 DEF Ring3Inv, OnlyVerifiedSlots
<1>12. Placed3' /\ OneRuns' /\ SpacesAreOfTheLiving'
    BY <1>1, <1>2, <1>3, <1>4, <1>6, MachineKept
<1> QED BY <1>3, <1>4, <1>10, <1>11, <1>12 DEF Ring3Inv

LEMMA SendKeeps == ASSUME Ring3Inv, Send PROVE Ring3Inv'
<1>1. PICK n : /\ cur # Idle /\ Here3.op = "send" /\ (n = Here3.yes \/ n = Here3.no) /\ Goes(n) /\ Kept
               /\ UNCHANGED <<ports, bitmap, drive, got, said, card>> /\ slots' \subseteq slots \cup {card.frame}
    BY Zenon DEF Send, Now, Runs3, Jumps, Quiet
<1>2. LeadsTo(Here3, pc[cur], n) /\ Here3.op # "is_spfs" /\ Here3.op # "verify"
    BY <1>1, Zenon DEF LeadsTo, Branches
<1>3. DiskIsChecked' /\ drive' \in Drives
    BY <1>1, <1>2, DiskKept
<1>4. CachedIsWritten' /\ OwnPortsWork' /\ RightsEnd' /\ ports' \in [Services3 -> MadeCaps \cup {NoPorts}]
    BY <1>1, PortsKept
<1>5. card' \in Cards
    BY <1>1 DEF Ring3Inv, Placed3
<1>6. pc["netdrv"] = 12
    BY <1>1, HereIsPlaced DEF InPlace
<1>7. card.frame = "arp_reply"
    BY <1>6 DEF Ring3Inv, CardIsChecked
<1>8. CardIsChecked' /\ OnlyVerifiedSlots'
    BY <1>1, <1>7 DEF Ring3Inv, CardIsChecked, OnlyVerifiedSlots
<1>9. Placed3' /\ OneRuns' /\ SpacesAreOfTheLiving'
    BY <1>1, <1>2, <1>3, <1>4, <1>5, MachineKept
<1> QED BY <1>3, <1>4, <1>8, <1>9 DEF Ring3Inv

LEMMA DiskKeeps == ASSUME Ring3Inv, DiskOut \/ DiskIn PROVE Ring3Inv'
<1>1. /\ cur # Idle /\ Here3.op \in {"out_lba", "out_read", "in_sector"} /\ Goes(pc[cur] + 1) /\ Kept
      /\ UNCHANGED <<ports, bitmap, said, card, slots>>
      /\ \/ Here3.op = "in_sector" /\ got' = drive.data /\ drive' = [drive EXCEPT !.status = "idle", !.data = "none"]
         \/ got' = got /\ (drive' = [drive EXCEPT !.lba = 0] \/ drive' = [drive EXCEPT !.status = "busy"])
    BY Zenon DEF DiskOut, DiskIn, PortAccess, Now, Runs3, Steps, Quiet
<1>2. LeadsTo(Here3, pc[cur], pc[cur] + 1) /\ Here3.op # "is_spfs" /\ Here3.op # "verify"
    BY <1>1, Zenon DEF LeadsTo, Straight
<1>3. CardIsChecked' /\ OnlyVerifiedSlots' /\ card' \in Cards
    BY <1>1, <1>2, CardKept
<1>4. CachedIsWritten' /\ OwnPortsWork' /\ RightsEnd' /\ ports' \in [Services3 -> MadeCaps \cup {NoPorts}]
    BY <1>1, PortsKept
<1>5. drive \in Drives
    BY DEF Ring3Inv, Placed3
<1>6. /\ drive' \in Drives /\ drive'.spfs = drive.spfs
      /\ \/ Here3.op = "in_sector" /\ got' = drive.data /\ drive'.data = "none"
         \/ got' = got /\ drive'.data = drive.data
    BY <1>1, <1>5 DEF Drives
<1>7. cur \in Services3 /\ InPlace(cur, pc[cur], Here3) /\ pc[cur] \in Nat /\ pc \in [Services3 -> Nat]
    BY <1>1, HereIsPlaced DEF Ring3Inv, Placed3
<1>8. Here3.op = "in_sector" => pc["disksvc"] = 6 /\ pc'["disksvc"] = 7
    BY <1>1, <1>7 DEF InPlace, Goes
<1>9. /\ pc'["disksvc"] = 8 => pc["disksvc"] = 8
      /\ pc["disksvc"] = 9 => pc'["disksvc"] = 9
    BY <1>1, <1>2, CounterMoves
<1>10. DiskIsChecked'
    BY <1>1, <1>6, <1>8, <1>9 DEF Ring3Inv, DiskIsChecked
<1>11. Placed3' /\ OneRuns' /\ SpacesAreOfTheLiving'
    BY <1>1, <1>2, <1>3, <1>4, <1>6, MachineKept
<1> QED BY <1>3, <1>4, <1>10, <1>11 DEF Ring3Inv

(* A switch writes the bitmap for who is switched to, or finds it written.  *)
LEMMA SyncWrites ==
    ASSUME CachedIsWritten, NEW p, SyncIopb(p)
    PROVE  CachedIsWritten' /\ (p # NoPorts => p \in bitmap')
BY Zenon DEF CachedIsWritten, SyncIopb

LEMMA SwitchKeeps == ASSUME Ring3Inv, NEW s \in Services3 \cup {Idle}, Switch(s) PROVE Ring3Inv'
<1> USE DEF Ring3Inv
<1>1. /\ s # cur /\ (s # Idle => at3[s] = "ready") /\ cur' = s /\ SyncIopb(PortsFor(s))
      /\ at3' = [t \in Services3 |-> IF t = s THEN "runs"
                                     ELSE IF t = cur THEN IF at3[t] = "runs" THEN "ready" ELSE at3[t]
                                     ELSE at3[t]]
      /\ UNCHANGED <<pc, ports, capsOf, spaces, drive, got, card, slots, said>>
    <2>1. \A t \in Services3 : Rests(t) = IF at3[t] = "runs" THEN "ready" ELSE at3[t]
        BY DEF Rests
    <2>2. at3' = [t \in Services3 |-> IF t = s THEN "runs" ELSE IF t = cur THEN Rests(t) ELSE at3[t]]
        BY DEF Switch
    <2>3. /\ s # cur /\ (s # Idle => at3[s] = "ready") /\ cur' = s /\ SyncIopb(PortsFor(s))
          /\ UNCHANGED <<pc, ports, capsOf, spaces, drive, got, card, slots, said>>
        BY Zenon DEF Switch
    <2> QED BY <2>1, <2>2, <2>3
<1>2. \A t \in Services3 : at3'[t] = IF t = s THEN "runs" ELSE IF t = cur /\ at3[t] = "runs" THEN "ready" ELSE at3[t]
    BY <1>1
<1>3. Placed3'
    <2>1. \A t \in Services3 : at3'[t] \in States3
        BY <1>2 DEF Placed3, States3
    <2>2. at3' \in [Services3 -> States3]
        BY <1>1, <2>1
    <2>3. cur' \in Services3 \cup {Idle}
        BY <1>1
    <2> QED BY <1>1, <2>2, <2>3, Zenon DEF Placed3
<1>4. OneRuns'
    BY <1>1, <1>2 DEF OneRuns
<1>5. CachedIsWritten' /\ OwnPortsWork'
    BY <1>1, SyncWrites, Zenon DEF OwnPortsWork, PortsFor
<1>6. \A t \in Services3 : at3'[t] \in {"ready", "runs", "exiting"} <=> at3[t] \in {"ready", "runs", "exiting"}
    BY <1>1, <1>2, ServicesListed DEF OneRuns
<1>7. SpacesAreOfTheLiving'
    BY <1>1, <1>6, Zenon DEF SpacesAreOfTheLiving
<1>8. DiskIsChecked' /\ CardIsChecked' /\ OnlyVerifiedSlots'
    BY <1>1, Zenon DEF DiskIsChecked, CardIsChecked, OnlyVerifiedSlots
<1>9. \A t \in Services3 : /\ at3'[t] \in Ended => at3[t] \in Ended
                           /\ at3'[t] \in Ended \cup {"disowned"} => at3[t] \in Ended \cup {"disowned"}
    BY <1>1, <1>2, ServicesListed DEF Ended
<1>10. RightsEnd'
    BY <1>1, <1>9, Zenon DEF RightsEnd
<1> QED BY <1>3, <1>4, <1>5, <1>7, <1>8, <1>10

LEMMA SwitchToZeroKeeps == ASSUME Ring3Inv, SwitchToZero PROVE Ring3Inv'
<1> USE DEF Ring3Inv
<1>1. /\ cur # Idle /\ at3[cur] \in Leaving /\ cur' = Idle
      /\ UNCHANGED <<at3, pc, ports, bitmap, cached, capsOf, spaces, drive, got, card, slots, said>>
    BY Zenon DEF SwitchToZero
<1>2. Placed3'
    BY <1>1, Zenon DEF Placed3
<1>3. OneRuns'
    BY <1>1 DEF OneRuns, Leaving
<1>4. CachedIsWritten' /\ OwnPortsWork' /\ SpacesAreOfTheLiving' /\ RightsEnd'
    BY <1>1, Zenon DEF CachedIsWritten, OwnPortsWork, SpacesAreOfTheLiving, RightsEnd
<1>5. DiskIsChecked' /\ CardIsChecked' /\ OnlyVerifiedSlots'
    BY <1>1, Zenon DEF DiskIsChecked, CardIsChecked, OnlyVerifiedSlots
<1> QED BY <1>2, <1>3, <1>4, <1>5

(* The steps of exit_current that stay on the processor.                    *)
LEMMA LeaveKeeps == ASSUME Ring3Inv, SysExit \/ Faults \/ ReleaseSpace \/ DropCaps PROVE Ring3Inv'
<1> USE DEF Ring3Inv
<1>1. /\ cur # Idle /\ UNCHANGED <<pc, cur, ports, bitmap, cached, drive, got, card, slots, said>>
      /\ \/ /\ at3[cur] = "runs" /\ at3' = [at3 EXCEPT ![cur] = "exiting"] /\ UNCHANGED <<spaces, capsOf>>
         \/ /\ at3[cur] = "exiting" /\ at3' = [at3 EXCEPT ![cur] = "released"]
            /\ spaces' = spaces \ {cur} /\ UNCHANGED capsOf
         \/ /\ at3[cur] = "released" /\ at3' = [at3 EXCEPT ![cur] = "disowned"]
            /\ capsOf' = [capsOf EXCEPT ![cur] = {}] /\ UNCHANGED spaces
    BY Zenon DEF SysExit, Faults, ReleaseSpace, DropCaps, Leave, Now, Runs3
<1>2. cur \in Services3 /\ at3 \in [Services3 -> States3] /\ capsOf \in [Services3 -> SUBSET MadeCaps]
    BY <1>1, Zenon DEF Placed3
<1>3. PICK how \in Leaving : at3' = [at3 EXCEPT ![cur] = how]
    BY <1>1, Zenon DEF Leaving
<1>4. \A t \in Services3 : at3'[t] = IF t = cur THEN how ELSE at3[t]
    BY <1>2, <1>3
<1>5. Placed3'
    <2>1. at3' \in [Services3 -> States3]
        BY <1>2, <1>3 DEF States3
    <2>2. capsOf' \in [Services3 -> SUBSET MadeCaps]
        BY <1>1, <1>2
    <2> QED BY <1>1, <2>1, <2>2, Zenon DEF Placed3
<1>6. OneRuns'
    BY <1>1, <1>2, <1>3, <1>4 DEF OneRuns, Leaving
<1>7. CachedIsWritten' /\ OwnPortsWork'
    BY <1>1, Zenon DEF CachedIsWritten, OwnPortsWork
<1>8. SpacesAreOfTheLiving'
    BY <1>1, <1>2 DEF SpacesAreOfTheLiving
<1>9. RightsEnd'
    BY <1>1, <1>2 DEF RightsEnd, Ended
<1>10. DiskIsChecked' /\ CardIsChecked' /\ OnlyVerifiedSlots'
    BY <1>1, Zenon DEF DiskIsChecked, CardIsChecked, OnlyVerifiedSlots
<1> QED BY <1>5, <1>6, <1>7, <1>8, <1>9, <1>10

LEMMA FinishKeeps == ASSUME Ring3Inv, FinishExit PROVE Ring3Inv'
<1> USE DEF Ring3Inv
<1>1. PICK s \in {t \in Services3 : at3[t] = "ready"} \cup {Idle} :
          /\ at3' = [t \in Services3 |-> IF t = cur THEN How ELSE IF t = s THEN "runs" ELSE at3[t]]
          /\ cur' = s /\ SyncIopb(PortsFor(s))
    BY Zenon DEF FinishExit
<1>2. /\ cur # Idle /\ at3[cur] = "disowned" /\ ports' = [ports EXCEPT ![cur] = NoPorts]
      /\ UNCHANGED <<pc, capsOf, spaces, drive, got, card, slots, said>>
    BY Zenon DEF FinishExit
<1>3. cur \in Services3 /\ s \in Services3 \cup {Idle} /\ s # cur /\ (s # Idle => at3[s] = "ready")
    BY <1>1, <1>2, ServicesListed DEF Placed3
<1>4. \A t \in Services3 : at3'[t] = IF t = cur THEN How ELSE IF t = s THEN "runs" ELSE at3[t]
    BY <1>1, Zenon
<1>40. How \in Ended
    BY DEF How, Ended
<1>5. Placed3'
    <2>1. at3' \in [Services3 -> States3]
        BY <1>1, <1>40 DEF Placed3, Ended, States3
    <2>2. ports' \in [Services3 -> MadeCaps \cup {NoPorts}]
        BY <1>2 DEF Placed3
    <2> QED BY <1>1, <1>2, <1>3, <2>1, <2>2, Zenon DEF Placed3
<1>6. OneRuns'
    BY <1>1, <1>2, <1>3, <1>4, <1>40 DEF OneRuns, Ended
<1>7. s # Idle => ports'[s] = ports[s]
    BY <1>2, <1>3 DEF Placed3
<1>8. CachedIsWritten' /\ OwnPortsWork'
    BY <1>1, <1>7, SyncWrites, Zenon DEF OwnPortsWork, PortsFor
<1>9. \A t \in Services3 : at3'[t] \in {"ready", "runs", "exiting"} <=> at3[t] \in {"ready", "runs", "exiting"}
    <2> TAKE t \in Services3
    <2>1. CASE t = cur
        BY <1>2, <1>4, <1>40, <2>1 DEF Ended
    <2>2. CASE t # cur /\ t = s
        BY <1>3, <1>4, <2>2, ServicesListed
    <2>3. CASE t # cur /\ t # s
        BY <1>4, <2>3
    <2> QED BY <2>1, <2>2, <2>3
<1>10. SpacesAreOfTheLiving'
    BY <1>2, <1>9 DEF SpacesAreOfTheLiving
<1>11. RightsEnd'
    <2> SUFFICES ASSUME NEW t \in Services3
                 PROVE  /\ at3'[t] \in Ended => ports'[t] = NoPorts
                        /\ at3'[t] \in Ended \cup {"disowned"} => capsOf'[t] = {}
        BY DEF RightsEnd
    <2>1. CASE t = cur
        BY <1>2, <1>3, <2>1 DEF RightsEnd, Placed3
    <2>2. CASE t # cur
        <3>1. ports'[t] = ports[t] /\ capsOf'[t] = capsOf[t]
            BY <1>2, <2>2 DEF Placed3
        <3>2. at3'[t] \in Ended \cup {"disowned"} => at3'[t] = at3[t]
            BY <1>4, <2>2 DEF Ended
        <3> QED BY <3>1, <3>2, Zenon DEF RightsEnd
    <2> QED BY <2>1, <2>2
<1>12. DiskIsChecked' /\ CardIsChecked' /\ OnlyVerifiedSlots'
    BY <1>2, Zenon DEF DiskIsChecked, CardIsChecked, OnlyVerifiedSlots
<1> QED BY <1>5, <1>6, <1>8, <1>10, <1>11, <1>12

LEMMA SpawnKeeps == ASSUME Ring3Inv, NEW s \in Services3, Spawn(s) \/ SpawnFails(s) PROVE Ring3Inv'
<1> USE DEF Ring3Inv
<1>1. PICK how \in {"ready", "failed"}, made \in SUBSET MadeCaps :
         /\ at3[s] = "none" /\ at3' = [at3 EXCEPT ![s] = how] /\ capsOf' = [capsOf EXCEPT ![s] = made]
         /\ spaces' = IF how = "ready" THEN spaces \cup {s} ELSE spaces
         /\ UNCHANGED <<pc, cur, ports, bitmap, cached, drive, got, card, slots, said>>
    <2>1. \A n : Made(s, n) \in SUBSET MadeCaps
        BY DEF Made
    <2>2. CASE Spawn(s)
        BY <2>1, <2>2, Zenon DEF Spawn
    <2>3. CASE SpawnFails(s)
        BY <2>1, <2>3, Zenon DEF SpawnFails, Dropped
    <2> QED BY <2>2, <2>3, Zenon
<1>2. \A t \in Services3 : at3'[t] = IF t = s THEN how ELSE at3[t]
    BY <1>1 DEF Placed3
<1>3. Placed3'
    <2>1. at3' \in [Services3 -> States3]
        BY <1>1 DEF Placed3, States3
    <2>2. capsOf' \in [Services3 -> SUBSET MadeCaps]
        BY <1>1 DEF Placed3
    <2> QED BY <1>1, <2>1, <2>2, Zenon DEF Placed3
<1>4. OneRuns'
    <2>1. cur # Idle => cur \in Services3 /\ cur # s
        BY <1>1 DEF OneRuns, Placed3, Leaving
    <2> QED BY <1>1, <1>2, <2>1 DEF OneRuns
<1>5. SpacesAreOfTheLiving'
    BY <1>1, <1>2 DEF SpacesAreOfTheLiving
<1>6. CachedIsWritten' /\ OwnPortsWork' /\ DiskIsChecked' /\ CardIsChecked' /\ OnlyVerifiedSlots'
    BY <1>1, Zenon DEF CachedIsWritten, OwnPortsWork, DiskIsChecked, CardIsChecked, OnlyVerifiedSlots
<1>7. RightsEnd'
    <2>1. \A t \in Services3 : t # s => capsOf'[t] = capsOf[t]
        BY <1>1 DEF Placed3
    <2> QED BY <1>1, <1>2, <2>1 DEF RightsEnd, Ended
<1> QED BY <1>3, <1>4, <1>5, <1>6, <1>7

(* The devices and the kernel's own disk driver, between two instructions.  *)
LEMMA OutsideKeeps ==
    ASSUME Ring3Inv, DriveReady \/ KernelReads \/ CardReset \/ IrqEvent
                        \/ \E f \in {"arp_reply", "other"} : CardReceives3(f)
    PROVE  Ring3Inv'
<1> USE DEF Ring3Inv
<1>1. UNCHANGED <<at3, pc, cur, ports, bitmap, cached, capsOf, spaces, got, slots, said>>
    BY Zenon DEF DriveReady, KernelReads, CardReset, IrqEvent, CardReceives3, Outside
<1>2. drive \in Drives /\ card \in Cards
    BY DEF Placed3
<1>3. drive' \in Drives /\ drive'.spfs = drive.spfs /\ (drive'.data = "superblock" => drive.spfs)
    <2>1. CASE UNCHANGED drive
        BY <1>2, <2>1, Zenon DEF DiskIsChecked
    <2>2. CASE DriveReady
        BY <1>2, <2>2 DEF DriveReady, Drives, Sector
    <2>3. CASE KernelReads
        BY <1>2, <2>3 DEF KernelReads, Drives, DiskIsChecked
    <2> QED BY <2>1, <2>2, <2>3, Zenon DEF CardReset, IrqEvent, CardReceives3
<1>4. card' \in Cards /\ (card.frame # "none" => card'.frame = card.frame)
    <2>1. CASE UNCHANGED card
        BY <1>2, <2>1, Zenon
    <2>2. CASE CardReset
        BY <1>2, <2>2 DEF CardReset, Cards
    <2>3. CASE \E f \in {"arp_reply", "other"} : CardReceives3(f)
        BY <1>2, <2>3 DEF CardReceives3, Cards
    <2> QED BY <2>1, <2>2, <2>3, Zenon DEF DriveReady, KernelReads, IrqEvent
<1>5. Placed3'
    BY <1>1, <1>3, <1>4, Zenon DEF Placed3
<1>6. OneRuns' /\ CachedIsWritten' /\ OwnPortsWork' /\ SpacesAreOfTheLiving' /\ RightsEnd' /\ OnlyVerifiedSlots'
    BY <1>1, Zenon DEF OneRuns, CachedIsWritten, OwnPortsWork, SpacesAreOfTheLiving, RightsEnd, OnlyVerifiedSlots
<1>7. DiskIsChecked'
    BY <1>1, <1>3 DEF DiskIsChecked
<1>8. CardIsChecked'
    BY <1>1, <1>4 DEF CardIsChecked
<1> QED BY <1>5, <1>6, <1>7, <1>8

LEMMA Ring3StepKeeps == Ring3Inv /\ [R3Next]_r3Vars => Ring3Inv'
<1> SUFFICES ASSUME Ring3Inv, [R3Next]_r3Vars PROVE Ring3Inv'
    OBVIOUS
<1>1. CASE \E s \in Services3 : Spawn(s) \/ SpawnFails(s) \/ Switch(s)
    BY <1>1, SpawnKeeps, SwitchKeeps, Zenon
<1>2. CASE Switch(Idle) \/ SwitchToZero
    BY <1>2, SwitchKeeps, SwitchToZeroKeeps, Zenon
<1>3. CASE SysExit \/ Faults \/ ReleaseSpace \/ DropCaps \/ FinishExit
    BY <1>3, LeaveKeeps, FinishKeeps, Zenon
<1>4. CASE Instruction
    BY <1>3, <1>4, IopermKeeps, WriteKeeps, JumpsKeep, CardOutKeeps, SendKeeps, DiskKeeps, Zenon DEF Instruction
<1>5. CASE DriveReady \/ KernelReads \/ CardReset \/ IrqEvent \/ \E f \in {"arp_reply", "other"} : CardReceives3(f)
    BY <1>5, OutsideKeeps
<1>6. CASE UNCHANGED r3Vars
    BY <1>6, Zenon DEF Ring3Inv, r3Vars, Placed3, OneRuns, CachedIsWritten, OwnPortsWork, SpacesAreOfTheLiving,
                       RightsEnd, DiskIsChecked, CardIsChecked, OnlyVerifiedSlots
<1> QED BY <1>1, <1>2, <1>3, <1>4, <1>5, <1>6, Zenon DEF R3Next

(* For every set of services started together, every loop bound and any     *)
(* number of sectors the kernel reads meanwhile: a service finds the ports  *)
(* it was granted whenever it runs, the disk service reports a superblock   *)
(* only after reading one, only verified replies reach the kernel's         *)
(* endpoint, the address spaces are those of the living and of the exiting  *)
(* that were not released yet, and a service whose exit came to its end has *)
(* neither ports nor capabilities (process.rs, sync_iopb_for_process,       *)
(* sys_ioperm, exit_current and the services).                              *)
THEOREM Ring3IsSound == R3Spec => []Ring3Sound
<1>1. Ring3Inv => Ring3Sound
    <2>1. RightsEnd => EndedHasNothing
        BY DEF RightsEnd, EndedHasNothing
    <2> QED BY <2>1, Zenon DEF Ring3Inv, Ring3Sound, DiskIsChecked, VerifiedIsTrue
<1> QED BY <1>1, Ring3Starts, Ring3StepKeeps, PTL DEF R3Spec

-----------------------------------------------------------------------------
(* The switch of contexts.  A process that is switched out continues on its  *)
(* own stack because the timer cannot switch again between the choice of the *)
(* next process and the switch to it: the quantum was just armed, so that a  *)
(* tick there does not expire it.  And a process that is about to load its   *)
(* page table loads one that exists, or was caught in the act.               *)

PlaceType ==
    [where : {"stub", "enter", "user", "kernel", "between", "teardown", "released", "closing", "idle"},
     prev : Procs \cup {NoPid}, next : Procs \cup {NoPid}, root : Procs \cup {KernelTable}, ticked : BOOLEAN]
ContextType == [stack : Procs, at : PlaceType]
ContextTypes ==
    /\ curPid \in Procs \cup {NoPid} /\ (place.where # "idle" => curPid \in Procs)
    /\ place \in PlaceType /\ contexts \in [Procs -> ContextType]
    /\ userTables \subseteq Users /\ waiting \subseteq Procs \ {curPid} /\ ticksOf \in Nat
OwnStacks ==
    /\ \A p \in Procs : contexts[p].stack = p /\ contexts[p].at.where \notin {"between", "idle"}
    /\ place.where # "between" => onStack = curPid
SwitchIsArmed ==
    place.where = "between" =>
      /\ onStack = place.prev /\ place.prev \in Procs /\ place.next = curPid
      /\ ~place.ticked => ticksOf = Quantum
EntersLive(at, p) ==
    at.where = "enter" => at.root \in {p, KernelTable} /\ (at.root = p => p \in userTables \cup caught)
EntriesLive ==
    /\ EntersLive(place, curPid)
    /\ \A p \in waiting : (place.where = "between" /\ p = place.prev) \/ EntersLive(contexts[p].at, p)
    /\ place.where = "between" => EntersLive(contexts[curPid].at, curPid)
ContextInv == ContextTypes /\ OwnStacks /\ SwitchIsArmed /\ EntriesLive /\ TableIsLive

LEMMA AtIs ==
    ASSUME NEW w \in {"stub", "enter", "user", "kernel", "between", "teardown", "released", "closing", "idle"}
    PROVE  At(w) \in PlaceType /\ At(w).where = w
  BY DEF At, Place, PlaceType

(* A step that stays with the process and the contexts, and frees no table.  *)
LEMMA MovesOn ==
    ASSUME ContextInv, curPid \in Procs, place.where # "between",
           place' \in PlaceType, place'.where \notin {"between", "idle"}, EntersLive(place', curPid),
           UNCHANGED <<curPid, onStack, contexts, userTables, caught, waiting>>, ticksOf' \in Nat, TableIsLive'
    PROVE  ContextInv'
<1>1. ContextTypes'
  BY DEF ContextInv, ContextTypes
<1>2. OwnStacks' /\ SwitchIsArmed'
  BY DEF ContextInv, OwnStacks, SwitchIsArmed
<1>3. EntriesLive'
  BY DEF ContextInv, EntriesLive, EntersLive
<1> QED BY <1>1, <1>2, <1>3 DEF ContextInv

LEMMA ContextInvInit == CxInit => ContextInv
<1> SUFFICES ASSUME CxInit PROVE ContextInv
  OBVIOUS
<1>1. PICK first \in Threads : curPid = first /\ onStack = first /\ waiting = Procs \ {first}
  BY DEF CxInit
<1>2. place = At("kernel") /\ loaded = KernelTable /\ userTables = Users /\ ticksOf = Quantum
      /\ contexts = [p \in Procs |-> Context(p, At("stub"))]
  BY DEF CxInit
<1>3. place \in PlaceType /\ place.where = "kernel" /\ At("stub") \in PlaceType /\ At("stub").where = "stub"
  BY <1>2, AtIs
<1>4. \A p \in Procs : contexts[p] \in ContextType /\ contexts[p].stack = p /\ contexts[p].at.where = "stub"
  BY <1>2, <1>3 DEF Context, ContextType
<1>5. curPid \in Procs
  BY <1>1 DEF Procs
<1>6. contexts \in [Procs -> ContextType]
  BY <1>2, <1>4
<1>7. ContextTypes
  BY <1>1, <1>2, <1>3, <1>5, <1>6, ContextAssumption DEF ContextTypes
<1>8. OwnStacks /\ SwitchIsArmed
  BY <1>1, <1>3, <1>4 DEF OwnStacks, SwitchIsArmed
<1>9. EntriesLive /\ TableIsLive
  BY <1>1, <1>2, <1>3, <1>4 DEF EntriesLive, EntersLive, TableIsLive
<1> QED BY <1>7, <1>8, <1>9 DEF ContextInv

LEMMA ContextMoves ==
    ASSUME ContextInv, ThreadStub \/ UserStub \/ EnterUser \/ Trap \/ BackToUser \/ Exit
    PROVE  ContextInv'
<1>1. place.where \notin {"between", "idle"} /\ curPid \in Procs /\ onStack = curPid
  BY DEF ContextInv, ContextTypes, OwnStacks, ThreadStub, UserStub, EnterUser, Trap, BackToUser, Exit
<1>2. UNCHANGED <<curPid, onStack, contexts, userTables, caught, waiting, ticksOf>>
  BY DEF ThreadStub, UserStub, EnterUser, Trap, BackToUser, Exit
<1>3. ticksOf' \in Nat /\ TableIsLive /\ EntersLive(place, curPid) /\ userTables \subseteq Users
  BY <1>2 DEF ContextInv, ContextTypes, EntriesLive
<1>4. CASE ThreadStub \/ Trap \/ BackToUser \/ Exit
  <2>1. \E w \in {"kernel", "user", "teardown"} : place' = At(w)
    BY <1>4 DEF ThreadStub, Trap, BackToUser, Exit
  <2>2. place' \in PlaceType /\ place'.where \in {"kernel", "user", "teardown"}
    BY <2>1, AtIs
  <2>3. TableIsLive'
    BY <1>2, <1>3, <1>4 DEF ThreadStub, Trap, BackToUser, Exit, TableIsLive
  <2> QED BY <1>1, <1>2, <1>3, <2>2, <2>3, MovesOn DEF EntersLive
<1>5. CASE UserStub
  <2>1. PICK r : r = Cr3Of(onStack)
    OBVIOUS
  <2>2. place' = Place("enter", NoPid, NoPid, r) /\ loaded' = loaded
    BY <1>5, <2>1 DEF UserStub
  <2>3. r \in Procs \cup {KernelTable} /\ r \in {curPid, KernelTable} /\ (r = curPid => curPid \in userTables)
    BY <2>1, <1>1, ContextAssumption DEF Cr3Of
  <2>4. place' \in PlaceType /\ place'.where = "enter" /\ place'.root = r
    BY <2>2, <2>3 DEF Place, PlaceType
  <2>5. EntersLive(place', curPid)
    BY <2>3, <2>4 DEF EntersLive
  <2>6. TableIsLive'
    BY <1>2, <1>3, <2>2 DEF TableIsLive
  <2> QED BY <1>1, <1>2, <1>3, <2>4, <2>5, <2>6, MovesOn
<1>6. CASE EnterUser
  <2>1. place' = At("user") /\ place.where = "enter"
        /\ loaded' = IF place.root = KernelTable THEN loaded ELSE place.root
    BY <1>6 DEF EnterUser
  <2>2. place' \in PlaceType /\ place'.where = "user"
    BY <2>1, AtIs
  <2>3. TableIsLive'
    BY <1>2, <1>3, <2>1 DEF TableIsLive, EntersLive
  <2> QED BY <1>1, <1>2, <1>3, <2>2, <2>3, MovesOn DEF EntersLive
<1> QED BY <1>4, <1>5, <1>6

LEMMA ContextTick ==
    ASSUME ContextInv, Tick
    PROVE  ContextInv'
<1>1. /\ place' = [place EXCEPT !.ticked = (place.where = "between")] /\ Interruptible /\ ~Expired
      /\ ticksOf' = ticksOf - 1 /\ UNCHANGED <<curPid, onStack, contexts, loaded, userTables, caught, waiting>>
  BY DEF Tick
<1>2. place \in PlaceType /\ ticksOf' \in Nat
  BY <1>1 DEF ContextInv, ContextTypes, Expired
<1>3. place' \in PlaceType
  BY <1>1, <1>2, Zenon DEF PlaceType
<1>4. place'.where = place.where /\ place'.prev = place.prev /\ place'.next = place.next /\ place'.root = place.root
      /\ (place.where = "between" => place'.ticked = TRUE)
  BY <1>1, <1>2 DEF PlaceType
<1>5. ContextTypes'
  BY <1>1, <1>2, <1>3, <1>4 DEF ContextInv, ContextTypes
<1>6. OwnStacks' /\ SwitchIsArmed'
  BY <1>1, <1>4 DEF ContextInv, OwnStacks, SwitchIsArmed
<1>7. EntriesLive' /\ TableIsLive'
  BY <1>1, <1>4 DEF ContextInv, EntriesLive, EntersLive, TableIsLive
<1> QED BY <1>5, <1>6, <1>7 DEF ContextInv

LEMMA ContextYield ==
    ASSUME ContextInv, NEW next \in Procs, Yield(next)
    PROVE  ContextInv'
<1>1. /\ place.where = "kernel" /\ next \in waiting /\ curPid' = next
      /\ waiting' = (waiting \cup {curPid}) \ {next} /\ ticksOf' = Quantum /\ place' = Between(curPid, next)
      /\ UNCHANGED <<onStack, contexts, loaded, userTables, caught>>
  BY DEF Yield, Chosen, Requeued, Armed
<1>2. curPid \in Procs /\ onStack = curPid /\ curPid # next
  BY <1>1 DEF ContextInv, ContextTypes, OwnStacks
<1>3. place' \in PlaceType /\ place'.where = "between" /\ place'.prev = curPid /\ place'.next = next
  BY <1>1, <1>2 DEF Between, Place, PlaceType
<1>4. ContextTypes'
  BY <1>1, <1>2, <1>3, ContextAssumption DEF ContextInv, ContextTypes
<1>5. OwnStacks' /\ SwitchIsArmed'
  BY <1>1, <1>2, <1>3 DEF ContextInv, OwnStacks, SwitchIsArmed
<1>6. EntriesLive'
  BY <1>1, <1>2, <1>3 DEF ContextInv, EntriesLive, EntersLive
<1>7. TableIsLive'
  BY <1>1 DEF ContextInv, TableIsLive
<1> QED BY <1>4, <1>5, <1>6, <1>7 DEF ContextInv

(* The context that a switch stores is one of its own process.               *)
LEMMA Stored ==
    ASSUME ContextInv, NEW p \in Procs, NEW at \in PlaceType, at.where \notin {"between", "idle"},
           contexts' = [contexts EXCEPT ![p] = Context(p, at)]
    PROVE  /\ contexts' \in [Procs -> ContextType]
           /\ contexts'[p].at = at /\ \A q \in Procs \ {p} : contexts'[q] = contexts[q]
           /\ \A q \in Procs : contexts'[q].stack = q /\ contexts'[q].at.where \notin {"between", "idle"}
<1>1. contexts \in [Procs -> ContextType]
  BY DEF ContextInv, ContextTypes
<1>2. PICK c : c = Context(p, at)
  OBVIOUS
<1>3. c \in ContextType /\ c.stack = p /\ c.at = at
  BY <1>2 DEF Context, ContextType
<1>4. contexts' = [contexts EXCEPT ![p] = c]
  BY <1>2
<1>5. contexts' \in [Procs -> ContextType] /\ contexts'[p] = c /\ \A q \in Procs \ {p} : contexts'[q] = contexts[q]
  BY <1>1, <1>3, <1>4
<1> QED BY <1>3, <1>5 DEF ContextInv, OwnStacks

LEMMA ContextSwitch ==
    ASSUME ContextInv, SwitchContext
    PROVE  ContextInv'
<1>1. /\ place.where = "between" /\ onStack = place.prev /\ place.prev \in Procs /\ place.next = curPid
      /\ curPid \in Procs
  BY DEF SwitchContext, ContextInv, SwitchIsArmed, ContextTypes
<1>2. PICK c : c = contexts[curPid]
  OBVIOUS
<1>3. /\ contexts' = [contexts EXCEPT ![place.prev] = Context(place.prev, At("kernel"))]
      /\ onStack' = c.stack /\ place' = c.at
      /\ UNCHANGED <<curPid, loaded, userTables, caught, waiting, ticksOf>>
  BY <1>1, <1>2 DEF SwitchContext, Restored
<1>4. /\ contexts' \in [Procs -> ContextType] /\ contexts'[place.prev].at = At("kernel")
      /\ \A q \in Procs \ {place.prev} : contexts'[q] = contexts[q]
      /\ \A q \in Procs : contexts'[q].stack = q /\ contexts'[q].at.where \notin {"between", "idle"}
  BY <1>1, <1>3, AtIs, Stored
<1>5. c \in ContextType /\ c.stack = curPid /\ c.at.where \notin {"between", "idle"}
  BY <1>1, <1>2 DEF ContextInv, ContextTypes, OwnStacks
<1>6. place' \in PlaceType /\ place'.where \notin {"between", "idle"} /\ onStack' = curPid
  BY <1>3, <1>5 DEF ContextType
<1>7. ContextTypes'
  BY <1>1, <1>3, <1>4, <1>6 DEF ContextInv, ContextTypes
<1>8. OwnStacks' /\ SwitchIsArmed'
  BY <1>3, <1>4, <1>6 DEF OwnStacks, SwitchIsArmed
<1>9. EntriesLive'
  <2>1. EntersLive(place, curPid)' 
    BY <1>1, <1>2, <1>3 DEF ContextInv, EntriesLive, EntersLive
  <2>2. ASSUME NEW p \in waiting PROVE EntersLive(contexts[p].at, p)'
    <3>1. CASE p = place.prev
      <4>1. contexts'[p].at.where = "kernel"
        BY <3>1, <1>4, AtIs
      <4> QED BY <4>1 DEF EntersLive
    <3>2. CASE p # place.prev
      <4>1. EntersLive(contexts[p].at, p) /\ p \in Procs
        BY <3>2 DEF ContextInv, EntriesLive, ContextTypes
      <4>2. contexts'[p] = contexts[p]
        BY <3>2, <4>1, <1>4
      <4> QED BY <4>1, <4>2, <1>3 DEF EntersLive
    <3> QED BY <3>1, <3>2
  <2> QED BY <2>1, <2>2, <1>3, <1>6 DEF EntriesLive
<1>10. TableIsLive'
  BY <1>3 DEF ContextInv, TableIsLive
<1> QED BY <1>7, <1>8, <1>9, <1>10 DEF ContextInv

(* The timer can preempt nobody between the choice and the switch.           *)
LEMMA ContextPreempt ==
    ASSUME ~Sleeping, ContextInv, NEW next \in Procs, Preempt(next)
    PROVE  ContextInv'
<1>1. Expired /\ Interruptible
  BY DEF Preempt
<1>2. place.where \notin {"between", "idle", "stub"}
  BY <1>1, ContextAssumption DEF Interruptible, Expired, ContextInv, SwitchIsArmed
<1>3. curPid \in Procs /\ onStack = curPid /\ place \in PlaceType
  BY <1>2 DEF ContextInv, ContextTypes, OwnStacks
<1>4. PICK c : c = contexts[next]
  OBVIOUS
<1>5. /\ next \in waiting /\ curPid' = next /\ waiting' = (waiting \cup {curPid}) \ {next} /\ ticksOf' = Quantum
      /\ contexts' = [contexts EXCEPT ![curPid] = Context(curPid, place)]
      /\ onStack' = c.stack /\ place' = c.at /\ UNCHANGED <<loaded, userTables, caught>>
  BY <1>3, <1>4 DEF Preempt, Chosen, Requeued, Armed, Restored
<1>6. /\ contexts' \in [Procs -> ContextType] /\ contexts'[curPid].at = place
      /\ \A q \in Procs \ {curPid} : contexts'[q] = contexts[q]
      /\ \A q \in Procs : contexts'[q].stack = q /\ contexts'[q].at.where \notin {"between", "idle"}
  BY <1>2, <1>3, <1>5, Stored
<1>7. c \in ContextType /\ c.stack = next /\ c.at.where \notin {"between", "idle"}
  BY <1>4 DEF ContextInv, ContextTypes, OwnStacks
<1>8. place' \in PlaceType /\ place'.where \notin {"between", "idle"} /\ onStack' = next
  BY <1>5, <1>7 DEF ContextType
<1>9. ContextTypes'
  BY <1>3, <1>5, <1>6, <1>8, ContextAssumption DEF ContextInv, ContextTypes
<1>10. OwnStacks' /\ SwitchIsArmed'
  BY <1>5, <1>6, <1>8 DEF OwnStacks, SwitchIsArmed
<1>11. EntriesLive'
  <2>1. EntersLive(contexts[next].at, next) /\ EntersLive(place, curPid)
    BY <1>2, <1>5 DEF ContextInv, EntriesLive
  <2>2. EntersLive(place, curPid)'
    BY <2>1, <1>4, <1>5 DEF EntersLive
  <2>3. ASSUME NEW p \in waiting' PROVE EntersLive(contexts[p].at, p)'
    <3>1. CASE p = curPid
      BY <3>1, <2>1, <1>5, <1>6 DEF EntersLive
    <3>2. CASE p # curPid
      <4>1. EntersLive(contexts[p].at, p) /\ p \in Procs
        BY <3>2, <1>2, <1>5 DEF ContextInv, EntriesLive, ContextTypes
      <4>2. contexts'[p] = contexts[p]
        BY <3>2, <4>1, <1>6
      <4> QED BY <4>1, <4>2, <1>5 DEF EntersLive
    <3> QED BY <3>1, <3>2
  <2> QED BY <2>2, <2>3, <1>8 DEF EntriesLive
<1>12. TableIsLive'
  BY <1>5 DEF ContextInv, TableIsLive
<1> QED BY <1>9, <1>10, <1>11, <1>12 DEF ContextInv

LEMMA ContextPreemptAlone ==
    ASSUME ContextInv, PreemptAlone
    PROVE  ContextInv'
<1>1. ticksOf' = Quantum /\ UNCHANGED <<curPid, onStack, place, contexts, loaded, userTables, caught, waiting>>
  BY DEF PreemptAlone, Armed
<1> QED BY <1>1, ContextAssumption
        DEF ContextInv, ContextTypes, OwnStacks, SwitchIsArmed, EntriesLive, EntersLive, TableIsLive

LEMMA ContextReleases ==
    ASSUME ContextInv, ReleaseOwn
    PROVE  ContextInv'
<1>1. /\ place.where = "teardown" /\ place' = At("released")
      /\ loaded' = (IF loaded = curPid THEN KernelTable ELSE loaded) /\ userTables' = userTables \ {curPid}
      /\ UNCHANGED <<curPid, onStack, contexts, caught, waiting, ticksOf>>
  BY DEF ReleaseOwn, Released, Unloaded
<1>2. place' \in PlaceType /\ place'.where = "released"
  BY <1>1, AtIs
<1>3. ContextTypes'
  BY <1>1, <1>2 DEF ContextInv, ContextTypes
<1>4. OwnStacks' /\ SwitchIsArmed'
  BY <1>1, <1>2 DEF ContextInv, OwnStacks, SwitchIsArmed
<1>5. \A p \in waiting : p # curPid /\ EntersLive(contexts[p].at, p)
  BY <1>1 DEF ContextInv, ContextTypes, EntriesLive
<1>6. EntriesLive'
  BY <1>1, <1>2, <1>5 DEF EntriesLive, EntersLive
<1>7. TableIsLive'
  BY <1>1 DEF ContextInv, TableIsLive
<1> QED BY <1>3, <1>4, <1>6, <1>7 DEF ContextInv

LEMMA ContextJumps ==
    ASSUME ContextInv, JumpToIdle \/ \E next \in Procs : JumpToInitial(next)
    PROVE  ContextInv'
<1>1. CASE JumpToIdle
  <2>1. /\ waiting = {} /\ curPid' = NoPid /\ onStack' = NoPid /\ place' = At("idle")
        /\ UNCHANGED <<contexts, loaded, userTables, caught, waiting, ticksOf>>
    BY <1>1 DEF JumpToIdle
  <2>2. place' \in PlaceType /\ place'.where = "idle"
    BY <2>1, AtIs
  <2>3. ContextTypes' /\ OwnStacks' /\ SwitchIsArmed'
    BY <2>1, <2>2 DEF ContextInv, ContextTypes, OwnStacks, SwitchIsArmed
  <2>4. EntriesLive' /\ TableIsLive'
    BY <2>1, <2>2 DEF ContextInv, EntriesLive, EntersLive, TableIsLive
  <2> QED BY <2>3, <2>4 DEF ContextInv
<1>2. ASSUME NEW next \in Procs, JumpToInitial(next) PROVE ContextInv'
  <2>1. PICK c : c = contexts[next]
    OBVIOUS
  <2>2. /\ place.where = "released" /\ next \in waiting /\ curPid' = next /\ waiting' = waiting \ {next}
        /\ ticksOf' = Quantum /\ onStack' = c.stack /\ place' = c.at
        /\ UNCHANGED <<contexts, loaded, userTables, caught>>
    BY <1>2, <2>1 DEF JumpToInitial, Armed, Restored
  <2>3. c \in ContextType /\ c.stack = next /\ c.at.where \notin {"between", "idle"} /\ EntersLive(c.at, next)
    BY <2>1, <2>2 DEF ContextInv, ContextTypes, OwnStacks, EntriesLive
  <2>4. place' \in PlaceType /\ place'.where \notin {"between", "idle"} /\ onStack' = next
    BY <2>2, <2>3 DEF ContextType
  <2>5. ContextTypes'
    BY <2>2, <2>4, ContextAssumption DEF ContextInv, ContextTypes
  <2>6. OwnStacks' /\ SwitchIsArmed'
    BY <2>2, <2>4 DEF ContextInv, OwnStacks, SwitchIsArmed
  <2>7. EntriesLive' /\ TableIsLive'
    BY <2>2, <2>3, <2>4 DEF ContextInv, EntriesLive, EntersLive, TableIsLive
  <2> QED BY <2>5, <2>6, <2>7 DEF ContextInv
<1> QED BY <1>1, <1>2

LEMMA ContextCloses ==
    ASSUME ContextInv, PurgeOther \/ \E pid \in Users : CloseOther(pid)
    PROVE  ContextInv'
<1>1. CASE PurgeOther
  <2>1. /\ place.where = "closing" /\ waiting' = waiting \ {place.next} /\ place' = At("kernel")
        /\ UNCHANGED <<curPid, onStack, contexts, loaded, userTables, caught, ticksOf>>
    BY <1>1 DEF PurgeOther
  <2>2. place' \in PlaceType /\ place'.where = "kernel"
    BY <2>1, AtIs
  <2>3. ContextTypes' /\ OwnStacks' /\ SwitchIsArmed'
    BY <2>1, <2>2 DEF ContextInv, ContextTypes, OwnStacks, SwitchIsArmed
  <2>4. EntriesLive' /\ TableIsLive'
    BY <2>1, <2>2 DEF ContextInv, EntriesLive, EntersLive, TableIsLive
  <2> QED BY <2>3, <2>4 DEF ContextInv
<1>2. ASSUME NEW pid \in Users, CloseOther(pid) PROVE ContextInv'
  <2>1. /\ place.where = "kernel" /\ pid \in waiting /\ place' = Place("closing", NoPid, pid, KernelTable)
        /\ loaded' = (IF loaded = pid THEN KernelTable ELSE loaded) /\ userTables' = userTables \ {pid}
        /\ caught' = (IF contexts[pid].at.where = "enter" THEN caught \cup {pid} ELSE caught)
        /\ UNCHANGED <<curPid, onStack, contexts, waiting, ticksOf>>
    BY <1>2 DEF CloseOther, Released, Unloaded
  <2>2. place' \in PlaceType /\ place'.where = "closing"
    BY <2>1 DEF Procs, Place, PlaceType
  <2>3. ContextTypes' /\ OwnStacks' /\ SwitchIsArmed'
    BY <2>1, <2>2 DEF ContextInv, ContextTypes, OwnStacks, SwitchIsArmed
  <2>4. ASSUME NEW p \in waiting PROVE EntersLive(contexts[p].at, p)'
    <3>1. EntersLive(contexts[p].at, p)
      BY <2>1 DEF ContextInv, EntriesLive
    <3>2. CASE p = pid
      BY <3>1, <3>2, <2>1 DEF EntersLive
    <3>3. CASE p # pid
      BY <3>1, <3>3, <2>1 DEF EntersLive
    <3> QED BY <3>2, <3>3
  <2>5. EntriesLive'
    BY <2>1, <2>2, <2>4 DEF EntriesLive, EntersLive
  <2>6. TableIsLive'
    BY <2>1 DEF ContextInv, TableIsLive
  <2> QED BY <2>3, <2>5, <2>6 DEF ContextInv
<1> QED BY <1>1, <1>2

LEMMA ContextInvNext ==
    ASSUME ~Sleeping, ContextInv, [CxNext]_cxVars
    PROVE  ContextInv'
<1>1. CASE ThreadStub \/ UserStub \/ EnterUser \/ Trap \/ BackToUser \/ Exit
  BY <1>1, ContextMoves
<1>2. CASE SwitchContext \/ Tick \/ PreemptAlone
  BY <1>2, ContextSwitch, ContextTick, ContextPreemptAlone
<1>3. CASE ReleaseOwn \/ JumpToIdle \/ PurgeOther \/ \E pid \in Users : CloseOther(pid)
  BY <1>3, ContextReleases, ContextJumps, ContextCloses
<1>4. CASE \E next \in Procs : Yield(next) \/ Preempt(next) \/ JumpToInitial(next)
  BY <1>4, ContextYield, ContextPreempt, ContextJumps
<1>5. CASE UNCHANGED cxVars
  BY <1>5 DEF cxVars, ContextInv, ContextTypes, OwnStacks, SwitchIsArmed, EntriesLive, EntersLive, TableIsLive
<1> QED BY <1>1, <1>2, <1>3, <1>4, <1>5 DEF CxNext

(* For any processes and threads and any quantum of at least two ticks,      *)
(* however yields, timer interrupts, exits and closed windows fall: the page *)
(* table that is loaded exists, and every process continues on its own       *)
(* stack -- as long as no sleeper is due at a tick between the choice of the *)
(* next process and the switch to it (process.rs: schedule_internal,         *)
(* switch_context, timer_tick, exit_current).                                *)
THEOREM ContextIsKept ==
    ASSUME ~Sleeping
    PROVE  CxSpec => []ContextSound
<1>1. CxInit => ContextInv
  BY ContextInvInit
<1>2. ContextInv /\ [CxNext]_cxVars => ContextInv'
  BY ContextInvNext
<1>3. ContextInv => ContextSound
  <2> SUFFICES ASSUME ContextInv PROVE ContextSound
    OBVIOUS
  <2>1. ContextIsOwn
    BY DEF ContextInv, ContextTypes, OwnStacks, ContextIsOwn
  <2> QED BY <2>1 DEF ContextInv, ContextSound
<1> QED BY <1>1, <1>2, <1>3, PTL DEF CxSpec

-----------------------------------------------------------------------------
(* The loader *)

(* A byte's page and its place in the page.                                 *)
LEMMA PageOfByte ==
    ASSUME NEW a \in Nat
    PROVE  /\ PageOf(a) \in Nat /\ a % PageBytes \in 0 .. PageBytes - 1
           /\ PageOf(a) * PageBytes + (a % PageBytes) = a
<1>1. PICK P \in Nat : P = PageBytes /\ P > 0
    BY PageAssumption
<1>2. a \div P \in Nat /\ a % P \in 0 .. P - 1
    BY <1>1
<1>3. a = P * (a \div P) + (a % P)
    BY <1>1
<1>4. P * (a \div P) = (a \div P) * P
    BY <1>1, <1>2
<1> QED BY <1>1, <1>2, <1>3, <1>4 DEF PageOf

LEMMA PageFloor ==
    ASSUME NEW a \in Nat, NEW k \in Nat, k * PageBytes <= a
    PROVE  k <= PageOf(a)
<1>1. PICK P \in Nat : P = PageBytes /\ P > 0
    BY PageAssumption
<1>2. k * P <= a
    BY <1>1
<1>3. k <= a \div P
    BY <1>1, <1>2
<1> QED BY <1>1, <1>3 DEF PageOf

LEMMA PageCeiling ==
    ASSUME NEW a \in Nat, NEW k \in Nat, a < k * PageBytes
    PROVE  PageOf(a) < k
<1>1. PICK P \in Nat : P = PageBytes /\ P > 0
    BY PageAssumption
<1>2. a < k * P
    BY <1>1
<1>3. a \div P < k
    BY <1>1, <1>2
<1> QED BY <1>1, <1>3 DEF PageOf

LEMMA PagesGrow ==
    ASSUME NEW a \in Nat, NEW b \in Nat, a <= b
    PROVE  PageOf(a) <= PageOf(b)
<1>1. PICK k \in Nat : k = PageOf(a)
    BY PageOfByte
<1>2. PICK r \in 0 .. PageBytes - 1 : k * PageBytes + r = a
    BY <1>1, PageOfByte
<1>3. PICK n \in Int : n = k * PageBytes
    BY <1>1, PageAssumption
<1>4. n <= b
    BY <1>2, <1>3, PageAssumption
<1> QED BY <1>1, <1>3, <1>4, PageFloor

LEMMA SegmentTyped ==
    ASSUME NEW s \in Segments
    PROVE  s.offset \in Nat /\ s.filesz \in Nat /\ s.memsz \in Nat /\ s.vaddr \in Nat
BY PageAssumption

(* Every byte of a segment lies in one of its pages.                        *)
LEMMA ByteInPages ==
    ASSUME NEW s \in Segments, NEW a \in s.vaddr .. MemEnd(s) - 1
    PROVE  PageOf(a) \in PagesOf(s)
<1>1. s.vaddr \in Nat /\ s.memsz \in Nat /\ MemEnd(s) = s.vaddr + s.memsz
    BY SegmentTyped DEF MemEnd
<1>2. a \in Nat /\ MemEnd(s) - 1 \in Nat /\ s.vaddr <= a /\ a <= MemEnd(s) - 1 /\ s.memsz # 0
    BY <1>1
<1>3. PageOf(s.vaddr) <= PageOf(a) /\ PageOf(a) <= PageOf(MemEnd(s) - 1)
    BY <1>1, <1>2, PagesGrow
<1>4. PageOf(s.vaddr) \in Nat /\ PageOf(a) \in Nat /\ PageOf(MemEnd(s) - 1) \in Nat
    BY <1>1, <1>2, PageOfByte
<1> QED BY <1>2, <1>3, <1>4 DEF PagesOf

(* A segment in the user region has all its pages there.                    *)
LEMMA PagesInRegion ==
    ASSUME NEW s \in Segments, InUserSpace(s)
    PROVE  PagesOf(s) \subseteq UserMin .. UserMax - 1
<1>1. CASE s.memsz = 0
    BY <1>1 DEF PagesOf
<1>2. CASE s.memsz # 0
    <2>1. s.vaddr \in Nat /\ s.memsz \in Nat /\ MemEnd(s) - 1 \in Nat /\ MemEnd(s) \in Nat
        BY <1>2, SegmentTyped DEF MemEnd
    <2>2. UserMin * PageBytes <= s.vaddr /\ MemEnd(s) <= UserMax * PageBytes
        BY <2>1, PageAssumption DEF InUserSpace
    <2>3. UserMin <= PageOf(s.vaddr)
        BY <2>1, <2>2, PageFloor, PageAssumption
    <2>4. MemEnd(s) - 1 < UserMax * PageBytes
        <3>1. PICK n \in Int : n = UserMax * PageBytes
            BY PageAssumption
        <3> QED BY <2>1, <2>2, <3>1
    <2>5. PageOf(MemEnd(s) - 1) < UserMax
        BY <2>1, <2>4, PageCeiling, PageAssumption
    <2>6. PageOf(s.vaddr) \in Nat /\ PageOf(MemEnd(s) - 1) \in Nat
        BY <2>1, PageOfByte
    <2> QED BY <1>2, <2>3, <2>5, <2>6, PageAssumption DEF PagesOf
<1> QED BY <1>1, <1>2

(* What the page of a segment holds at the place of one of its bytes.       *)
LEMMA PageHolds ==
    ASSUME NEW s \in Segments, NEW a \in s.vaddr .. MemEnd(s) - 1
    PROVE  PageFor(s, PageOf(a)).bytes[a % PageBytes] = IF a < s.vaddr + s.filesz THEN s.offset + a - s.vaddr ELSE -1
<1>1. s.vaddr \in Nat /\ s.memsz \in Nat /\ s.filesz \in Nat /\ s.offset \in Nat
    BY SegmentTyped
<1>2. a \in Nat
    BY <1>1
<1>3. a % PageBytes \in 0 .. PageBytes - 1 /\ PageOf(a) * PageBytes + (a % PageBytes) = a
    BY <1>2, PageOfByte
<1>4. Bytes(s, PageOf(a))[a % PageBytes] = Copied(s, a)
    BY <1>3 DEF Bytes
<1>5. Copied(s, a) = IF a < s.vaddr + s.filesz THEN s.offset + a - s.vaddr ELSE -1
    BY <1>1, <1>2 DEF Copied
<1> QED BY <1>4, <1>5 DEF PageFor

(* exec_elf writes no page it has not mapped for a segment that begins at a *)
(* page.                                                                    *)
LEMMA LegacyAligned ==
    ASSUME NEW s \in Segments, s.memsz > 0, s.vaddr % PageBytes = 0
    PROVE  LegacyWritten(s) \subseteq LegacyMapped(s)
<1>1. s.vaddr \in Nat /\ s.memsz \in Nat
    BY SegmentTyped
<1>2. PICK q \in Nat : q = PageOf(s.vaddr) /\ q * PageBytes = s.vaddr
    <2>1. PICK q \in Nat : q = PageOf(s.vaddr) /\ q * PageBytes + 0 = s.vaddr
        BY <1>1, PageOfByte
    <2>2. q * PageBytes \in Int
        BY PageAssumption
    <2>3. q * PageBytes = s.vaddr
        BY <2>1, <2>2
    <2> QED BY <2>1, <2>3
<1>3. PageBytes \in Nat /\ PageBytes > 0
    BY PageAssumption
<1>4. s.memsz + PageBytes - 1 \in Nat /\ 1 * PageBytes <= s.memsz + PageBytes - 1
    BY <1>1, <1>3
<1>5. PICK n \in Nat : n = LegacyPages(s) /\ n >= 1
    <2>1. LegacyPages(s) = PageOf(s.memsz + PageBytes - 1)
        BY DEF LegacyPages, PageOf
    <2> QED BY <1>4, <2>1, PageFloor, PageOfByte
<1>6. (q + n) * PageBytes = q * PageBytes + n * PageBytes
    BY <1>2, <1>3, <1>5
<1>7. n * PageBytes >= PageBytes /\ n * PageBytes \in Nat
    BY <1>3, <1>5
<1>8. PICK last \in Nat : last = LegacyLast(s) /\ last < (q + n) * PageBytes
    <2>1. PICK x \in Nat : x = n * PageBytes /\ x >= 1
        BY <1>3, <1>7
    <2>2. LegacyLast(s) = s.vaddr + x - 1
        BY <1>5, <2>1 DEF LegacyLast
    <2> QED BY <1>1, <1>2, <1>6, <2>1, <2>2
<1>9. PageOf(last) < q + n /\ PageOf(last) \in Nat
    BY <1>8, PageCeiling, PageOfByte
<1>10. LegacyWritten(s) = q .. PageOf(last)
    BY <1>2, <1>8 DEF LegacyWritten
<1>11. ASSUME NEW p \in q .. PageOf(last) PROVE p \in LegacyMapped(s)
    <2>1. p - q \in 0 .. n - 1 /\ p = q + (p - q)
        BY <1>5, <1>9
    <2> QED BY <1>2, <1>5, <2>1 DEF LegacyMapped, LegacyFirst
<1> QED BY <1>10, <1>11

(* The pages that exec_elf maps are pages of the segment; the first is one  *)
(* of those, and is written.                                                *)
LEMMA LegacyInSegment ==
    ASSUME NEW s \in Segments, s.memsz > 0
    PROVE  /\ LegacyMapped(s) \subseteq PagesOf(s)
           /\ PageOf(s.vaddr) \in LegacyMapped(s) /\ PageOf(s.vaddr) \in LegacyWritten(s)
           /\ LegacyPages(s) \in Nat
<1>1. s.vaddr \in Nat /\ s.memsz \in Nat /\ PageBytes \in Nat /\ PageBytes > 0
    BY SegmentTyped, PageAssumption
<1>2. PICK q \in Nat : q = PageOf(s.vaddr) /\ q * PageBytes <= s.vaddr
    <2>1. PICK q \in Nat : q = PageOf(s.vaddr)
        BY <1>1, PageOfByte
    <2>2. PICK x : x \in Nat /\ q * PageBytes + x = s.vaddr
        <3>1. s.vaddr % PageBytes \in Nat
            BY <1>1
        <3> QED BY <1>1, <2>1, <3>1, PageOfByte
    <2>3. q * PageBytes \in Nat
        BY <1>1
    <2> QED BY <1>1, <2>1, <2>2, <2>3
<1>3. LegacyPages(s) = PageOf(s.memsz + PageBytes - 1) /\ s.memsz + PageBytes - 1 \in Nat
    BY <1>1 DEF LegacyPages, PageOf
<1>4. PICK n \in Nat : n = LegacyPages(s)
    BY <1>3, PageOfByte
<1>5. n >= 1
    BY <1>1, <1>3, <1>4, PageFloor
<1>6. (n - 1) * PageBytes <= s.memsz - 1
    <2>1. PICK x \in Nat : n * PageBytes + x = s.memsz + PageBytes - 1
        BY <1>3, <1>4, PageOfByte
    <2>2. (n - 1) * PageBytes = n * PageBytes - PageBytes
        BY <1>1, <1>4
    <2>3. n * PageBytes \in Nat
        BY <1>1
    <2> QED BY <1>1, <2>1, <2>2, <2>3
<1>7. PICK end \in Nat : end = MemEnd(s) - 1 /\ end = s.vaddr + s.memsz - 1
    BY <1>1 DEF MemEnd
<1>8. (q + (n - 1)) * PageBytes <= end
    <2>1. (q + (n - 1)) * PageBytes = q * PageBytes + (n - 1) * PageBytes
        BY <1>1, <1>2, <1>4
    <2>2. q * PageBytes \in Nat /\ (n - 1) * PageBytes \in Int
        BY <1>1, <1>2, <1>4
    <2> QED BY <1>1, <1>2, <1>6, <1>7, <2>1, <2>2
<1>9. q + (n - 1) <= PageOf(end) /\ PageOf(end) \in Nat
    <2>1. q + (n - 1) \in Nat
        BY <1>5
    <2> QED BY <1>7, <1>8, <2>1, PageFloor, PageOfByte
<1>10. PagesOf(s) = q .. PageOf(end)
    BY <1>1, <1>2, <1>7 DEF PagesOf
<1>11. LegacyMapped(s) = {q + i : i \in 0 .. n - 1}
    BY <1>2, <1>4 DEF LegacyMapped, LegacyFirst
<1>12. LegacyMapped(s) \subseteq PagesOf(s) /\ q \in LegacyMapped(s)
    <2>1. \A i \in 0 .. n - 1 : q + i \in q .. PageOf(end)
        BY <1>9
    <2>2. 0 \in 0 .. n - 1 /\ q + 0 = q
        BY <1>5
    <2> QED BY <1>10, <1>11, <2>1, <2>2
<1>13. q <= PageOf(LegacyLast(s)) /\ PageOf(LegacyLast(s)) \in Nat
    <2>1. PICK x \in Nat : x = n * PageBytes /\ x >= 1
        BY <1>1, <1>5
    <2>2. LegacyLast(s) = s.vaddr + x - 1
        BY <1>4, <2>1 DEF LegacyLast
    <2>3. LegacyLast(s) \in Nat /\ s.vaddr <= LegacyLast(s)
        BY <1>1, <2>1, <2>2
    <2> QED BY <1>1, <1>2, <2>3, PagesGrow, PageOfByte
<1> QED BY <1>2, <1>4, <1>12, <1>13 DEF LegacyWritten

(* What parse_elf has established of an image that it accepted.             *)
Accepted ==
    /\ \A i \in Used : SegmentValid(Segment(i))
    /\ \A i, j \in Used : i < j => ~Touches(Segment(i), Segment(j))
    /\ \E i \in Used : EntryIn(Segment(i))

(* The segments in done are mapped, and the page of each is as its header   *)
(* says.                                                                    *)
PagesAll(done) == UNION {PagesOf(Segment(i)) : i \in done}
AsDescribed(done) == \A i \in done : \A p \in PagesOf(Segment(i)) : space[p] = PageFor(Segment(i), p)

(* A package keeps, next to a payload and lengths that may change, the      *)
(* parts that it was built from and their checksum.                         *)
PartNames == {"manifest", "elf", "resources", "split", "sum", "body"}
Words3 == {"name", "version", "entry", "network", "magic", "code", "icon"}
BuiltFrom(q) ==
    /\ DOMAIN q = PartNames
    /\ q.manifest \in Seq(Words3) /\ q.elf \in Seq(Words3) /\ q.resources \in Seq(Words3)
    /\ q.sum = q.manifest \o q.elf \o q.resources

(* What exec_elf has mapped is writable when all segments are.  Where all   *)
(* frames were there and nothing was mapped before, it is of the segments   *)
(* done, which are writable and written only inside the image.              *)
LegacyAll(done) == UNION {LegacyMapped(Segment(i)) : i \in done}
LegacyGood ==
    before = <<>> /\ (\A i \in Used : "w" \in Segment(i).flags) => \A p \in DOMAIN space : space[p].flags.w
LegacyDone ==
    ~short /\ before = <<>> =>
        /\ DOMAIN space \subseteq LegacyAll(Used \ toMap)
        /\ \A i \in Used \ toMap : "w" \in Segment(i).flags /\ LegacyWritten(Segment(i)) \subseteq LegacyAll(Used)
LegacyInv ==
    /\ loadAt = "legacyParse" => space = before
    /\ loadAt = "legacyMap" => Accepted /\ LegacyGood /\ LegacyDone
    /\ LegacyFaults /\ LegacyRunsOnly

ImageTyped ==
    /\ DOMAIN elf.segs \in SUBSET Nat /\ elf.entry \in Nat
    /\ \A i \in DOMAIN elf.segs : elf.segs[i] \in Segments

LoaderInv ==
    /\ ImageTyped /\ toMap \subseteq Used
    /\ loadAt = "parse" => DOMAIN space = {}
    /\ loadAt = "map" => Accepted /\ DOMAIN space = PagesAll(Used \ toMap) /\ AsDescribed(Used \ toMap)
    /\ loadAt = "runs" => Accepted /\ DOMAIN space = PagesAll(Used) \cup {StackPage} /\ AsDescribed(Used)
    /\ AcceptedIsLoadable
    /\ loadAt = "package" => BuiltFrom(pkg)
    /\ got3 # "unread" => loadAt = "package"
    /\ got3 = "package" => SumHolds

LEMMA ParsedIsAccepted == ParseOk => Accepted
BY DEF ParseOk, Accepted, Used

(* The segment that is mapped next is one of those left, and has pages.     *)
LEMMA NextIsLeft ==
    ASSUME ImageTyped, toMap \subseteq Used, toMap # {}
    PROVE  /\ Min(toMap) \in toMap /\ Min(toMap) \in Used /\ Min(toMap) \in Nat
           /\ Segment(Min(toMap)) \in Segments /\ Segment(Min(toMap)).memsz > 0
<1>1. toMap \in SUBSET Nat /\ Used \subseteq DOMAIN elf.segs
    BY DEF ImageTyped, Used
<1>2. PICK m \in toMap : \A t \in toMap : m <= t
    BY <1>1, MinExists
<1>3. Min(toMap) \in toMap
    BY <1>2, Zenon DEF Min
<1> QED BY <1>1, <1>3 DEF ImageTyped, Used, Segment

LEMMA UsedSegment ==
    ASSUME ImageTyped, NEW i \in Used
    PROVE  i \in Nat /\ Segment(i) \in Segments /\ Segment(i).memsz > 0
BY DEF ImageTyped, Used, Segment

(* Two segments of an accepted image share no page.                         *)
LEMMA SegmentsApart ==
    ASSUME ImageTyped, Accepted, NEW i \in Used, NEW j \in Used, i # j
    PROVE  PagesOf(Segment(i)) \cap PagesOf(Segment(j)) = {}
<1>1. i \in Nat /\ j \in Nat
    BY UsedSegment
<1>2. CASE i < j
    BY <1>2 DEF Accepted, Touches
<1>3. CASE j < i
    <2>1. PagesOf(Segment(j)) \cap PagesOf(Segment(i)) = {}
        BY <1>3 DEF Accepted, Touches
    <2> QED BY <2>1, Zenon
<1> QED BY <1>1, <1>2, <1>3

LEMMA ImageKept ==
    ASSUME elf' = elf
    PROVE  /\ Used' = Used /\ ImageTyped' = ImageTyped /\ Accepted' = Accepted
BY DEF Used, ImageTyped, Accepted, Segment, SegmentValid, InUserSpace, MemEnd, Touches, PagesOf, PageOf, EntryIn

LEMMA SegmentsKept ==
    ASSUME elf' = elf
    PROVE  /\ \A i : /\ Segment(i)' = Segment(i) /\ LegacyMapped(Segment(i))' = LegacyMapped(Segment(i))
                     /\ LegacyWritten(Segment(i))' = LegacyWritten(Segment(i))
BY DEF Segment, LegacyMapped, LegacyFirst, LegacyWritten, LegacyLast, LegacyPages, PageOf

(* The parts that a package is built from. *)
LEMMA PartsAreWords ==
    /\ <<>> \in Seq(Words3) /\ <<"code">> \in Seq(Words3) /\ <<"icon">> \in Seq(Words3)
    /\ <<"magic", "code">> \in Seq(Words3) /\ <<"magic", "icon">> \in Seq(Words3)
    /\ <<"name", "version">> \in Seq(Words3) /\ <<"name", "version", "entry">> \in Seq(Words3)
    /\ <<"name", "version", "entry", "network">> \in Seq(Words3)
<1>1. PICK W : W = Words3
    OBVIOUS
<1>2. {"name", "version", "entry", "network", "magic", "code", "icon"} \subseteq W
    BY <1>1 DEF Words3
<1>3. <<>> \in Seq(W)
    OBVIOUS
<1>4. <<"code">> \in Seq(W) /\ <<"icon">> \in Seq(W)
    BY <1>2
<1>5. <<"magic", "code">> \in Seq(W) /\ <<"magic", "icon">> \in Seq(W)
    BY <1>2
<1>6. <<"name", "version">> \in Seq(W)
    BY <1>2
<1>7. <<"name", "version", "entry">> \in Seq(W)
    BY <1>2
<1>8. <<"name", "version", "entry", "network">> \in Seq(W)
    BY <1>2
<1> QED BY <1>1, <1>3, <1>4, <1>5, <1>6, <1>7, <1>8, Zenon

LEMMA LoaderInvInit == LoadInit("parse") \/ LoadInit("legacyParse") \/ PackInit => LoaderInv
<1>1. ASSUME LoadInit("parse") \/ LoadInit("legacyParse") PROVE LoaderInv
    <2>1. PICK n \in 0 .. MaxHeaders : elf.segs \in [1 .. n -> Segments]
        BY <1>1, Zenon DEF LoadInit, Images
    <2>2. elf.entry \in Nat
        BY <1>1, PageAssumption DEF LoadInit, Images
    <2>3. ImageTyped
        BY <2>1, <2>2 DEF ImageTyped
    <2>4. /\ loadAt \in {"parse", "legacyParse"} /\ toMap = {} /\ short = FALSE /\ got3 = "unread"
          /\ (loadAt = "parse" => space = <<>>)
        BY <1>1 DEF LoadInit
    <2> QED BY <2>3, <2>4 DEF LoaderInv, AcceptedIsLoadable
<1>2. ASSUME PackInit PROVE LoaderInv
    <2>1. ImageTyped
        BY <1>2 DEF PackInit, ImageTyped
    <2>2. loadAt = "package" /\ toMap = {} /\ got3 = "unread"
        BY <1>2 DEF PackInit
    <2>3. PICK m \in Manifests, e \in Elfs, r \in {<<>>, <<"icon">>, <<"magic", "icon">>} : pkg = Build(m, e, r)
        BY <1>2 DEF PackInit
    <2>4. m \in Seq(Words3) /\ e \in Seq(Words3) /\ r \in Seq(Words3)
        BY PartsAreWords DEF Manifests, Elfs
    <2>8. BuiltFrom(pkg)
        BY <2>3, <2>4 DEF BuiltFrom, Build, PartNames
    <2> QED BY <2>1, <2>2, <2>8 DEF LoaderInv, AcceptedIsLoadable
<1> QED BY <1>1, <1>2

LEMMA LegacyInvInit == LoadInit("parse") \/ LoadInit("legacyParse") \/ PackInit => LegacyInv
<1> SUFFICES ASSUME LoadInit("parse") \/ LoadInit("legacyParse") \/ PackInit PROVE LegacyInv
    OBVIOUS
<1>1. loadAt \in {"parse", "legacyParse", "package"} /\ (loadAt = "legacyParse" => space = before)
    BY DEF LoadInit, PackInit
<1> QED BY <1>1 DEF LegacyInv, LegacyFaults, LegacyRunsOnly

(* What a step that changes neither the image nor the package leaves to     *)
(* show.                                                                    *)
LEMMA LoaderInvFrom ==
    ASSUME LoaderInv, elf' = elf, UNCHANGED <<pkg, got3>>, loadAt # "package", loadAt' # "package",
           toMap' \subseteq Used, loadAt' # "parse",
           loadAt' = "map" => Accepted /\ DOMAIN space' = PagesAll(Used \ toMap)' /\ AsDescribed(Used \ toMap)',
           loadAt' = "runs" => Accepted /\ DOMAIN space' = PagesAll(Used)' \cup {StackPage} /\ AsDescribed(Used)',
           loadAt' = "failed" => short'
    PROVE  LoaderInv'
<1>1. Used' = Used /\ ImageTyped' = ImageTyped /\ Accepted' = Accepted
    BY ImageKept
<1>2. got3' = "unread"
    BY DEF LoaderInv
<1> QED BY <1>1, <1>2 DEF LoaderInv, AcceptedIsLoadable

LEMMA ParsedKeeps ==
    ASSUME LoaderInv, ExecElfProc \/ ExecElf
    PROVE  LoaderInv'
<1>1. /\ elf' = elf /\ UNCHANGED <<pkg, got3, space>> /\ toMap' = Used /\ loadAt \in {"parse", "legacyParse"}
      /\ loadAt' \in {"map", "legacyMap", "rejected"} /\ (loadAt' = "map" => ParseOk /\ loadAt = "parse")
    BY DEF ExecElfProc, ExecElf, Parsed
<1>2. loadAt' = "map" => Accepted /\ DOMAIN space' = {}
    BY <1>1, ParsedIsAccepted DEF LoaderInv
<1>3. Used' \ toMap' = {}
    BY <1>1, ImageKept
<1>4. PagesAll(Used \ toMap)' = {} /\ AsDescribed(Used \ toMap)'
    BY <1>3 DEF PagesAll, AsDescribed
<1> QED BY <1>1, <1>2, <1>4, LoaderInvFrom

LEMMA MapSegmentKeeps ==
    ASSUME LoaderInv, MapSegment
    PROVE  LoaderInv'
<1>1. /\ loadAt = "map" /\ toMap # {} /\ elf' = elf /\ UNCHANGED <<short, pkg, got3>>
      /\ ImageTyped /\ Accepted /\ toMap \subseteq Used
      /\ DOMAIN space = PagesAll(Used \ toMap) /\ AsDescribed(Used \ toMap)
    BY DEF MapSegment, LoaderInv
<1>2. PICK i : i = Min(toMap)
    OBVIOUS
<1>3. i \in toMap /\ i \in Used /\ Segment(i) \in Segments
    BY <1>1, <1>2, NextIsLeft
<1>4. PICK s : s = Segment(i)
    OBVIOUS
<1>5. \A j \in Used \ toMap : PagesOf(Segment(j)) \cap PagesOf(s) = {}
    <2>1. \A j \in Used \ toMap : j \in Used /\ j # i
        BY <1>3
    <2> QED BY <1>1, <1>3, <1>4, <2>1, SegmentsApart
<1>6. PagesOf(s) \cap DOMAIN space = {}
    BY <1>1, <1>5, Zenon DEF PagesAll
<1>7. space' = Mapped(s, PagesOf(s)) /\ toMap' = toMap \ {i} /\ loadAt' = "map"
    BY <1>1, <1>2, <1>4, <1>6 DEF MapSegment
<1>8. Used' = Used /\ Used \ toMap' = (Used \ toMap) \cup {i}
    BY <1>1, <1>3, <1>7, ImageKept
<1>9. PagesAll(Used \ toMap)' = PagesAll(Used \ toMap) \cup PagesOf(s)
    <2>1. PagesAll(Used \ toMap)' = UNION {PagesOf(Segment(j)) : j \in (Used \ toMap) \cup {i}}
        BY <1>1, <1>8 DEF PagesAll, Segment, PagesOf, MemEnd, PageOf
    <2> QED BY <1>4, <2>1, Zenon DEF PagesAll
<1>10. DOMAIN space' = PagesAll(Used \ toMap)'
    BY <1>1, <1>7, <1>9 DEF Mapped
<1>11. \A j \in (Used \ toMap) \cup {i} : \A p \in PagesOf(Segment(j)) : space'[p] = PageFor(Segment(j), p)
    <2> TAKE j \in (Used \ toMap) \cup {i}
    <2> TAKE p \in PagesOf(Segment(j))
    <2>1. CASE j = i
        BY <1>4, <1>7, <2>1 DEF Mapped
    <2>2. CASE j \in Used \ toMap
        <3>1. p \notin PagesOf(s) /\ p \in DOMAIN space
            BY <1>1, <1>5, <2>2, Zenon DEF PagesAll
        <3>2. space'[p] = space[p]
            BY <1>7, <3>1 DEF Mapped
        <3> QED BY <1>1, <2>2, <3>2, Zenon DEF AsDescribed
    <2> QED BY <2>1, <2>2
<1>12. AsDescribed(Used \ toMap)'
    BY <1>1, <1>8, <1>11 DEF AsDescribed, Segment, PagesOf, MemEnd, PageOf, PageFor, Flags, Bytes, Copied
<1>13. toMap' \subseteq Used
    BY <1>1, <1>7
<1> QED BY <1>1, <1>7, <1>10, <1>12, <1>13, LoaderInvFrom

LEMMA MapStackKeeps ==
    ASSUME LoaderInv, MapStack
    PROVE  LoaderInv'
<1>1. /\ loadAt = "map" /\ loadAt' = "runs" /\ toMap = {} /\ elf' = elf /\ UNCHANGED <<toMap, short, pkg, got3>>
      /\ ImageTyped /\ Accepted
      /\ DOMAIN space = PagesAll(Used \ toMap) /\ AsDescribed(Used \ toMap)
    BY DEF MapStack, LoaderInv
<1>2. Used' = Used /\ Used \ toMap = Used
    BY <1>1, ImageKept
<1>3. PagesAll(Used)' = PagesAll(Used)
    BY <1>1, <1>2 DEF PagesAll, Segment, PagesOf, MemEnd, PageOf
<1>4. DOMAIN space' = PagesAll(Used)' \cup {StackPage}
    BY <1>1, <1>2, <1>3 DEF MapStack
<1>5. \A i \in Used : \A p \in PagesOf(Segment(i)) : space'[p] = PageFor(Segment(i), p)
    <2> TAKE i \in Used
    <2> TAKE p \in PagesOf(Segment(i))
    <2>1. Segment(i) \in Segments /\ InUserSpace(Segment(i))
        BY <1>1, UsedSegment DEF Accepted, SegmentValid
    <2>2. p # StackPage
        BY <2>1, PagesInRegion, PageAssumption
    <2>3. p \in DOMAIN space /\ space[p] = PageFor(Segment(i), p)
        BY <1>1, <1>2, Zenon DEF PagesAll, AsDescribed
    <2> QED BY <2>2, <2>3 DEF MapStack
<1>6. AsDescribed(Used)'
    BY <1>1, <1>2, <1>5 DEF AsDescribed, Segment, PagesOf, MemEnd, PageOf, PageFor, Flags, Bytes, Copied
<1>7. toMap' \subseteq Used
    BY <1>1
<1> QED BY <1>1, <1>4, <1>6, <1>7, LoaderInvFrom

LEMMA NoFramesKeeps ==
    ASSUME LoaderInv, NoFrames
    PROVE  LoaderInv'
<1>1. /\ loadAt = "map" /\ loadAt' = "failed" /\ elf' = elf /\ UNCHANGED <<pkg, got3>> /\ short'
      /\ toMap' \subseteq Used
    BY DEF NoFrames, LoaderInv
<1> QED BY <1>1, LoaderInvFrom

LEMMA LegacyKeeps ==
    ASSUME LoaderInv, MapUserImage \/ EnterRing3 \/ LegacyExit
    PROVE  LoaderInv'
<1>1. /\ loadAt \in {"legacyMap", "legacyRuns"} /\ elf' = elf /\ UNCHANGED <<pkg, got3>>
      /\ loadAt' \in {"legacyMap", "fault", "legacyRuns", "lost", "back"} /\ toMap' \subseteq Used
    BY DEF MapUserImage, EnterRing3, LegacyExit, LoaderInv
<1> QED BY <1>1, LoaderInvFrom

(* One segment of exec_elf: the three ways it can go.                       *)
LEMMA LegacySegment ==
    ASSUME LoaderInv, LegacyInv, MapUserImage
    PROVE  LegacyInv'
<1>1. /\ loadAt = "legacyMap" /\ toMap # {} /\ toMap' = toMap \ {Min(toMap)} /\ UNCHANGED <<elf, before>>
      /\ ImageTyped /\ toMap \subseteq Used /\ Accepted /\ LegacyGood /\ LegacyDone
    BY DEF MapUserImage, LoaderInv, LegacyInv
<1>2. PICK i : i = Min(toMap)
    OBVIOUS
<1>3. i \in toMap /\ i \in Used /\ Segment(i) \in Segments /\ Segment(i).memsz > 0
    BY <1>1, <1>2, NextIsLeft
<1>4. PICK s : s = Segment(i)
    OBVIOUS
<1>5. PICK sp : sp = MapUserRange(s, LegacyMapped(s))
    OBVIOUS
<1>6. \/ Writable(sp, LegacyWritten(s)) /\ space' = Filled(s, sp) /\ UNCHANGED <<loadAt, short>>
      \/ ~Writable(sp, LegacyWritten(s)) /\ loadAt' = "fault"
      \/ /\ short' = TRUE /\ UNCHANGED loadAt
         /\ \E n \in 0 .. LegacyPages(s) - 1 : space' = MapUserRange(s, LegacyFirst(s, n))
    BY <1>2, <1>4, <1>5 DEF MapUserImage
<1>7. Used' = Used /\ Accepted' /\ (\A k : Segment(k)' = Segment(k)) /\ Used \ toMap' = (Used \ toMap) \cup {i}
    BY <1>1, <1>2, <1>3, ImageKept DEF Segment
<1>8. ASSUME NEW ps, NEW q, q = MapUserRange(s, ps), before = <<>>, \A k \in Used : "w" \in Segment(k).flags
      PROVE  \A p \in DOMAIN q : q[p].flags.w
    <2>1. \A p \in DOMAIN space : space[p].flags.w
        BY <1>1, <1>8 DEF LegacyGood
    <2>2. "w" \in s.flags
        BY <1>3, <1>4, <1>8
    <2>3. \A p : Flags(p, "w" \in s.flags).w
        BY <2>2 DEF Flags
    <2>4. DOMAIN q = DOMAIN space \cup ps
          /\ \A p \in DOMAIN q : q[p] = IF p \in DOMAIN space THEN space[p]
                                         ELSE [flags |-> Flags(p, "w" \in s.flags), bytes |-> Whatever]
        BY <1>8 DEF MapUserRange
    <2>5. ASSUME NEW p \in DOMAIN q, p \in DOMAIN space
          PROVE  q[p].flags.w
        BY <2>1, <2>4, <2>5
    <2>6. ASSUME NEW p \in DOMAIN q, p \notin DOMAIN space
          PROVE  q[p].flags.w
        <3>1. q[p] = [flags |-> Flags(p, "w" \in s.flags), bytes |-> Whatever]
            BY <2>4, <2>6
        <3>2. q[p].flags = Flags(p, "w" \in s.flags)
            BY <3>1
        <3> QED BY <2>3, <3>2
    <2> QED BY <2>5, <2>6
<1>9. DOMAIN sp = DOMAIN space \cup LegacyMapped(s)
    BY <1>5 DEF MapUserRange
<1>10. CASE Writable(sp, LegacyWritten(s)) /\ space' = Filled(s, sp) /\ UNCHANGED <<loadAt, short>>
    <2>1. DOMAIN space' = DOMAIN sp /\ \A p \in DOMAIN sp : space'[p].flags = sp[p].flags
        <3>1. DOMAIN space' = DOMAIN sp
            BY <1>10 DEF Filled
        <3>2. \A p \in DOMAIN sp : \E x : space'[p] = [flags |-> sp[p].flags, bytes |-> x]
            BY <1>10, Zenon DEF Filled
        <3> QED BY <3>1, <3>2
    <2>2. LegacyGood'
        BY <1>1, <1>5, <1>7, <1>8, <2>1 DEF LegacyGood
    <2>3. ASSUME ~short, before = <<>>
          PROVE  /\ DOMAIN sp \subseteq LegacyAll((Used \ toMap) \cup {i})
                 /\ "w" \in s.flags /\ LegacyWritten(s) \subseteq LegacyAll(Used)
        <3>1. DOMAIN space \subseteq LegacyAll(Used \ toMap)
            BY <1>1, <2>3 DEF LegacyDone
        <3>2. DOMAIN sp \subseteq LegacyAll((Used \ toMap) \cup {i})
            BY <1>4, <1>9, <3>1, Zenon DEF LegacyAll
        <3>3. LegacyAll((Used \ toMap) \cup {i}) \subseteq LegacyAll(Used)
            BY <1>3, Zenon DEF LegacyAll
        <3>4. LegacyWritten(s) \subseteq DOMAIN sp
            BY <1>10 DEF Writable
        <3>5. PICK p0 : p0 = PageOf(s.vaddr) /\ p0 \in LegacyMapped(s) /\ p0 \in LegacyWritten(s) /\ p0 \in PagesOf(s)
            BY <1>3, <1>4, LegacyInSegment
        <3>6. p0 \notin DOMAIN space
            <4>1. SUFFICES ASSUME NEW j \in Used \ toMap, p0 \in LegacyMapped(Segment(j)) PROVE FALSE
                BY <3>1, Zenon DEF LegacyAll
            <4>2. j \in Used /\ j # i /\ Segment(j) \in Segments /\ Segment(j).memsz > 0
                BY <1>1, <1>3, UsedSegment
            <4>3. p0 \in PagesOf(Segment(j))
                BY <4>1, <4>2, LegacyInSegment
            <4> QED BY <1>1, <1>3, <1>4, <3>5, <4>2, <4>3, SegmentsApart
        <3>7. sp[p0].flags.w /\ sp[p0] = [flags |-> Flags(p0, "w" \in s.flags), bytes |-> Whatever]
            <4>1. sp[p0].flags.w
                BY <1>10, <3>5 DEF Writable
            <4>2. sp[p0] = [flags |-> Flags(p0, "w" \in s.flags), bytes |-> Whatever]
                BY <1>5, <3>5, <3>6 DEF MapUserRange
            <4> QED BY <4>1, <4>2
        <3>8. "w" \in s.flags
            <4>1. sp[p0].flags = Flags(p0, "w" \in s.flags)
                BY <3>7
            <4>2. Flags(p0, "w" \in s.flags).w = ("w" \in s.flags)
                BY DEF Flags
            <4> QED BY <3>7, <4>1, <4>2
        <3> QED BY <3>2, <3>3, <3>4, <3>8
    <2>4. LegacyDone'
        <3>1. \A k : /\ Segment(k)' = Segment(k) /\ LegacyMapped(Segment(k))' = LegacyMapped(Segment(k))
                     /\ LegacyWritten(Segment(k))' = LegacyWritten(Segment(k))
            BY <1>1, SegmentsKept
        <3>2. (Used \ toMap)' = (Used \ toMap) \cup {i}
            BY <1>7
        <3>3. LegacyAll(Used \ toMap)' = LegacyAll((Used \ toMap) \cup {i}) /\ LegacyAll(Used)' = LegacyAll(Used)
            BY <1>7, <3>1, <3>2 DEF LegacyAll
        <3>4. ASSUME ~short, before = <<>>, NEW k \in (Used \ toMap) \cup {i}
              PROVE  "w" \in Segment(k).flags /\ LegacyWritten(Segment(k)) \subseteq LegacyAll(Used)
            BY <1>1, <1>4, <2>3, <3>4 DEF LegacyDone
        <3>5. short' = short /\ before' = before
            BY <1>1, <1>10
        <3>6. ASSUME ~short, before = <<>>
              PROVE  DOMAIN space' \subseteq LegacyAll((Used \ toMap) \cup {i})
            BY <2>1, <2>3, <3>6
        <3> QED BY <3>1, <3>2, <3>3, <3>4, <3>5, <3>6 DEF LegacyDone
    <2> QED BY <1>1, <1>7, <1>10, <2>2, <2>4 DEF LegacyInv, LegacyFaults, LegacyRunsOnly
<1>11. CASE ~Writable(sp, LegacyWritten(s)) /\ loadAt' = "fault"
    <2>1. ASSUME before = <<>>, \A k \in Used : Segment(k).vaddr % PageBytes = 0 /\ "w" \in Segment(k).flags PROVE FALSE
        <3>1. LegacyWritten(s) \subseteq DOMAIN sp
            BY <1>3, <1>4, <1>9, <2>1, LegacyAligned
        <3>2. \A p \in DOMAIN sp : sp[p].flags.w
            BY <1>5, <1>8, <2>1
        <3> QED BY <1>11, <3>1, <3>2 DEF Writable
    <2> QED BY <1>1, <1>7, <1>11, <2>1 DEF LegacyInv, LegacyFaults, LegacyRunsOnly
<1>12. CASE /\ short' = TRUE /\ UNCHANGED loadAt
            /\ \E n \in 0 .. LegacyPages(s) - 1 : space' = MapUserRange(s, LegacyFirst(s, n))
    <2>1. LegacyGood'
        BY <1>1, <1>7, <1>8, <1>12 DEF LegacyGood
    <2> QED BY <1>1, <1>7, <1>12, <2>1 DEF LegacyInv, LegacyDone, LegacyFaults, LegacyRunsOnly
<1> QED BY <1>6, <1>10, <1>11, <1>12

LEMMA LegacyEnters ==
    ASSUME LoaderInv, LegacyInv, EnterRing3
    PROVE  LegacyInv'
<1>1. /\ loadAt = "legacyMap" /\ toMap = {} /\ loadAt' = "legacyRuns" /\ UNCHANGED <<elf, before>> /\ LegacyDone
      /\ (~short' => ~short)
    <2>1. loadAt = "legacyMap" /\ toMap = {} /\ loadAt' = "legacyRuns" /\ UNCHANGED <<elf, before>>
        BY DEF EnterRing3
    <2>2. short' = short \/ short' = TRUE
        BY DEF EnterRing3
    <2>3. LegacyDone
        BY <2>1 DEF LegacyInv
    <2> QED BY <2>1, <2>2, <2>3
<1>2. ASSUME ~short', before = <<>>
      PROVE  \A i \in Used : "w" \in Segment(i).flags /\ LegacyWritten(Segment(i)) \subseteq LegacyAll(Used)
    BY <1>1, <1>2 DEF LegacyDone
<1>3. LegacyRunsOnly'
    BY <1>1, <1>2, SegmentsKept, ImageKept, Zenon DEF LegacyRunsOnly, LegacyAll
<1> QED BY <1>1, <1>3 DEF LegacyInv, LegacyFaults

LEMMA LegacyStepKeeps == LoaderInv /\ LegacyInv /\ [LoadNext]_loadVars => LegacyInv'
<1> SUFFICES ASSUME LoaderInv, LegacyInv, [LoadNext]_loadVars PROVE LegacyInv'
    OBVIOUS
<1>1. CASE MapUserImage
    BY <1>1, LegacySegment
<1>2. CASE EnterRing3
    BY <1>2, LegacyEnters
<1>3. CASE ExecElf
    <2>1. /\ loadAt = "legacyParse" /\ UNCHANGED <<elf, space, before, short>> /\ toMap' = Used
          /\ loadAt' \in {"legacyMap", "rejected"} /\ (loadAt' = "legacyMap" => ParseOk) /\ space = before
        BY <1>3 DEF ExecElf, Parsed, LegacyInv
    <2>2. Used' = Used /\ (loadAt' = "legacyMap" => Accepted')
        BY <2>1, ParsedIsAccepted, ImageKept
    <2>3. LegacyGood' /\ LegacyDone'
        BY <2>1, <2>2 DEF LegacyGood, LegacyDone
    <2> QED BY <2>1, <2>2, <2>3 DEF LegacyInv, LegacyFaults, LegacyRunsOnly
<1>4. CASE ExecElfProc \/ MapSegment \/ MapStack \/ NoFrames \/ LegacyExit \/ Damage3 \/ ParseSpkg
    <2>1. loadAt' \in {"map", "rejected", "failed", "runs", "lost", "back", "package"}
        BY <1>4 DEF ExecElfProc, Parsed, MapSegment, MapStack, NoFrames, LegacyExit, Damage3, ParseSpkg
    <2> QED BY <2>1 DEF LegacyInv, LegacyFaults, LegacyRunsOnly
<1>5. CASE UNCHANGED loadVars
    <2>1. UNCHANGED <<elf, loadAt, toMap, space, before, short>>
        BY <1>5 DEF loadVars
    <2>2. /\ Used' = Used /\ Accepted' = Accepted
          /\ \A i : /\ Segment(i)' = Segment(i) /\ LegacyMapped(Segment(i))' = LegacyMapped(Segment(i))
                     /\ LegacyWritten(Segment(i))' = LegacyWritten(Segment(i))
        BY <2>1, ImageKept, SegmentsKept
    <2>3. LegacyGood' = LegacyGood /\ LegacyFaults' = LegacyFaults
        BY <2>1, <2>2 DEF LegacyGood, LegacyFaults
    <2>4. LegacyDone' = LegacyDone /\ LegacyRunsOnly' = LegacyRunsOnly
        BY <2>1, <2>2 DEF LegacyDone, LegacyRunsOnly, LegacyAll
    <2> QED BY <2>1, <2>2, <2>3, <2>4 DEF LegacyInv
<1> QED BY <1>1, <1>2, <1>3, <1>4, <1>5 DEF LoadNext

LEMMA PackageKeeps ==
    ASSUME LoaderInv, Damage3 \/ ParseSpkg
    PROVE  LoaderInv'
<1>1. loadAt = "package" /\ UNCHANGED <<elf, loadAt, toMap, space, short>> /\ got3 = "unread" /\ BuiltFrom(pkg)
    BY DEF Damage3, ParseSpkg, LoaderInv
<1>2. Used' = Used /\ ImageTyped' /\ toMap' \subseteq Used'
    BY <1>1, ImageKept DEF LoaderInv
<1>3. BuiltFrom(pkg) /\ BuiltFrom(pkg')
    <2>1. CASE ParseSpkg
        BY <1>1, <2>1 DEF ParseSpkg
    <2>2. CASE Damage3
        <3>1. \/ \E b : pkg' = [pkg EXCEPT !.body = b]
              \/ \E n : pkg' = [pkg EXCEPT !.split = n]
            BY <2>2 DEF Damage3
        <3> QED BY <1>1, <3>1 DEF BuiltFrom, PartNames
    <2> QED BY <2>1, <2>2
<1>4. got3' = "package" => SumHolds'
    <2>1. CASE ParseSpkg
        BY <2>1 DEF ParseSpkg, SumHolds, Payload
    <2>2. CASE Damage3
        BY <1>1, <2>2 DEF Damage3
    <2> QED BY <2>1, <2>2
<1> QED BY <1>1, <1>2, <1>3, <1>4 DEF LoaderInv, AcceptedIsLoadable

LEMMA LoaderStepKeeps == LoaderInv /\ [LoadNext]_loadVars => LoaderInv'
<1> SUFFICES ASSUME LoaderInv, [LoadNext]_loadVars PROVE LoaderInv'
    OBVIOUS
<1>1. CASE UNCHANGED loadVars
    <2>1. (ImageTyped <=> ImageTyped') /\ Used' = Used
        BY <1>1 DEF loadVars, ImageTyped, Used
    <2>2. Accepted <=> Accepted'
        BY <1>1 DEF loadVars, Accepted, Used, Segment, SegmentValid, InUserSpace, MemEnd, EntryIn
    <2>3. \A S : PagesAll(S)' = PagesAll(S)
        BY <1>1 DEF loadVars, PagesAll, PagesOf, PageOf, MemEnd, Segment
    <2>4. \A S : AsDescribed(S) <=> AsDescribed(S)'
        BY <1>1, <2>3 DEF loadVars, AsDescribed, PageFor, Flags, Bytes, Copied, Touches, PagesOf, PageOf, MemEnd, Segment
    <2>5. (AcceptedIsLoadable <=> AcceptedIsLoadable') /\ (SumHolds <=> SumHolds') /\ (BuiltFrom(pkg) <=> BuiltFrom(pkg)')
        BY <1>1 DEF loadVars, AcceptedIsLoadable, SumHolds, Payload
    <2> QED BY <1>1, <2>1, <2>2, <2>3, <2>4, <2>5 DEF loadVars, LoaderInv
<1>2. CASE ExecElfProc \/ ExecElf
    BY <1>2, ParsedKeeps
<1>3. CASE MapSegment
    BY <1>3, MapSegmentKeeps
<1>4. CASE MapStack
    BY <1>4, MapStackKeeps
<1>5. CASE NoFrames
    BY <1>5, NoFramesKeeps
<1>6. CASE MapUserImage \/ EnterRing3 \/ LegacyExit
    BY <1>6, LegacyKeeps
<1>7. CASE Damage3 \/ ParseSpkg
    BY <1>7, PackageKeeps
<1> QED BY <1>1, <1>2, <1>3, <1>4, <1>5, <1>6, <1>7 DEF LoadNext

(* A part of a longer sequence, from behind the first n elements on, is the *)
(* sequence whose elements stand there.                                     *)
LEMMA PartIs ==
    ASSUME NEW W, NEW x \in Seq(W), NEW y \in Seq(W), NEW n \in Nat, n + Len(y) <= Len(x),
           \A i \in 1 .. Len(y) : x[n + i] = y[i]
    PROVE  SubSeq(x, n + 1, n + Len(y)) = y
<1>1. Len(y) \in Nat /\ Len(x) \in Nat /\ y = [i \in 1 .. Len(y) |-> y[i]]
    BY LenProperties
<1>2. \A i \in n + 1 .. n + Len(y) : x[i] \in W
    BY <1>1, ElementOfSeq
<1>3. PICK z : z = SubSeq(x, n + 1, n + Len(y))
    OBVIOUS
<1>4. n + 1 \in Int /\ n + Len(y) \in Int
    BY <1>1
<1>5. z \in Seq(W) /\ Len(z) = Len(y)
    <2>1. z \in Seq(W)
        BY <1>2, <1>3, <1>4, SubSeqProperties
    <2>2. Len(z) = IF n + 1 <= n + Len(y) THEN (n + Len(y)) - (n + 1) + 1 ELSE 0
        BY <1>2, <1>3, <1>4, SubSeqProperties
    <2>3. Len(z) = Len(y)
        BY <1>1, <2>2
    <2> QED BY <2>1, <2>3
<1>6. \A i \in 1 .. (n + Len(y)) - (n + 1) + 1 : z[i] = x[(n + 1) + i - 1]
    BY <1>2, <1>3, <1>4, SubSeqProperties
<1>7. \A i \in 1 .. Len(y) : z[i] = y[i]
    <2> TAKE i \in 1 .. Len(y)
    <2>1. z[i] = x[(n + 1) + i - 1] /\ (n + 1) + i - 1 = n + i
        BY <1>1, <1>6
    <2> QED BY <2>1
<1> QED BY <1>3, <1>5, <1>7, SeqEqual

(* The three parts of a payload, cut at their lengths.                      *)
LEMMA PartsOfPayload ==
    ASSUME NEW W, NEW m \in Seq(W), NEW e \in Seq(W), NEW r \in Seq(W), NEW x, x = (m \o e) \o r
    PROVE  /\ SubSeq(x, 0 + 1, 0 + Len(m)) = m
           /\ SubSeq(x, Len(m) + 1, Len(m) + Len(e)) = e
           /\ SubSeq(x, (Len(m) + Len(e)) + 1, (Len(m) + Len(e)) + Len(r)) = r
<1>1. Len(m) \in Nat /\ Len(e) \in Nat /\ Len(r) \in Nat
    BY LenProperties
<1>2. PICK y \in Seq(W) : y = m \o e /\ Len(y) = Len(m) + Len(e)
    BY ConcatProperties
<1>3. \A i \in 1 .. Len(m) + Len(e) : y[i] = IF i <= Len(m) THEN m[i] ELSE e[i - Len(m)]
    BY <1>2, ConcatProperties
<1>4. x \in Seq(W) /\ Len(x) = Len(y) + Len(r)
    BY <1>2, ConcatProperties
<1>5. \A i \in 1 .. Len(y) + Len(r) : x[i] = IF i <= Len(y) THEN y[i] ELSE r[i - Len(y)]
    BY <1>2, ConcatProperties
<1>6. \A i \in 1 .. Len(m) : x[0 + i] = m[i]
    BY <1>1, <1>2, <1>3, <1>5
<1>7. \A i \in 1 .. Len(e) : x[Len(m) + i] = e[i]
    <2> TAKE i \in 1 .. Len(e)
    <2>1. x[Len(m) + i] = y[Len(m) + i]
        BY <1>1, <1>2, <1>5
    <2>2. Len(m) + i \in 1 .. Len(m) + Len(e) /\ ~(Len(m) + i <= Len(m)) /\ (Len(m) + i) - Len(m) = i
        BY <1>1
    <2>3. y[Len(m) + i] = e[(Len(m) + i) - Len(m)]
        BY <1>3, <2>2
    <2> QED BY <2>1, <2>2, <2>3
<1>8. \A i \in 1 .. Len(r) : x[(Len(m) + Len(e)) + i] = r[i]
    <2> TAKE i \in 1 .. Len(r)
    <2>1. x[Len(y) + i] = r[(Len(y) + i) - Len(y)] /\ (Len(y) + i) - Len(y) = i
        BY <1>1, <1>2, <1>5
    <2> QED BY <1>2, <2>1
<1>9. SubSeq(x, 0 + 1, 0 + Len(m)) = m
    BY <1>1, <1>2, <1>4, <1>6, PartIs
<1>10. SubSeq(x, Len(m) + 1, Len(m) + Len(e)) = e
    BY <1>1, <1>2, <1>4, <1>7, PartIs
<1>11. SubSeq(x, (Len(m) + Len(e)) + 1, (Len(m) + Len(e)) + Len(r)) = r
    BY <1>1, <1>2, <1>4, <1>8, PartIs
<1> QED BY <1>9, <1>10, <1>11

(* The pages of an accepted image lie in the user region.                   *)
LEMMA ImageInRegion ==
    ASSUME ImageTyped, Accepted, NEW done, done \subseteq Used
    PROVE  PagesAll(done) \subseteq UserMin .. UserMax - 1
<1>1. \A i \in done : PagesOf(Segment(i)) \subseteq UserMin .. UserMax - 1
    <2> TAKE i \in done
    <2>1. i \in Used
        OBVIOUS
    <2>2. Segment(i) \in Segments /\ InUserSpace(Segment(i))
        BY <2>1, UsedSegment DEF Accepted, SegmentValid
    <2> QED BY <2>2, PagesInRegion
<1> QED BY <1>1, Zenon DEF PagesAll

(* A running program is found in memory as its headers describe it.         *)
LEMMA RunsAsDescribed ==
    ASSUME LoaderInv, loadAt = "runs"
    PROVE  LoadedAsDescribed /\ EntryIsCode
<1>1. ImageTyped /\ Accepted /\ DOMAIN space = PagesAll(Used) \cup {StackPage} /\ AsDescribed(Used)
    BY DEF LoaderInv
<1>2. ASSUME NEW i \in Used, NEW a \in Segment(i).vaddr .. MemEnd(Segment(i)) - 1
      PROVE  space[PageOf(a)] = PageFor(Segment(i), PageOf(a)) /\ Segment(i) \in Segments
    <2>1. Segment(i) \in Segments
        BY <1>1, UsedSegment
    <2>2. PageOf(a) \in PagesOf(Segment(i))
        BY <2>1, ByteInPages
    <2> QED BY <1>1, <2>1, <2>2, Zenon DEF AsDescribed
<1>3. ASSUME NEW i \in Used, NEW a \in Segment(i).vaddr .. MemEnd(Segment(i)) - 1
      PROVE  /\ space[PageOf(a)].bytes[a % PageBytes] =
                    IF a < Segment(i).vaddr + Segment(i).filesz THEN Segment(i).offset + a - Segment(i).vaddr ELSE -1
             /\ space[PageOf(a)].flags.w = ("w" \in Segment(i).flags)
    <2>1. space[PageOf(a)] = PageFor(Segment(i), PageOf(a)) /\ Segment(i) \in Segments
        BY <1>2
    <2>2. PageFor(Segment(i), PageOf(a)).flags.w = ("w" \in Segment(i).flags)
        BY DEF PageFor, Flags
    <2> QED BY <2>1, <2>2, PageHolds
<1>4. LoadedAsDescribed
    <2>1. DOMAIN space = (UNION {PagesOf(Segment(i)) : i \in Used}) \cup {StackPage}
        BY <1>1 DEF PagesAll
    <2>2. \A i \in Used : \A a \in Segment(i).vaddr .. MemEnd(Segment(i)) - 1 :
              /\ space[PageOf(a)].bytes[a % PageBytes] =
                    IF a < Segment(i).vaddr + Segment(i).filesz THEN Segment(i).offset + a - Segment(i).vaddr ELSE -1
              /\ space[PageOf(a)].flags.w = ("w" \in Segment(i).flags)
        BY <1>3
    <2> QED BY <2>1, <2>2, Zenon DEF LoadedAsDescribed
<1>5. PICK i \in Used : EntryIn(Segment(i))
    BY <1>1 DEF Accepted
<1>6. elf.entry \in Segment(i).vaddr .. MemEnd(Segment(i)) - 1
    <2>1. Segment(i) \in Segments /\ elf.entry \in Nat
        BY <1>1, UsedSegment DEF ImageTyped
    <2>2. Segment(i).vaddr \in Nat /\ MemEnd(Segment(i)) \in Nat
        BY <2>1, SegmentTyped DEF MemEnd
    <2> QED BY <1>5, <2>1, <2>2 DEF EntryIn
<1>7. space[PageOf(elf.entry)] = PageFor(Segment(i), PageOf(elf.entry))
    BY <1>2, <1>6
<1>8. ~space[PageOf(elf.entry)].flags.nx \/ "w" \in Segment(i).flags
    <2>1. PageFor(Segment(i), PageOf(elf.entry)).flags.nx = ("w" \in Segment(i).flags /\ PageOf(elf.entry) >= UserMin + 2)
        BY DEF PageFor, Flags
    <2> QED BY <1>7, <2>1
<1>9. EntryIsCode
    BY <1>5, <1>8 DEF EntryIsCode, EntryIn
<1> QED BY <1>4, <1>9

(* For every page size, every user region below the stack, every limit of   *)
(* headers and every set of them: what parse_elf accepts is loaded by       *)
(* exec_elf_proc, unless frames run out, to pages of the user region that   *)
(* hold what the file describes, and starts in its code; exec_elf faults    *)
(* only over what was mapped before or on an image with a segment that is   *)
(* read-only or begins inside a page, and runs only images all of whose     *)
(* segments are writable and lie in the pages of the image; and parse_spkg  *)
(* accepts a package only with the payload that build_spkg made, and in its *)
(* parts unless the lengths in the header were changed.                     *)
THEOREM LoaderIsSound == LoadSpec => []LoaderSound
<1>1. LoadInit("parse") \/ LoadInit("legacyParse") \/ PackInit => LoaderInv
    BY LoaderInvInit
<1>2. LoaderInv /\ [LoadNext]_loadVars => LoaderInv'
    BY LoaderStepKeeps
<1>3. LoaderInv /\ LegacyInv => LoaderSound
    <2> SUFFICES ASSUME LoaderInv, LegacyInv PROVE LoaderSound
        OBVIOUS
    <2>1. LoadedAsDescribed /\ EntryIsCode
        BY RunsAsDescribed DEF LoadedAsDescribed, EntryIsCode
    <2>2. InUserRegion
        <3>1. CASE loadAt = "map"
            <4>1. Used \ toMap \subseteq Used /\ ImageTyped /\ Accepted /\ DOMAIN space = PagesAll(Used \ toMap)
                BY <3>1 DEF LoaderInv
            <4>2. PagesAll(Used \ toMap) \subseteq UserMin .. UserMax - 1
                BY <4>1, ImageInRegion
            <4> QED BY <4>1, <4>2 DEF InUserRegion
        <3>2. CASE loadAt = "runs"
            <4>1. ImageTyped /\ Accepted /\ DOMAIN space = PagesAll(Used) \cup {StackPage}
                BY <3>2 DEF LoaderInv
            <4>2. PagesAll(Used) \subseteq UserMin .. UserMax - 1
                BY <4>1, ImageInRegion
            <4> QED BY <4>1, <4>2 DEF InUserRegion
        <3> QED BY <3>1, <3>2 DEF InUserRegion
    <2>3. PackageIsWhole
        <3>0. got3 = "package" => BuiltFrom(pkg) /\ Payload = pkg.sum /\ Payload = (pkg.manifest \o pkg.elf) \o pkg.resources
            BY DEF LoaderInv, SumHolds, BuiltFrom
        <3> SUFFICES ASSUME got3 = "package", SplitBuilt
                     PROVE  /\ Cut(0, pkg.split[1]) = pkg.manifest
                            /\ Cut(pkg.split[1], pkg.split[2]) = pkg.elf
                            /\ Cut(pkg.split[1] + pkg.split[2], pkg.split[3]) = pkg.resources
            BY <3>0, Zenon DEF PackageIsWhole
        <3>2. PICK m \in Seq(Words3), e \in Seq(Words3), r \in Seq(Words3) :
                  /\ m = pkg.manifest /\ e = pkg.elf /\ r = pkg.resources
                  /\ pkg.split = <<Len(m), Len(e), Len(r)>> /\ Payload = (m \o e) \o r
            BY <3>0 DEF BuiltFrom, SplitBuilt
        <3>3. pkg.split[1] = Len(m) /\ pkg.split[2] = Len(e) /\ pkg.split[3] = Len(r)
            BY <3>2
        <3>4. /\ SubSeq(Payload, 0 + 1, 0 + Len(m)) = m
              /\ SubSeq(Payload, Len(m) + 1, Len(m) + Len(e)) = e
              /\ SubSeq(Payload, (Len(m) + Len(e)) + 1, (Len(m) + Len(e)) + Len(r)) = r
            <4>1. PICK x : x = Payload
                OBVIOUS
            <4>2. x = (m \o e) \o r
                BY <3>2, <4>1
            <4>3. /\ SubSeq(x, 0 + 1, 0 + Len(m)) = m
                  /\ SubSeq(x, Len(m) + 1, Len(m) + Len(e)) = e
                  /\ SubSeq(x, (Len(m) + Len(e)) + 1, (Len(m) + Len(e)) + Len(r)) = r
                BY ONLY <4>2, PartsOfPayload, m \in Seq(Words3), e \in Seq(Words3), r \in Seq(Words3)
            <4> QED BY <4>1, <4>3
        <3> QED BY <3>2, <3>3, <3>4, Zenon DEF Cut
    <2> QED BY <2>1, <2>2, <2>3 DEF LoaderInv, LegacyInv, LoaderSound
<1>4. LoadInit("parse") \/ LoadInit("legacyParse") \/ PackInit => LegacyInv
    BY LegacyInvInit
<1>5. LoaderInv /\ LegacyInv /\ [LoadNext]_loadVars => LegacyInv'
    BY LegacyStepKeeps
<1> QED BY <1>1, <1>2, <1>3, <1>4, <1>5, PTL DEF LoadSpec

-----------------------------------------------------------------------------
(* Devices and firmware tables *)

(* Which registers are second halves is decided from the first one on.      *)
Half(f, lay, r) == IF r > 0 /\ f[r - 1] = "first" /\ lay[r - 1] = "mem64" THEN "second" ELSE "first"

LEMMA HalvesExist ==
    ASSUME NEW lay
    PROVE  \E f : f = [r \in Registers |-> Half(f, lay, r)]
<1>1. PICK h1 : h1 = IF lay[0] = "mem64" THEN "second" ELSE "first"
    OBVIOUS
<1>2. PICK h2 : h2 = IF h1 = "first" /\ lay[1] = "mem64" THEN "second" ELSE "first"
    OBVIOUS
<1>3. PICK h3 : h3 = IF h2 = "first" /\ lay[2] = "mem64" THEN "second" ELSE "first"
    OBVIOUS
<1>4. PICK h4 : h4 = IF h3 = "first" /\ lay[3] = "mem64" THEN "second" ELSE "first"
    OBVIOUS
<1>5. PICK h5 : h5 = IF h4 = "first" /\ lay[4] = "mem64" THEN "second" ELSE "first"
    OBVIOUS
<1> DEFINE f == [r \in Registers |-> IF r = 0 THEN "first" ELSE IF r = 1 THEN h1 ELSE IF r = 2 THEN h2
                                     ELSE IF r = 3 THEN h3 ELSE IF r = 4 THEN h4 ELSE h5]
<1>6. f[0] = "first" /\ f[1] = h1 /\ f[2] = h2 /\ f[3] = h3 /\ f[4] = h4 /\ f[5] = h5
    BY DEF Registers
<1>7. \A r \in Registers : f[r] = Half(f, lay, r)
    <2> TAKE r \in Registers
    <2>1. r = 0 \/ r = 1 \/ r = 2 \/ r = 3 \/ r = 4 \/ r = 5
        BY DEF Registers
    <2> HIDE DEF f
    <2> QED BY <1>1, <1>2, <1>3, <1>4, <1>5, <1>6, <2>1 DEF Half
<1>8. f = [r \in Registers |-> f[r]]
    OBVIOUS
<1> HIDE DEF f
<1>9. f = [r \in Registers |-> Half(f, lay, r)]
    BY <1>7, <1>8
<1> QED BY <1>9

LEMMA HalvesAre ==
    \A r \in Registers :
        HalfAt[r] = IF r > 0 /\ HalfAt[r - 1] = "first" /\ layout[r - 1] = "mem64" THEN "second" ELSE "first"
<1>1. \E f : f = [r \in Registers |-> IF r > 0 /\ f[r - 1] = "first" /\ layout[r - 1] = "mem64" THEN "second" ELSE "first"]
    BY HalvesExist, Zenon DEF Half
<1>2. HalfAt = [r \in Registers |-> IF r > 0 /\ HalfAt[r - 1] = "first" /\ layout[r - 1] = "mem64" THEN "second" ELSE "first"]
    BY <1>1, Zenon DEF HalfAt
<1> QED BY <1>2, Zenon

(* The scan has reported the first halves in front of it, and stands at a   *)
(* first half.                                                              *)
FirstInUse(r) == HalfAt[r] = "first" /\ layout[r] # "zero" /\ ~(r = 5 /\ layout[r] = "mem64")
ScanInv ==
    /\ phase \in {"read", "size"} => 
         /\ index \in Nat /\ (index \in Registers => HalfAt[index] = "first")
         /\ bars = {r \in Registers : r < index /\ FirstInUse(r)}
    /\ phase = "size" => index \in Registers /\ FirstInUse(index)
    /\ regs = [r \in Registers |-> IF phase = "size" /\ r \in Halves(index) THEN "ones" ELSE layout[r]]

MessageInv ==
    /\ DOMAIN msi = {"message", "on", "wide"}
    /\ msi.message \subseteq Parts3
    /\ phase \in {"enable", "done"} => msi.message = Parts3
    /\ msi.on => phase = "done"

PciInv == ScanInv /\ MessageInv

LEMMA PciStarts == BarsInit \/ ListInit => PciInv
<1>1. ASSUME BarsInit PROVE PciInv
    <2>1. HalfAt[0] = "first"
        BY HalvesAre DEF Registers
    <2>2. phase = "read" /\ index = 0 /\ bars = {} /\ layout = regs /\ layout \in Layouts /\ msi = NoMessage
        BY <1>1 DEF BarsInit
    <2>3. ScanInv
        BY <2>1, <2>2 DEF ScanInv, Registers, Layouts
    <2>4. MessageInv
        BY <2>2 DEF MessageInv, NoMessage
    <2> QED BY <2>3, <2>4 DEF PciInv
<1>2. ASSUME ListInit PROVE PciInv
    <2>1. phase = "walk" /\ layout = [r \in Registers |-> "zero"] /\ regs = layout
        BY <1>2 DEF ListInit
    <2>2. PICK wide \in BOOLEAN : msi = [NoMessage EXCEPT !.wide = wide]
        BY <1>2 DEF ListInit
    <2>3. msi = [message |-> {}, on |-> FALSE, wide |-> wide]
        BY <2>2 DEF NoMessage
    <2>4. MessageInv
        BY <2>1, <2>3 DEF MessageInv
    <2>5. ScanInv
        BY <2>1 DEF ScanInv
    <2> QED BY <2>4, <2>5 DEF PciInv
<1> QED BY <1>1, <1>2

LEMMA ScanKeeps == ASSUME PciInv, BarsNext PROVE PciInv'
<1>1. UNCHANGED <<layout, msi>> /\ index \in Nat /\ index' \in Nat /\ index \in Registers /\ HalfAt[index] = "first"
      /\ phase \in {"read", "size"} /\ phase' \in {"read", "size"}
    BY DEF BarsNext, ReadNone, ReadBar, RestoreBar, PciInv, ScanInv, Registers, Skip
<1>2. HalfAt' = HalfAt /\ (\A r : FirstInUse(r)' = FirstInUse(r)) /\ (\A r : Halves(r)' = Halves(r))
    BY <1>1 DEF HalfAt, FirstInUse, Halves
<1>3. MessageInv'
    <2>1. ~msi.on /\ ~msi'.on
        BY <1>1 DEF PciInv, MessageInv
    <2> QED BY <1>1, <2>1 DEF PciInv, MessageInv, Parts3
<1>4. bars = {r \in Registers : r < index /\ FirstInUse(r)}
    BY <1>1 DEF PciInv, ScanInv
<1>5. CASE ReadNone
    <2>1. index' = index + 1 /\ bars' = bars /\ regs' = regs /\ phase = "read" /\ phase' = "read"
        BY <1>5 DEF ReadNone
    <2>2. regs[index] = layout[index] /\ regs = [r \in Registers |-> layout[r]]
        BY <1>1, <2>1 DEF PciInv, ScanInv
    <2>3. layout[index] = "zero" \/ (index = 5 /\ layout[index] = "mem64")
        BY <1>1, <1>5, <2>2 DEF ReadNone, Unusable, Wide, Registers
    <2>4. ~FirstInUse(index)
        BY <2>3 DEF FirstInUse
    <2>5. index' \in Registers => HalfAt[index'] = "first"
        BY <1>1, <2>1, <2>3, HalvesAre DEF Registers
    <2>6. bars' = {r \in Registers : r < index' /\ FirstInUse(r)}
        <3>1. \A r \in Registers : r < index + 1 /\ FirstInUse(r) <=> r < index /\ FirstInUse(r)
            BY <1>1, <2>4 DEF Registers
        <3> QED BY <1>4, <2>1, <3>1
    <2> QED BY <1>1, <1>2, <1>3, <2>1, <2>2, <2>5, <2>6 DEF PciInv, ScanInv
<1>6. CASE ReadBar
    <2>1. index' = index /\ bars' = bars /\ phase = "read" /\ phase' = "size"
          /\ regs' = [r \in Registers |-> IF r \in Halves(index) THEN "ones" ELSE regs[r]]
        BY <1>6 DEF ReadBar
    <2>2. regs = [r \in Registers |-> layout[r]]
        BY <1>1, <2>1 DEF PciInv, ScanInv
    <2>3. FirstInUse(index)
        BY <1>1, <1>6, <2>2 DEF ReadBar, Unusable, Wide, FirstInUse, Registers
    <2>4. regs' = [r \in Registers |-> IF r \in Halves(index) THEN "ones" ELSE layout[r]]
        BY <2>1, <2>2
    <2> QED BY <1>1, <1>2, <1>3, <1>4, <2>1, <2>3, <2>4 DEF PciInv, ScanInv
<1>7. CASE RestoreBar
    <2>1. /\ index' = index + Skip(index) /\ bars' = bars \cup {index} /\ phase = "size" /\ phase' = "read"
          /\ regs' = [r \in Registers |-> IF r \in Halves(index) THEN layout[r] ELSE regs[r]]
        BY <1>7 DEF RestoreBar, Rewritten
    <2>2. FirstInUse(index) /\ regs = [r \in Registers |-> IF r \in Halves(index) THEN "ones" ELSE layout[r]]
        BY <1>1, <2>1 DEF PciInv, ScanInv
    <2>3. regs' = [r \in Registers |-> layout[r]]
        BY <2>1, <2>2
    <2>4. CASE layout[index] = "mem64"
        <3>1. index' = index + 2 /\ index + 1 \in Registers /\ HalfAt[index + 1] = "second"
            BY <1>1, <2>1, <2>2, <2>4, HalvesAre DEF Skip, FirstInUse, Registers
        <3>2. index' \in Registers => HalfAt[index'] = "first"
            BY <1>1, <3>1, HalvesAre DEF Registers
        <3>3. \A r \in Registers : r < index + 2 /\ FirstInUse(r) <=> (r < index /\ FirstInUse(r)) \/ r = index
            BY <1>1, <2>2, <3>1 DEF Registers, FirstInUse
        <3>4. bars' = {r \in Registers : r < index' /\ FirstInUse(r)}
            BY <1>1, <1>4, <2>1, <3>1, <3>3
        <3> QED BY <1>1, <1>2, <1>3, <2>1, <2>3, <3>2, <3>4 DEF PciInv, ScanInv
    <2>5. CASE layout[index] # "mem64"
        <3>1. index' = index + 1
            BY <2>1, <2>5 DEF Skip
        <3>2. index' \in Registers => HalfAt[index'] = "first"
            BY <1>1, <2>5, <3>1, HalvesAre DEF Registers
        <3>3. \A r \in Registers : r < index + 1 /\ FirstInUse(r) <=> (r < index /\ FirstInUse(r)) \/ r = index
            BY <1>1, <2>2 DEF Registers
        <3>4. bars' = {r \in Registers : r < index' /\ FirstInUse(r)}
            BY <1>1, <1>4, <2>1, <3>1, <3>3
        <3> QED BY <1>1, <1>2, <1>3, <2>1, <2>3, <3>2, <3>4 DEF PciInv, ScanInv
    <2> QED BY <2>4, <2>5
<1> QED BY <1>5, <1>6, <1>7 DEF BarsNext

LEMMA ListKeeps == ASSUME PciInv, ListNext PROVE PciInv'
<1>1. UNCHANGED <<layout, regs, index, bars>> /\ phase \in {"walk", "message", "enable"}
      /\ phase' \in {"walk", "message", "enable", "none", "done"}
    BY DEF ListNext, WalkOn, NotFound, Found, EnableMsi, WriteMessage
<1>2. ScanInv'
    BY <1>1 DEF PciInv, ScanInv
<1>3. ~msi.on
    BY <1>1 DEF PciInv, MessageInv
<1>4. CASE UNCHANGED msi /\ phase' \in {"walk", "none", "message"}
    BY <1>2, <1>3, <1>4 DEF PciInv, MessageInv, Parts3
<1>5. ASSUME NEW p \in {"low", "high", "data"}, WriteMessage(p) PROVE PciInv'
    <2>1. DOMAIN msi = {"message", "on", "wide"} /\ msi.message \subseteq Parts3
        BY DEF PciInv, MessageInv
    <2>2. msi' = [msi EXCEPT !.message = msi.message \cup {p}]
        BY <1>5 DEF WriteMessage, Written
    <2>3. msi'.message = msi.message \cup {p} /\ msi'.wide = msi.wide /\ msi'.on = msi.on /\ DOMAIN msi' = DOMAIN msi
        BY <2>1, <2>2
    <2>4. Parts3' = Parts3
        BY <2>3 DEF Parts3
    <2>5. p \in Parts3 /\ (p = "data" => Parts3 \ msi.message = {"data"}) /\ (phase' = "enable" => p = "data") /\ phase' \in {"enable", "message"}
        BY <1>5 DEF WriteMessage
    <2>6. msi'.message \subseteq Parts3 /\ (phase' = "enable" => msi'.message = Parts3)
        BY <2>1, <2>3, <2>5
    <2>7. ~msi'.on
        BY <1>3, <2>3
    <2>8. MessageInv'
        BY <2>1, <2>3, <2>4, <2>5, <2>6, <2>7 DEF MessageInv
    <2> QED BY <1>2, <2>8 DEF PciInv
<1>6. CASE EnableMsi
    <2>1. DOMAIN msi = {"message", "on", "wide"} /\ msi.message = Parts3 /\ phase' = "done" /\ msi' = [msi EXCEPT !.on = TRUE]
        BY <1>6 DEF EnableMsi, PciInv, MessageInv
    <2>2. msi'.message = msi.message /\ msi'.wide = msi.wide /\ DOMAIN msi' = DOMAIN msi
        BY <2>1
    <2>3. Parts3' = Parts3
        BY <2>2 DEF Parts3
    <2>4. MessageInv'
        BY <2>1, <2>2, <2>3 DEF MessageInv
    <2> QED BY <1>2, <2>4 DEF PciInv
<1>7. ListNext => EnableMsi \/ (UNCHANGED msi /\ phase' \in {"walk", "none", "message"}) \/ \E p \in {"low", "high", "data"} : WriteMessage(p)
    BY DEF ListNext, WalkOn, NotFound, Found
<1> QED BY <1>4, <1>5, <1>6, <1>7

LEMMA PciStepKeeps == PciInv /\ [BarsNext \/ ListNext]_pciVars => PciInv'
<1> SUFFICES ASSUME PciInv, [BarsNext \/ ListNext]_pciVars PROVE PciInv'
    OBVIOUS
<1>1. CASE UNCHANGED pciVars
    BY <1>1 DEF pciVars, PciInv, ScanInv, MessageInv, Parts3, FirstInUse, Halves, HalfAt
<1> QED BY <1>1, ScanKeeps, ListKeeps

LEMMA PciIsSafe == PciInv => ScanIsHarmless /\ MessageIsWhole
<1> SUFFICES ASSUME PciInv PROVE ScanIsHarmless /\ MessageIsWhole
    OBVIOUS
<1>1. \A r \in Registers : regs[r] # layout[r] => phase = "size" /\ r \in Halves(index)
    BY DEF PciInv, ScanInv
<1>2. ASSUME index >= 6, phase = "read"
      PROVE  bars = {r \in Registers : HalfAt[r] = "first" /\ layout[r] # "zero" /\ ~(r = 5 /\ layout[r] = "mem64")}
    <2>1. \A r \in Registers : r < index
        BY <1>2 DEF Registers, PciInv, ScanInv
    <2> QED BY <1>2, <2>1 DEF PciInv, ScanInv, FirstInUse
<1>3. MessageIsWhole
    BY DEF PciInv, MessageInv, MessageIsWhole
<1> QED BY <1>1, <1>2, <1>3 DEF ScanIsHarmless

(* Behind every place that the walk has left is another one, or where it is. *)
WalkInv ==
    /\ ptr \in 0 .. 3 /\ seen \subseteq Entries /\ list \in Lists
    /\ \A e \in seen : list[e].id # "msi" /\ (list[e].next \in seen \/ list[e].next = ptr)
    /\ phase # "walk" => ptr \notin seen

LEMMA WalkStarts == BarsInit \/ ListInit => WalkInv
BY DEF BarsInit, ListInit, WalkInv, Lists, Entries

LEMMA WalkKeeps == WalkInv /\ [BarsNext \/ ListNext]_pciVars => WalkInv'
<1> SUFFICES ASSUME WalkInv, [BarsNext \/ ListNext]_pciVars PROVE WalkInv'
    OBVIOUS
<1>1. CASE UNCHANGED <<list, ptr, seen>> /\ (phase' # "walk" => phase # "walk")
    BY <1>1 DEF WalkInv
<1>2. CASE WalkOn
    <2>1. /\ ptr \in Entries /\ list[ptr].id # "msi" /\ ptr' = list[ptr].next /\ seen' = seen \cup {ptr}
          /\ phase' = "walk" /\ list' = list
        BY <1>2 DEF WalkOn, Following, WalkInv, Entries
    <2>2. ptr' \in 0 .. 3
        BY <2>1 DEF WalkInv, Lists
    <2> QED BY <2>1, <2>2 DEF WalkInv
<1>3. CASE NotFound \/ Found
    <2>1. /\ UNCHANGED <<list, ptr, seen>> /\ (ptr = 0 \/ list[ptr].id = "msi")
        BY <1>3 DEF NotFound, Found
    <2> QED BY <2>1 DEF WalkInv, Entries
<1>4. BarsNext \/ EnableMsi \/ (\E p \in {"low", "high", "data"} : WriteMessage(p)) \/ UNCHANGED pciVars
        => UNCHANGED <<list, ptr, seen>> /\ (phase' # "walk" => phase # "walk")
    BY DEF BarsNext, ReadNone, ReadBar, RestoreBar, EnableMsi, WriteMessage, pciVars
<1> QED BY <1>1, <1>2, <1>3, <1>4 DEF ListNext

LEMMA WalkIsSafe == WalkInv => WalkEndsOrCircles
BY DEF WalkInv, WalkEndsOrCircles

(* The loops over the firmware's tables: where they stand, and that each    *)
(* turn has passed at least two bytes, or four.                             *)
MadtInv ==
    /\ offset3 >= MadtHead + 2 * turns3 /\ lastRead = offset3
    /\ total >= MadtHead => lastRead < total + MaxEntry
    /\ total < MadtHead => lastRead = MadtHead
    /\ turns3 > 0 => 2 * turns3 <= total - MadtHead + 1
DmarInv ==
    /\ DmarHead + 4 * turns3 <= offset3 /\ (turns3 > 0 => offset3 <= total)
    /\ turns3 = 0 => offset3 = DmarHead
    /\ IF total >= DmarHead THEN lastRead <= total ELSE lastRead = DmarHead
    /\ acpiAt = "scopes" => unitLen >= 4 /\ offset3 + unitLen <= total
AcpiInv ==
    /\ total \in Nat /\ offset3 \in Nat /\ turns3 \in Nat /\ lastRead \in Nat /\ unitLen \in Nat /\ scope \in Nat
    /\ acpiAt \in {"madt", "dmar", "scopes", "end"} /\ inUnit
    /\ acpiAt = "madt" => MadtInv
    /\ acpiAt \in {"dmar", "scopes"} => DmarInv
    /\ TablesEnd

LEMMA AcpiStarts == LookupInit \/ MadtInit \/ DmarInit => AcpiInv
<1> SUFFICES ASSUME LookupInit \/ MadtInit \/ DmarInit PROVE AcpiInv
    OBVIOUS
<1>1. total \in Nat /\ MadtHead \in Nat /\ DmarHead \in Nat
    <2>1. total = 0 \/ total \in TotalLens
        BY Zenon DEF LookupInit, MadtInit, DmarInit
    <2>2. TotalLens \subseteq Nat /\ MadtHead \in Nat /\ DmarHead \in Nat
        BY HeadAssumption
    <2>3. CASE total = 0
        BY <2>2, <2>3
    <2>4. CASE total \in TotalLens
        BY <2>2, <2>4, Zenon
    <2> QED BY <2>1, <2>3, <2>4
<1>2. /\ unitLen = 0 /\ scope = 0 /\ turns3 = 0 /\ lastRead = offset3 /\ inUnit = TRUE
      /\ \/ acpiAt = "end" /\ offset3 = 0
         \/ acpiAt = "madt" /\ offset3 = MadtHead
         \/ acpiAt = "dmar" /\ offset3 = DmarHead
    BY DEF LookupInit, MadtInit, DmarInit, AtStart
<1>3. MaxEntry \in Nat /\ MaxEntry >= 2
    BY HeadAssumption
<1> QED BY <1>1, <1>2, <1>3 DEF AcpiInv, MadtInv, DmarInv, TablesEnd

(* A structure that is passed over lies in the table.                       *)
LEMMA PastKeeps ==
    ASSUME AcpiInv, acpiAt \in {"dmar", "scopes"}, NEW len \in Nat, len >= 4, offset3 + len <= total,
           Past(len), UNCHANGED <<roots, total>>, lastRead' \in Nat, lastRead' <= total
    PROVE  AcpiInv'
BY HeadAssumption DEF AcpiInv, DmarInv, TablesEnd, Past

LEMMA AcpiStepKeeps == AcpiInv /\ [AcpiNext]_acpiVars => AcpiInv'
<1> SUFFICES ASSUME AcpiInv, [AcpiNext]_acpiVars PROVE AcpiInv'
    OBVIOUS
<1>1. CASE UNCHANGED acpiVars
    BY <1>1 DEF acpiVars, AcpiInv, MadtInv, DmarInv, TablesEnd
<1>2. CASE MadtStop \/ DmarStop
    <2>1. /\ acpiAt' = "end" /\ UNCHANGED <<total, offset3, unitLen, scope, turns3, inUnit>>
          /\ lastRead' \in {lastRead, offset3 + 2, offset3 + 4}
        BY <1>2 DEF MadtStop, DmarStop
    <2> QED BY <2>1 DEF AcpiInv, TablesEnd
<1>3. CASE DmarUnitEnd
    <2>1. unitLen \in Nat /\ unitLen >= 4 /\ offset3 + unitLen <= total /\ lastRead \in Nat /\ lastRead <= total
        BY <1>3, HeadAssumption DEF DmarUnitEnd, AcpiInv, DmarInv
    <2> QED BY <1>3, <2>1, PastKeeps DEF DmarUnitEnd
<1>4. ASSUME NEW len \in EntryLens, MadtEntry(len) PROVE AcpiInv'
    BY <1>4, HeadAssumption DEF MadtEntry, TooShort, AcpiInv, MadtInv, TablesEnd
<1>5. ASSUME NEW len \in EntryLens, DmarStruct(len) PROVE AcpiInv'
    <2>1. len \in Nat /\ len >= 4 /\ offset3 + len <= total /\ lastRead' = offset3 + 4 /\ offset3 \in Nat /\ offset3 + 4 <= total
        BY <1>5, HeadAssumption DEF DmarStruct, StructFits, AcpiInv
    <2>2. lastRead' \in Nat /\ lastRead' <= total
        BY <2>1
    <2> QED BY <1>5, <2>1, <2>2, PastKeeps DEF DmarStruct
<1>6. ASSUME NEW len \in EntryLens, DmarUnit(len) PROVE AcpiInv'
    BY <1>6, HeadAssumption DEF DmarUnit, StructFits, AcpiInv, DmarInv, TablesEnd
<1>7. ASSUME NEW len \in EntryLens, DmarScope(len) PROVE AcpiInv'
    <2>1. len \in Nat /\ len >= 6 /\ scope + len <= unitLen /\ scope \in Nat /\ offset3 \in Nat /\ unitLen \in Nat
        BY <1>7, HeadAssumption DEF DmarScope, ScopeFits, AcpiInv
    <2>2. PICK n \in Nat : n = ((len - 6) \div 2) * 2 /\ n <= len - 6
        BY <2>1
    <2>3. lastRead' = offset3 + scope + 6 + n
        BY <1>7, <2>2 DEF DmarScope
    <2>4. lastRead' \in Nat /\ lastRead' <= offset3 + unitLen
        BY <2>1, <2>2, <2>3
    <2>5. inUnit' /\ acpiAt = "scopes" /\ UNCHANGED <<total, offset3, unitLen, acpiAt, turns3>> /\ scope' = scope + len
        BY <1>7, <2>4 DEF DmarScope, AcpiInv
    <2> QED BY <2>1, <2>4, <2>5 DEF AcpiInv, DmarInv, TablesEnd
<1> QED BY <1>1, <1>2, <1>3, <1>4, <1>5, <1>6, <1>7 DEF AcpiNext

LEMMA DmarFound == DmarIsFound
BY DEF DmarIsFound, GetDmar, FromXsdt, FromRsdt, FirstOf, Listed, NoTable

LEMMA AcpiIsSafe == AcpiInv => DmarIsFound /\ DmarReadsInside /\ ScopesInUnit /\ MadtOverreads /\ TablesEnd
<1> SUFFICES ASSUME AcpiInv PROVE DmarReadsInside /\ MadtOverreads
    BY DmarFound DEF AcpiInv, ScopesInUnit
<1>1. DmarReadsInside
    BY HeadAssumption DEF AcpiInv, DmarInv, DmarReadsInside
<1>2. MadtOverreads
    BY DEF AcpiInv, MadtInv, MadtOverreads
<1> QED BY <1>1, <1>2

(* USB, while the addresses last: an address is given once.  Who answers to *)
(* address 0 is the device of the port in hand, or was left there by a      *)
(* failure; and the address in hand is answered by that device, or by one   *)
(* that was left.                                                           *)
UsbTyped ==
    /\ answers \in [Ports -> {Off, MaxAddress + 1} \cup (0 .. MaxAddress)] /\ found \in [Ports -> {Off} \cup (1 .. MaxAddress)]
    /\ nextAddress \in 1 .. MaxAddress /\ address \in 0 .. MaxAddress /\ portAt \in Nat
    /\ step \in {"port", "head", "address", "full"} /\ (step # "port" => portAt \in Ports)
    /\ step = "full" => address \in 1 .. MaxAddress
AddressesAreOld ==
    /\ \A p \in Ports : answers[p] \in 1 .. MaxAddress => answers[p] < nextAddress
    /\ \A p \in Ports : found[p] \in 1 .. MaxAddress => found[p] < nextAddress
    /\ step = "full" => address < nextAddress
ZeroIsLeft == \A q \in Ports : answers[q] = 0 => q \in early \/ (step \in {"head", "address"} /\ q = portAt)
AloneAt(a, p) == \A q \in Ports : answers[q] = a => q = p \/ q \in early
UsbApart ==
    /\ AddressesAreOld /\ ZeroIsLeft
    /\ \A p \in Ports : found[p] \in 1 .. MaxAddress => AloneAt(found[p], p)
    /\ step = "full" => AloneAt(address, portAt)
UsbInv == UsbTyped /\ (nextAddress <= LastValid + 1 => UsbApart)
ConfInv ==
    /\ descAt \in Nat /\ turnsU \in Nat /\ lastByte \in Nat
    /\ turnsU <= descAt /\ turnsU <= BufLen /\ lastByte <= BufLen

LEMMA UsbStarts == UsbInit => UsbInv /\ ConfInv
<1> SUFFICES ASSUME UsbInit PROVE UsbInv /\ ConfInv
    OBVIOUS
<1>1. PICK plugged \in SUBSET Ports : answers = [p \in Ports |-> IF p \in plugged THEN MaxAddress + 1 ELSE Off]
    BY DEF UsbInit
<1>2. \A p \in Ports : answers[p] \in {Off, MaxAddress + 1} /\ found[p] = Off
    BY <1>1 DEF UsbInit
<1>3. UsbTyped
    BY <1>1, <1>2, UsbAssumption DEF UsbInit, UsbTyped
<1>4. AddressesAreOld /\ ZeroIsLeft
    BY <1>2, UsbAssumption DEF UsbInit, AddressesAreOld, ZeroIsLeft, Off
<1>5. UsbInv
    BY <1>2, <1>3, <1>4, UsbAssumption DEF UsbInit, UsbInv, UsbApart, Off
<1>6. ConfInv
    BY UsbAssumption DEF UsbInit, ConfInv
<1> QED BY <1>5, <1>6

(* A step that moves no device and gives no address.                        *)
LEMMA PassesKeep ==
    ASSUME UsbInv, PassOver \/ ReadHead \/ Again \/ TransferFails
    PROVE  UsbInv'
<1>1. UNCHANGED <<answers, nextAddress, address>> /\ early \subseteq early' /\ step' # "full"
    BY DEF PassOver, ReadHead, Again, TransferFails
<1>2. \A p \in Ports : found'[p] = found[p] \/ found'[p] = Off
    BY DEF PassOver, ReadHead, Again, TransferFails
<1>3. UsbTyped'
    BY UsbAssumption DEF PassOver, ReadHead, Again, TransferFails, UsbInv, UsbTyped
<1>4. ASSUME UsbApart PROVE UsbApart'
    <2>1. ZeroIsLeft'
        BY <1>1, <1>4 DEF PassOver, ReadHead, Again, TransferFails, UsbApart, ZeroIsLeft
    <2>2. AddressesAreOld'
        BY <1>1, <1>2, <1>4, UsbAssumption DEF UsbApart, AddressesAreOld, Off
    <2>3. \A p \in Ports : found'[p] \in 1 .. MaxAddress => AloneAt(found[p], p)'
        BY <1>1, <1>2, <1>4, UsbAssumption DEF UsbApart, AloneAt, Off
    <2> QED BY <1>1, <2>1, <2>2, <2>3 DEF UsbApart
<1> QED BY <1>1, <1>3, <1>4 DEF UsbInv

LEMMA ResetKeeps ==
    ASSUME UsbInv, ResetPort
    PROVE  UsbInv'
<1>1. /\ answers' = [answers EXCEPT ![portAt] = 0] /\ step' = "head" /\ early' = early \ {portAt} /\ portAt \in Ports
      /\ step = "port" /\ UNCHANGED <<nextAddress, portAt, address, found>>
    BY DEF ResetPort
<1>2. answers \in [Ports -> {Off, MaxAddress + 1} \cup (0 .. MaxAddress)]
    BY DEF UsbInv, UsbTyped
<1>3. answers'[portAt] = 0 /\ \A q \in Ports : q # portAt => answers'[q] = answers[q]
    BY <1>1, <1>2
<1>4. UsbTyped'
    BY <1>1, UsbAssumption DEF UsbInv, UsbTyped
<1>5. ASSUME UsbApart PROVE UsbApart'
    <2>1. ZeroIsLeft'
        BY <1>1, <1>3, <1>5 DEF UsbApart, ZeroIsLeft
    <2>2. AddressesAreOld'
        BY <1>1, <1>3, <1>5, UsbAssumption DEF UsbApart, AddressesAreOld
    <2>3. \A p \in Ports : found'[p] \in 1 .. MaxAddress => AloneAt(found[p], p)'
        BY <1>1, <1>3, <1>5, UsbAssumption DEF UsbApart, AloneAt
    <2> QED BY <1>1, <2>1, <2>2, <2>3 DEF UsbApart
<1> QED BY <1>1, <1>4, <1>5 DEF UsbInv

(* The address that is given next is nobody's yet, and while the addresses  *)
(* last it is the one that a device takes.                                  *)
LEMMA NextIsNew ==
    ASSUME UsbInv
    PROVE  /\ Succ3 \in 1 .. MaxAddress /\ nextAddress \in 1 .. MaxAddress /\ nextAddress <= Succ3
           /\ Taken(nextAddress) \subseteq 0 .. MaxAddress
           /\ Succ3 <= LastValid + 1 => /\ nextAddress < Succ3 /\ nextAddress <= LastValid + 1
                                        /\ Taken(nextAddress) = {nextAddress} /\ UsbApart
BY UsbAssumption DEF UsbInv, UsbTyped, Succ3, Taken

LEMMA AddressKeeps ==
    ASSUME UsbInv, SetAddress
    PROVE  UsbInv'
<1>1. PICK a \in Taken(nextAddress) :
         /\ address' = nextAddress /\ nextAddress' = Succ3 /\ step' = "full" /\ step = "address"
         /\ answers' = [p \in Ports |-> IF answers[p] = 0 THEN a ELSE answers[p]]
         /\ UNCHANGED <<portAt, found, early>>
    BY DEF SetAddress
<1>2. UsbTyped'
    BY <1>1, NextIsNew, UsbAssumption DEF UsbInv, UsbTyped
<1>3. ASSUME Succ3 <= LastValid + 1 PROVE UsbApart'
    <2>1. UsbApart /\ a = nextAddress /\ nextAddress < Succ3 /\ nextAddress \in 1 .. MaxAddress /\ Succ3 \in 1 .. MaxAddress
        BY <1>1, <1>3, NextIsNew
    <2>2. \A q \in Ports : answers'[q] = IF answers[q] = 0 THEN nextAddress ELSE answers[q]
        BY <1>1, <2>1
    <2>3. ZeroIsLeft'
        BY <1>1, <2>1, <2>2 DEF UsbApart, ZeroIsLeft
    <2>4. AddressesAreOld'
        <3>1. \A p \in Ports : answers'[p] \in 1 .. MaxAddress => answers'[p] < nextAddress'
            BY <1>1, <2>1, <2>2, UsbAssumption DEF UsbApart, AddressesAreOld
        <3>2. \A p \in Ports : found'[p] \in 1 .. MaxAddress => found'[p] < nextAddress'
            BY <1>1, <2>1, UsbAssumption DEF UsbApart, AddressesAreOld
        <3> QED BY <1>1, <2>1, <3>1, <3>2 DEF AddressesAreOld
    <2>5. \A p \in Ports : found'[p] \in 1 .. MaxAddress => AloneAt(found[p], p)'
        BY <1>1, <2>1, <2>2 DEF UsbApart, AloneAt, AddressesAreOld
    <2>6. AloneAt(address, portAt)'
        BY <1>1, <2>1, <2>2 DEF UsbApart, AloneAt, ZeroIsLeft, AddressesAreOld
    <2> QED BY <2>3, <2>4, <2>5, <2>6 DEF UsbApart
<1> QED BY <1>1, <1>2, <1>3 DEF UsbInv

LEMMA AddressLost ==
    ASSUME UsbInv, SetAddressFails
    PROVE  UsbInv'
<1>1. PICK a \in Taken(nextAddress) :
         /\ nextAddress' = Succ3 /\ step' = "port" /\ step = "address" /\ portAt' = portAt + 1 /\ UNCHANGED <<address, found>>
         /\ \/ early' = early \cup {portAt} /\ UNCHANGED answers
            \/ answers' = [answers EXCEPT ![portAt] = a] /\ UNCHANGED early
    <2>1. \E a : a \in Taken(nextAddress)
        BY UsbAssumption DEF Taken
    <2> QED BY <2>1 DEF SetAddressFails
<1>2. UsbTyped /\ portAt \in Ports
    BY <1>1 DEF UsbInv, UsbTyped
<1>3. UsbTyped'
    BY <1>1, <1>2, NextIsNew, UsbAssumption DEF UsbTyped
<1>4. ASSUME Succ3 <= LastValid + 1 PROVE UsbApart'
    <2>1. UsbApart /\ a = nextAddress /\ nextAddress < Succ3 /\ nextAddress \in 1 .. MaxAddress /\ Succ3 \in 1 .. MaxAddress
        BY <1>1, <1>4, NextIsNew
    <2>2. \A q \in Ports : answers'[q] = answers[q] \/ (q = portAt /\ answers'[q] = nextAddress)
        BY <1>1, <1>2, <2>1 DEF UsbTyped
    <2>3. early \subseteq early' /\ (answers'[portAt] = nextAddress \/ portAt \in early')
        BY <1>1, <1>2, <2>1 DEF UsbTyped
    <2>4. ZeroIsLeft'
        BY <2>1, <2>2, <2>3 DEF UsbApart, ZeroIsLeft
    <2>5. AddressesAreOld'
        <3>1. \A p \in Ports : answers'[p] \in 1 .. MaxAddress => answers'[p] < nextAddress'
            BY <1>1, <2>1, <2>2, UsbAssumption DEF UsbApart, AddressesAreOld
        <3>2. \A p \in Ports : found'[p] \in 1 .. MaxAddress => found'[p] < nextAddress'
            BY <1>1, <2>1, UsbAssumption DEF UsbApart, AddressesAreOld
        <3> QED BY <1>1, <3>1, <3>2 DEF AddressesAreOld
    <2>6. \A p \in Ports : found'[p] \in 1 .. MaxAddress => AloneAt(found[p], p)'
        BY <1>1, <2>1, <2>2, <2>3 DEF UsbApart, AloneAt, AddressesAreOld
    <2> QED BY <1>1, <2>4, <2>5, <2>6 DEF UsbApart
<1> QED BY <1>1, <1>3, <1>4 DEF UsbInv

LEMMA ReportKeeps ==
    ASSUME UsbInv, ReadFull
    PROVE  UsbInv'
<1>1. /\ step = "full" /\ found' = [found EXCEPT ![portAt] = address] /\ step' = "port" /\ portAt' = portAt + 1
      /\ UNCHANGED <<answers, nextAddress, address, early>>
    BY DEF ReadFull
<1>2. UsbTyped /\ portAt \in Ports /\ address \in 1 .. MaxAddress
    BY <1>1 DEF UsbInv, UsbTyped
<1>3. UsbTyped'
    BY <1>1, <1>2, UsbAssumption DEF UsbTyped
<1>4. \A p \in Ports : found'[p] = IF p = portAt THEN address ELSE found[p]
    BY <1>1, <1>2 DEF UsbTyped
<1>5. ASSUME UsbApart PROVE UsbApart'
    <2>1. ZeroIsLeft'
        BY <1>1, <1>5 DEF UsbApart, ZeroIsLeft
    <2>2. AddressesAreOld'
        BY <1>1, <1>2, <1>4, <1>5, UsbAssumption DEF UsbApart, AddressesAreOld
    <2>3. \A p \in Ports : found'[p] \in 1 .. MaxAddress => AloneAt(found[p], p)'
        BY <1>1, <1>2, <1>4, <1>5, UsbAssumption DEF UsbApart, AloneAt
    <2> QED BY <1>1, <2>1, <2>2, <2>3 DEF UsbApart
<1> QED BY <1>1, <1>3, <1>5 DEF UsbInv

LEMMA UsbStepKeeps == UsbInv /\ ConfInv /\ [Enumerate \/ Descriptors]_usbVars => UsbInv' /\ ConfInv'
<1> SUFFICES ASSUME UsbInv, ConfInv, [Enumerate \/ Descriptors]_usbVars PROVE UsbInv' /\ ConfInv'
    OBVIOUS
<1>1. CASE Enumerate
    <2>1. UsbInv'
        BY <1>1, PassesKeep, ResetKeeps, AddressKeeps, AddressLost, ReportKeeps DEF Enumerate
    <2>2. UNCHANGED <<descAt, descEnd, turnsU, lastByte>>
        BY <1>1 DEF Enumerate, PassOver, ResetPort, ReadHead, SetAddress, SetAddressFails, ReadFull, TransferFails, Again, Parse
    <2> QED BY <2>1, <2>2 DEF ConfInv
<1>2. CASE UNCHANGED usbVars \/ Descriptors
    <2>1. UNCHANGED <<answers, nextAddress, portAt, step, address, found, early>>
        BY <1>2 DEF usbVars, Descriptors, DescriptorsEnd, Descriptor
    <2>2. UsbInv'
        BY <2>1 DEF UsbInv, UsbTyped, UsbApart, AddressesAreOld, ZeroIsLeft, AloneAt
    <2>3. CASE UNCHANGED <<descAt, turnsU, lastByte>>
        BY <2>2, <2>3 DEF ConfInv
    <2>4. ASSUME NEW len \in DescLens, NEW i \in BOOLEAN, Descriptor(len, i) PROVE ConfInv'
        <3>1. len \in Nat /\ len # 0 /\ descAt + 2 <= BufLen /\ descAt' = descAt + len /\ turnsU' = turnsU + 1
            BY <2>4, UsbAssumption DEF Descriptor, EndsLoop
        <3>2. lastByte' = descAt + 2 \/ (lastByte' = descAt + 9 /\ descAt + 9 <= BufLen)
            BY <2>4 DEF Descriptor, NineLeft
        <3> QED BY <3>1, <3>2, UsbAssumption DEF ConfInv
    <2> QED BY <1>2, <2>2, <2>3, <2>4 DEF usbVars, Descriptors, DescriptorsEnd
<1> QED BY <1>1, <1>2

LEMMA UsbIsSafe == UsbInv /\ ConfInv => AnswersAlone /\ InterfacesInside /\ ConfigurationRead
<1> SUFFICES ASSUME UsbInv, ConfInv PROVE AnswersAlone
    BY DEF ConfInv, InterfacesInside, ConfigurationRead
<1>1. \A p \in Ports : found[p] # Off => found[p] \in 1 .. MaxAddress
    BY UsbAssumption DEF UsbInv, UsbTyped
<1> QED BY <1>1 DEF UsbInv, UsbApart, AloneAt, AnswersAlone

(* For every layout of the registers, every list of capabilities, all       *)
(* lengths that the firmware or a device may write, and every number of     *)
(* ports and addresses: the scan of the base address registers reports the  *)
(* first halves in use and leaves them as they were; an interrupt message   *)
(* is enabled when it is whole; a walk of the capabilities that comes to a  *)
(* place again never ends, any other does; a valid DMAR is found, and when  *)
(* it has its head it is read inside its bounds; the MADT is read less than *)
(* one entry beyond; both loops end; and until an address above 127 is      *)
(* given, a USB device that is reported is alone at its address.            *)
THEOREM DevicesAreSound == PciSpec /\ AcpiSpec /\ UsbSpec => []DevicesSound
<1>1. (BarsInit \/ ListInit => PciInv) /\ (PciInv /\ [BarsNext \/ ListNext]_pciVars => PciInv')
    BY PciStarts, PciStepKeeps
<1>2. (LookupInit \/ MadtInit \/ DmarInit => AcpiInv) /\ (AcpiInv /\ [AcpiNext]_acpiVars => AcpiInv')
    BY AcpiStarts, AcpiStepKeeps
<1>3. (UsbInit => UsbInv /\ ConfInv) /\ (UsbInv /\ ConfInv /\ [Enumerate \/ Descriptors]_usbVars => UsbInv' /\ ConfInv')
    BY UsbStarts, UsbStepKeeps
<1>4. (BarsInit \/ ListInit => WalkInv) /\ (WalkInv /\ [BarsNext \/ ListNext]_pciVars => WalkInv')
    BY WalkStarts, WalkKeeps
<1>5. PciInv /\ WalkInv /\ AcpiInv /\ UsbInv /\ ConfInv => DevicesSound
    BY PciIsSafe, WalkIsSafe, AcpiIsSafe, UsbIsSafe DEF DevicesSound
<1> QED BY <1>1, <1>2, <1>3, <1>4, <1>5, PTL DEF PciSpec, AcpiSpec, UsbSpec

-----------------------------------------------------------------------------
(* The browser *)

(* A history in which the page shown is the one pointed at, and no two      *)
(* neighbours are the same page.                                            *)
Visits(s) ==
    /\ s.hist \in Seq(Urls) /\ s.at \in Nat /\ s.at < Len(s.hist) /\ s.hist[s.at + 1] = s.url
    /\ \A i \in 1 .. Len(s.hist) - 1 : s.hist[i] # s.hist[i + 1]

(* The same but for the address, which load_url sets.                       *)
Pointing(s) ==
    /\ s.hist \in Seq(Urls) /\ s.at \in Nat /\ s.at < Len(s.hist)
    /\ \A i \in 1 .. Len(s.hist) - 1 : s.hist[i] # s.hist[i + 1]

LEMMA LoadVisits ==
    ASSUME NEW s, NEW u \in Urls, Pointing(s)
    PROVE  Visits(LoadUrl(s, u))
<1>1. PICK h \in Seq(Urls) : h = s.hist
    BY DEF Pointing
<1>2. PICK a \in Nat : a = s.at /\ a + 1 <= Len(h)
    BY <1>1, LenProperties DEF Pointing
<1>3. Len(h) \in Nat /\ h # <<>> /\ \A i \in 1 .. Len(h) - 1 : h[i] # h[i + 1]
    <2>1. Len(h) \in Nat /\ h # <<>>
        BY <1>2, LenProperties
    <2>2. \A i \in 1 .. Len(h) - 1 : h[i] # h[i + 1]
        BY <1>1 DEF Pointing
    <2> QED BY <2>1, <2>2
<1>4. CASE h[a + 1] = u
    <2>1. LoadUrl(s, u).hist = h /\ LoadUrl(s, u).at = a /\ LoadUrl(s, u).url = u
        BY <1>1, <1>2, <1>3, <1>4 DEF LoadUrl
    <2>2. PICK x : x = LoadUrl(s, u)
        OBVIOUS
    <2>3. x.hist = h /\ x.at = a /\ x.url = u
        BY <2>1, <2>2
    <2>4. Visits(x)
        BY <1>2, <1>3, <1>4, <2>3 DEF Visits
    <2> QED BY <2>2, <2>4
<1>5. CASE h[a + 1] # u
    <2>1. PICK k : k = SubSeq(h, 1, a + 1)
        OBVIOUS
    <2>2. \A i \in 1 .. a + 1 : h[i] \in Urls
        BY <1>2, <1>3, ElementOfSeq
    <2>3. k \in Seq(Urls)
        BY <1>2, <2>1, <2>2, SubSeqProperties
    <2>4. Len(k) = a + 1
        BY <1>2, <2>1, <2>2, SubSeqProperties
    <2>5. \A i \in 1 .. (a + 1) - 1 + 1 : k[i] = h[1 + i - 1]
        BY <1>2, <2>1, <2>2, SubSeqProperties
    <2>6. \A i \in 1 .. a + 1 : k[i] = h[i]
        BY <1>2, <2>5
    <2>7. PICK n : n = Append(k, u)
        OBVIOUS
    <2>8. n \in Seq(Urls) /\ Len(n) = a + 2 /\ n[a + 2] = u
        BY <1>2, <2>3, <2>4, <2>7, AppendProperties
    <2>9. \A i \in 1 .. a + 1 : n[i] = h[i]
        BY <1>2, <2>3, <2>4, <2>6, <2>7, AppendProperties
    <2>10. LoadUrl(s, u).hist = n /\ LoadUrl(s, u).at = a + 1 /\ LoadUrl(s, u).url = u
        BY <1>1, <1>2, <1>3, <1>5, <2>1, <2>4, <2>7 DEF LoadUrl
    <2>11. \A i \in 1 .. (a + 2) - 1 : n[i] # n[i + 1]
        <3> TAKE i \in 1 .. (a + 2) - 1
        <3>1. CASE i = a + 1
            BY <1>2, <1>5, <2>8, <2>9, <3>1
        <3>2. CASE i \in 1 .. a
            BY <1>2, <1>3, <2>9, <3>2
        <3> QED BY <1>2, <3>1, <3>2
    <2> QED BY <1>2, <2>8, <2>10, <2>11 DEF Visits
<1> QED BY <1>4, <1>5

LEMMA VisitsPoint ==
    ASSUME NEW s, Visits(s)
    PROVE  /\ Pointing(s) /\ s.url \in Urls
           /\ \A u \in Urls : Visits(LoadUrl(s, u)) /\ Visits(Unfocused(LoadUrl(s, u)))
           /\ \A length, c, focused : Visits(Bar(s, length, c, focused))
<1>1. Pointing(s)
    BY DEF Visits, Pointing
<1>2. s.url \in Urls
    BY ElementOfSeq, LenProperties DEF Visits
<1>3. \A u \in Urls : Visits(LoadUrl(s, u))
    BY <1>1, LoadVisits
<1>4. \A t : Visits(t) => Visits(Unfocused(t))
    BY DEF Visits, Unfocused, Bar
<1>5. \A length, c, focused : Visits(Bar(s, length, c, focused))
    BY DEF Visits, Bar
<1> QED BY <1>1, <1>2, <1>3, <1>4, <1>5

LEMMA NavigationVisits ==
    ASSUME NEW s, Visits(s)
    PROVE  Visits(NavigateBack(s)) /\ Visits(NavigateForward(s)) /\ Visits(Reload(s))
<1>1. Pointing(s) /\ s.url \in Urls
    BY VisitsPoint
<1>2. Len(s.hist) \in Nat /\ s.at \in Nat /\ s.at < Len(s.hist)
    BY <1>1, LenProperties DEF Pointing
<1>3. Visits(Reload(s))
    BY <1>1, LoadVisits DEF Reload
<1>4. Visits(NavigateBack(s))
    <2>1. CASE s.at > 0
        <3>1. s.at - 1 \in Nat /\ s.at - 1 < Len(s.hist) /\ s.at \in 1 .. Len(s.hist)
            BY <1>2, <2>1
        <3>2. Pointing(Turned(s, s.at - 1))
            BY <1>1, <3>1 DEF Pointing, Turned
        <3>3. s.hist[s.at] \in Urls
            BY <1>1, <3>1, ElementOfSeq DEF Pointing
        <3> QED BY <2>1, <3>2, <3>3, LoadVisits DEF NavigateBack
    <2> QED BY <2>1 DEF NavigateBack
<1>5. Visits(NavigateForward(s))
    <2>1. CASE s.at + 1 < Len(s.hist)
        <3>1. Pointing(Turned(s, s.at + 1)) /\ s.hist[s.at + 2] \in Urls
            BY <1>1, <1>2, <2>1, ElementOfSeq DEF Pointing, Turned
        <3> QED BY <2>1, <3>1, LoadVisits DEF NavigateForward
    <2> QED BY <2>1 DEF NavigateForward
<1> QED BY <1>3, <1>4, <1>5

LEMMA BrowserStarts == BrInit => Visits(br)
<1> SUFFICES ASSUME BrInit PROVE Visits(br)
    OBVIOUS
<1>1. br.hist = Append(<<>>, HomeUrl) /\ br.at = Len(<<>>) /\ br.url = HomeUrl
    BY DEF BrInit, LoadUrl
<1>2. <<>> \in Seq(Urls) /\ Len(<<>>) = 0
    OBVIOUS
<1>3. br.hist \in Seq(Urls) /\ Len(br.hist) = 1 /\ br.hist[1] = HomeUrl
    BY <1>1, <1>2, AppendProperties, BrowserAssumption
<1> QED BY <1>1, <1>2, <1>3 DEF Visits

LEMMA BrowsingKeeps == ASSUME Visits(br), BrNext PROVE Visits(br') /\ UNCHANGED parserVars
<1> DEFINE Good == \E s : Visits(s) /\ Shows(s)
<1>1. \A length, c, focused : Visits(Bar(br, length, c, focused))
    BY VisitsPoint
<1>2. \A u \in Urls : Visits(LoadUrl(br, u)) /\ Visits(Unfocused(LoadUrl(br, u)))
    BY VisitsPoint
<1>3. Visits(Unfocused(br)) /\ \A s \in NavigateToInput(br) : Visits(Unfocused(s))
    BY <1>1, <1>2 DEF NavigateToInput, Unfocused
<1>4. Visits(NavigateBack(br)) /\ Visits(NavigateForward(br)) /\ Visits(Reload(br)) /\ Visits(LoadUrl(br, HomeUrl))
    BY <1>2, NavigationVisits, BrowserAssumption
<1>5. Good
    <2>1. CASE ToolbarClick
        BY <1>1, <1>3, <1>4, <2>1, Zenon DEF ToolbarClick
    <2>2. CASE PageClick
        BY <1>2, <1>3, <2>2, Zenon DEF PageClick
    <2>3. CASE BarEscape \/ BarKey
        BY <1>1, <1>3, <2>3, Zenon DEF BarEscape, BarKey
    <2>4. CASE PageKey
        BY <1>1, <1>4, <2>4, Zenon DEF PageKey
    <2> QED BY <2>1, <2>2, <2>3, <2>4 DEF BrNext
<1> QED BY <1>5 DEF Shows

(* Text is no tag and no stray '<'.                                         *)
LEMMA TextIsNoTag ==
    /\ <<"text">> # <<"lt">> /\ <<"text">> # <<"rule">> /\ <<"text">> # <<"junk">>
    /\ \A e : <<"text">> # Opening(e) /\ <<"text">> # Closing(e)
<1>1. Len(<<"text">>) = 1 /\ <<"text">>[1] = "text" /\ <<"lt">>[1] = "lt" /\ <<"rule">>[1] = "rule" /\ <<"junk">>[1] = "junk"
    OBVIOUS
<1>2. \A e : Len(Opening(e)) = 2 /\ Len(Closing(e)) = 2
    BY DEF Opening, Closing
<1> QED BY <1>1, <1>2

(* What the parser has read: every block holds tokens read, no token is in  *)
(* two of them, and text is in one, in a title, behind a stray '<' or cut   *)
(* off.                                                                     *)
BlockSet == [kind : {"text", "block", "rule"}, held : SUBSET Int]
Out(i) == (\E k \in 1 .. Len(blocks) : i \in blocks[k].held) \/ InTitle(i) \/ Swallowed(i) \/ CutOff(i)
HtmlInv ==
    /\ page \in Seq(Tokens) /\ blocks \in Seq(BlockSet) /\ cursor \in 0 .. Len(page)
    /\ \A k \in 1 .. Len(blocks) : blocks[k].held \subseteq 1 .. cursor
    /\ \A k, l \in 1 .. Len(blocks) : k # l => blocks[k].held \cap blocks[l].held = {}
    /\ \A i \in 1 .. cursor : page[i] = <<"text">> => Out(i)

LEMMA HtmlStarts == HtmlInit => HtmlInv
<1> SUFFICES ASSUME HtmlInit PROVE HtmlInv
    OBVIOUS
<1>1. PICK n \in 0 .. MaxTokens : page \in [1 .. n -> Tokens]
    BY Zenon DEF HtmlInit
<1>2. n \in Nat /\ cursor = 0 /\ blocks = <<>>
    BY BrowserAssumption DEF HtmlInit
<1>3. page \in Seq(Tokens)
    BY <1>1, <1>2, IsASeq
<1>4. <<>> \in Seq(BlockSet) /\ Len(<<>>) = 0
    OBVIOUS
<1>5. Len(page) \in Nat
    BY <1>3, LenProperties
<1> QED BY <1>2, <1>3, <1>4, <1>5 DEF HtmlInv

(* One round of the loop: it goes on to a later token, and puts the text in *)
(* between into one block or passes over it with reason.                    *)
LEMMA PassKeeps ==
    ASSUME HtmlInv, NEW to \in Nat, cursor < to, to <= Len(page), PassTo(to),
           \A i \in cursor + 1 .. to : page[i] = <<"text">> => InTitle(i) \/ Swallowed(i)
    PROVE  HtmlInv'
<1>1. cursor' = to /\ page' = page /\ blocks' = blocks
    BY DEF PassTo
<1>2. cursor \in Nat /\ Len(page) \in Nat
    BY LenProperties DEF HtmlInv
<1>3. \A i : Out(i)' = Out(i)
    BY <1>1 DEF Out, InTitle, Swallowed, CutOff
<1>4. \A i \in 1 .. to : page[i] = <<"text">> => Out(i)
    <2> TAKE i \in 1 .. to
    <2>1. CASE i \in 1 .. cursor
        BY <2>1 DEF HtmlInv
    <2>2. CASE i \in cursor + 1 .. to
        BY <2>2 DEF Out
    <2> QED BY <1>2, <2>1, <2>2
<1>5. \A k \in 1 .. Len(blocks) : blocks[k].held \subseteq 1 .. to
    <2>1. 1 .. cursor \subseteq 1 .. to
        BY <1>2
    <2> QED BY <2>1 DEF HtmlInv
<1>6. to \in 0 .. Len(page)
    BY <1>2
<1> QED BY <1>1, <1>3, <1>4, <1>5, <1>6 DEF HtmlInv

LEMMA EmitKeeps ==
    ASSUME HtmlInv, NEW kind \in {"text", "block", "rule"}, NEW from \in Nat, NEW upto \in Nat, NEW to \in Nat,
           cursor < from, upto <= to, cursor < to, to <= Len(page), Emit(kind, from, upto, to),
           \A i \in cursor + 1 .. to : page[i] = <<"text">> => i \in from .. upto \/ CutOff(i)
    PROVE  HtmlInv'
<1>1. cursor' = to /\ page' = page /\ blocks' = Append(blocks, Block(kind, from .. upto))
    BY DEF Emit
<1>2. cursor \in Nat /\ Len(page) \in Nat /\ Len(blocks) \in Nat /\ blocks \in Seq(BlockSet)
    BY LenProperties DEF HtmlInv
<1>3. PICK b \in BlockSet : b = Block(kind, from .. upto) /\ b.held = from .. upto
    <2>1. PICK h \in SUBSET Int : h = from .. upto
        OBVIOUS
    <2>2. Block(kind, h) \in BlockSet /\ Block(kind, h).held = h
        BY DEF Block, BlockSet
    <2> QED BY <2>1, <2>2
<1>4. blocks' \in Seq(BlockSet) /\ Len(blocks') = Len(blocks) + 1 /\ blocks'[Len(blocks) + 1] = b
    BY <1>1, <1>2, <1>3, AppendProperties
<1>5. \A k \in 1 .. Len(blocks) : blocks'[k] = blocks[k]
    BY <1>1, <1>2, <1>3, AppendProperties
<1>6. \A k \in 1 .. Len(blocks') : k \in 1 .. Len(blocks) \/ k = Len(blocks) + 1
    BY <1>2, <1>4
<1>7. from .. upto \subseteq 1 .. to /\ 1 .. cursor \subseteq 1 .. to /\ (1 .. cursor) \cap (from .. upto) = {}
    BY <1>2
<1>8. \A k \in 1 .. Len(blocks') : blocks'[k].held \subseteq 1 .. to
    BY <1>3, <1>4, <1>5, <1>6, <1>7 DEF HtmlInv
<1>9. \A k \in 1 .. Len(blocks) : blocks[k].held \cap b.held = {}
    BY <1>3, <1>7 DEF HtmlInv
<1>10. \A k, l \in 1 .. Len(blocks') : k # l => blocks'[k].held \cap blocks'[l].held = {}
    <2> SUFFICES ASSUME NEW k \in 1 .. Len(blocks'), NEW l \in 1 .. Len(blocks'), k # l
                 PROVE  blocks'[k].held \cap blocks'[l].held = {}
        OBVIOUS
    <2>1. CASE k \in 1 .. Len(blocks) /\ l \in 1 .. Len(blocks)
        BY <1>5, <2>1 DEF HtmlInv
    <2>2. CASE k \in 1 .. Len(blocks) /\ l = Len(blocks) + 1
        BY <1>4, <1>5, <1>9, <2>2
    <2>3. CASE k = Len(blocks) + 1 /\ l \in 1 .. Len(blocks)
        <3>1. blocks[l].held \cap b.held = {} /\ blocks'[k] = b /\ blocks'[l] = blocks[l]
            BY <1>4, <1>5, <1>9, <2>3
        <3> QED BY <3>1
    <2> QED BY <1>6, <2>1, <2>2, <2>3
<1>11. \A i \in 1 .. to : page[i] = <<"text">> => Out(i)'
    <2> SUFFICES ASSUME NEW i \in 1 .. to, page[i] = <<"text">> PROVE Out(i)'
        OBVIOUS
    <2>1. CASE i \in 1 .. cursor
        <3>1. Out(i)
            BY <2>1 DEF HtmlInv
        <3>2. CASE InTitle(i) \/ Swallowed(i) \/ CutOff(i)
            BY <1>1, <3>2 DEF Out, InTitle, Swallowed, CutOff
        <3>3. CASE \E k \in 1 .. Len(blocks) : i \in blocks[k].held
            <4>1. PICK k \in 1 .. Len(blocks) : i \in blocks[k].held
                BY <3>3
            <4>2. k \in 1 .. Len(blocks') /\ i \in blocks'[k].held
                BY <1>2, <1>4, <1>5, <4>1
            <4> QED BY <4>2 DEF Out
        <3> QED BY <3>1, <3>2, <3>3 DEF Out
    <2>2. CASE i \in cursor + 1 .. to /\ CutOff(i)
        BY <1>1, <2>2 DEF Out, CutOff
    <2>3. CASE i \in cursor + 1 .. to /\ ~CutOff(i)
        <3>1. i \in b.held /\ Len(blocks) + 1 \in 1 .. Len(blocks') /\ blocks'[Len(blocks) + 1] = b
            BY <1>2, <1>3, <1>4, <2>3
        <3> QED BY <3>1 DEF Out
    <2> QED BY <1>2, <2>1, <2>2, <2>3
<1>12. to \in 0 .. Len(page)
    BY <1>2
<1> QED BY <1>1, <1>4, <1>8, <1>10, <1>11, <1>12 DEF HtmlInv

(* The first of the tokens ahead.                                           *)
LEMMA FirstAhead ==
    ASSUME HtmlInv, NEW K, K \subseteq Rest, K # {}
    PROVE  /\ Min(K) \in K /\ Min(K) \in Nat /\ cursor < Min(K) /\ Min(K) <= Len(page)
           /\ \A k \in K : Min(K) <= k
<1>1. cursor \in Nat /\ Len(page) \in Nat
    BY LenProperties DEF HtmlInv
<1>2. K \in SUBSET Nat /\ \A k \in K : k \in Nat /\ cursor < k /\ k <= Len(page)
    BY <1>1 DEF Rest
<1>3. PICK m \in K : \A t \in K : m <= t
    BY <1>2, MinExists
<1>4. Min(K) \in K /\ \A k \in K : Min(K) <= k
    BY <1>3, Zenon DEF Min
<1> QED BY <1>2, <1>4

LEMMA HtmlKeeps == ASSUME HtmlInv, HtmlNext PROVE HtmlInv'
<1>1. cursor \in Nat /\ Len(page) \in Nat /\ cursor < Len(page)
    BY LenProperties DEF HtmlInv, HtmlNext, LooseText, StrayLess, Element, Title, OtherTag
<1>2. cursor + 1 \in Nat /\ cursor < cursor + 1 /\ cursor + 1 <= Len(page) /\ \A i \in cursor + 1 .. cursor + 1 : i = cursor + 1
    BY <1>1
<1>3. CASE LooseText
    <2> DEFINE tags == {k \in Rest : page[k] # <<"text">>}
               end == IF tags = {} THEN Len(page) ELSE Min(tags) - 1
    <2>1. Emit("text", cursor + 1, end, end) /\ page[cursor + 1] = <<"text">>
        BY <1>3 DEF LooseText
    <2>2. end \in Nat /\ cursor < end /\ end <= Len(page)
        <3>1. CASE tags = {}
            BY <1>1, <3>1
        <3>2. CASE tags # {}
            <4>1. tags \subseteq Rest
                OBVIOUS
            <4>2. Min(tags) \in tags /\ Min(tags) \in Nat /\ cursor < Min(tags) /\ Min(tags) <= Len(page)
                BY <3>2, <4>1, FirstAhead
            <4>3. Min(tags) # cursor + 1
                BY <2>1, <4>2
            <4> QED BY <1>1, <3>2, <4>2, <4>3
        <3> QED BY <3>1, <3>2
    <2> HIDE DEF end
    <2>3. \A i \in cursor + 1 .. end : page[i] = <<"text">> => i \in cursor + 1 .. end
        OBVIOUS
    <2> QED BY <1>2, <2>1, <2>2, <2>3, EmitKeeps
<1>4. CASE StrayLess
    <2> DEFINE ends == {k \in Rest : IsTag(k)}
               to == IF ends = {} THEN Len(page) ELSE Min(ends)
    <2>1. PassTo(to) /\ page[cursor + 1] = <<"lt">>
        BY <1>4 DEF StrayLess
    <2>2. to \in Nat /\ cursor < to /\ to <= Len(page)
        <3>1. CASE ends = {}
            BY <1>1, <3>1
        <3>2. CASE ends # {}
            <4>1. ends \subseteq Rest
                OBVIOUS
            <4> QED BY <3>2, <4>1, FirstAhead
        <3> QED BY <3>1, <3>2
    <2> HIDE DEF to
    <2>3. \A i \in cursor + 1 .. to : Swallowed(i)
        <3> TAKE i \in cursor + 1 .. to
        <3>1. cursor + 1 \in 1 .. i
            BY <1>1, <2>2
        <3> QED BY <2>1, <3>1 DEF Swallowed
    <2> QED BY <2>1, <2>2, <2>3, PassKeeps
<1>5. CASE Element
    <2> DEFINE ends == {k \in Rest : page[k] = Closing("block")}
    <2>1. page[cursor + 1] = Opening("block") /\ page[cursor + 1] # <<"text">>
        BY <1>5, TextIsNoTag DEF Element
    <2>2. CASE ends = {}
        <3>1. PassTo(cursor + 1)
            BY <1>5, <2>2 DEF Element
        <3> QED BY <1>2, <2>1, <3>1, PassKeeps
    <2>3. CASE ends # {}
        <3>1. ends \subseteq Rest
            OBVIOUS
        <3>2. PICK m \in Nat : m = Min(ends) /\ m \in ends /\ cursor < m /\ m <= Len(page)
            BY <2>3, <3>1, FirstAhead
        <3> DEFINE upto == Lesser(m - 1, cursor + 1 + MaxHeld)
        <3>3. Emit("block", cursor + 2, upto, m)
            BY <1>5, <2>3, <3>2 DEF Element
        <3>4. page[m] = Closing("block") /\ page[m] # <<"text">>
            BY <3>2, TextIsNoTag
        <3>5. upto \in Nat /\ upto <= m - 1 /\ (upto = m - 1 \/ upto = cursor + 1 + MaxHeld)
            BY <1>1, <3>2, BrowserAssumption DEF Lesser
        <3>6. \A i \in cursor + 1 .. m : page[i] = <<"text">> => i \in cursor + 2 .. upto \/ CutOff(i)
            <4> SUFFICES ASSUME NEW i \in cursor + 1 .. m, page[i] = <<"text">>, i \notin cursor + 2 .. upto
                         PROVE  CutOff(i)
                OBVIOUS
            <4>1. i # cursor + 1 /\ i # m
                BY <2>1, <3>4
            <4>2. i > cursor + 1 + MaxHeld /\ cursor + 1 \in 1 .. i /\ m \in i .. Len(page)
                BY <1>1, <3>2, <3>5, <4>1, BrowserAssumption
            <4> QED BY <2>1, <3>4, <4>2 DEF CutOff
        <3>7. cursor + 2 \in Nat /\ cursor < cursor + 2 /\ upto <= m
            BY <1>1, <3>2, <3>5
        <3> HIDE DEF ends, upto
        <3> QED BY <3>2, <3>3, <3>5, <3>6, <3>7, EmitKeeps
    <2> QED BY <2>2, <2>3
<1>6. CASE Title
    <2> DEFINE ends == {k \in Rest : page[k] = Closing("title")}
    <2>1. page[cursor + 1] = Opening("title") /\ page[cursor + 1] # <<"text">>
        BY <1>6, TextIsNoTag DEF Title
    <2>2. CASE ends = {}
        <3>1. PassTo(cursor + 1)
            BY <1>6, <2>2 DEF Title
        <3> QED BY <1>2, <2>1, <3>1, PassKeeps
    <2>3. CASE ends # {}
        <3>1. ends \subseteq Rest
            OBVIOUS
        <3>2. PICK m \in Nat : m = Min(ends) /\ m \in ends /\ cursor < m /\ m <= Len(page)
            BY <2>3, <3>1, FirstAhead
        <3>3. PassTo(m) /\ page[m] = Closing("title")
            BY <1>6, <2>3, <3>2 DEF Title
        <3>4. \A i \in cursor + 1 .. m : InTitle(i)
            <4> TAKE i \in cursor + 1 .. m
            <4>1. cursor + 1 \in 1 .. i /\ m \in i .. Len(page)
                BY <1>1, <3>2
            <4> QED BY <2>1, <3>3, <4>1 DEF InTitle
        <3> HIDE DEF ends
        <3> QED BY <3>2, <3>3, <3>4, PassKeeps
    <2> QED BY <2>2, <2>3
<1>7. CASE OtherTag
    <2>1. page[cursor + 1] # <<"text">>
        BY <1>7, TextIsNoTag DEF OtherTag
    <2>2. CASE Emit("rule", cursor + 1, cursor, cursor + 1)
        <3>1. \A i \in cursor + 1 .. cursor + 1 : page[i] = <<"text">> => i \in cursor + 1 .. cursor
            BY <1>2, <2>1
        <3>2. cursor <= cursor + 1
            BY <1>1
        <3> QED BY <1>1, <1>2, <2>2, <3>1, <3>2, EmitKeeps
    <2>3. CASE PassTo(cursor + 1)
        BY <1>2, <2>1, <2>3, PassKeeps
    <2> QED BY <1>7, <2>2, <2>3 DEF OtherTag
<1> QED BY <1>3, <1>4, <1>5, <1>6, <1>7 DEF HtmlNext

LEMMA TextIsOut == HtmlInv => TextComesOutOnce
<1> SUFFICES ASSUME HtmlInv, NEW i \in 1 .. Len(page), page[i] = <<"text">>
             PROVE  LET n == Cardinality({k \in DOMAIN blocks : i \in blocks[k].held})
                    IN  n <= 1 /\ (i <= cursor => n = 1 \/ InTitle(i) \/ Swallowed(i) \/ CutOff(i))
    BY DEF TextComesOutOnce
<1> DEFINE K == {k \in DOMAIN blocks : i \in blocks[k].held}
<1>1. DOMAIN blocks = 1 .. Len(blocks) /\ cursor \in Nat /\ Len(page) \in Nat
    BY LenProperties DEF HtmlInv
<1>2. \A k, l \in K : k = l
    BY <1>1 DEF HtmlInv
<1>3. K = {} \/ \E k : K = {k}
    BY <1>2
<1>4. Cardinality(K) = 0 \/ Cardinality(K) = 1
    BY <1>3, FS_EmptySet, FS_Singleton
<1>5. K # {} => Cardinality(K) = 1
    BY <1>3, FS_Singleton
<1>6. i <= cursor => K # {} \/ InTitle(i) \/ Swallowed(i) \/ CutOff(i)
    <2> SUFFICES ASSUME i <= cursor PROVE K # {} \/ InTitle(i) \/ Swallowed(i) \/ CutOff(i)
        OBVIOUS
    <2>1. Out(i)
        BY <1>1 DEF HtmlInv
    <2> QED BY <1>1, <2>1 DEF Out
<1> HIDE DEF K
<1> QED BY <1>4, <1>5, <1>6 DEF K

(* For any addresses, histories of any length and pages of any length: the  *)
(* history points at the page shown and holds no page twice in a row, and   *)
(* the text of a page comes out in one block, a title, what a stray '<'     *)
(* takes with it and what exceeds the limit of an element excepted.         *)
THEOREM BrowserIsSound == BrowserSpec => []BrowserSound
<1>1. BrInit /\ HtmlInit => Visits(br) /\ HtmlInv
    BY BrowserStarts, HtmlStarts
<1>2. Visits(br) /\ HtmlInv /\ [BrNext \/ HtmlNext]_brVars => (Visits(br) /\ HtmlInv)'
    <2> SUFFICES ASSUME Visits(br), HtmlInv, [BrNext \/ HtmlNext]_brVars PROVE (Visits(br) /\ HtmlInv)'
        OBVIOUS
    <2>1. ASSUME UNCHANGED parserVars PROVE HtmlInv'
        BY <2>1 DEF parserVars, HtmlInv, Out, InTitle, Swallowed, CutOff
    <2>2. ASSUME UNCHANGED br PROVE Visits(br)'
        BY <2>2 DEF Visits
    <2>3. CASE BrNext
        BY <2>1, <2>3, BrowsingKeeps DEF Visits
    <2>4. CASE HtmlNext
        <3>1. UNCHANGED br
            BY <2>4 DEF HtmlNext, LooseText, StrayLess, Element, Title, OtherTag, Emit, PassTo
        <3> QED BY <2>2, <2>4, <3>1, HtmlKeeps
    <2>5. CASE UNCHANGED brVars
        BY <2>1, <2>2, <2>5 DEF brVars, parserVars
    <2> QED BY <2>3, <2>4, <2>5
<1>3. Visits(br) /\ HtmlInv => BrowserSound
    BY TextIsOut DEF Visits, BrowserSound, VisitAgrees, BackLeadsElsewhere
<1> QED BY <1>1, <1>2, <1>3, PTL DEF BrowserSpec
=============================================================================
