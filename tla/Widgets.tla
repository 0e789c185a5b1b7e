------------------------------ MODULE Widgets ------------------------------
(* The widget library of user programs (libspark_ui): every widget's handler *)
(* and drawing, and the tree that hands events to its nodes, children before *)
(* their parent, until one takes it, and draws the dirty ones, the parent    *)
(* before its children.  A widget has Width columns.  Children lie inside    *)
(* their parent, beside each other and off the strip, box or bar that is all *)
(* some parents paint; labels fit, typed text need not.  A handler returns   *)
(* true exactly when it has set dirty: it is the set of states it may leave, *)
(* empty when it returns false.                                              *)
EXTENDS Integers, Sequences

CONSTANTS Trees,      \* nodes, numbered as dispatch_node visits them: kind, least descendant, and who is on whose right
          Width,      \* columns of a widget
          SliderMin, SliderMax, \* the range of a slider
          Items,      \* entries of a dropdown, and tabs of a tab view
          MaxScroll, ScrollStep, \* content_height - bounds.h, and the step of an arrow key
          BoxChars,   \* characters that fit into a text box
          MaxEventsW  \* bound: events dispatched to one tree
ASSUME WidgetAssumption ==
    /\ \A t \in Trees : t.kind \in Seq(STRING) /\ t.first \in [1 .. Len(t.kind) -> Nat]
    /\ Width \in Nat /\ Items \in 1 .. Width /\ BoxChars \in Nat
    /\ SliderMin \in Int /\ SliderMax \in Int /\ SliderMin <= SliderMax /\ MaxScroll \in Nat /\ ScrollStep \in Nat

Keys3 == {"up", "down", "esc", "letter"} \* 0x48 and 0x50, which are also H and P, 0x1B and any other character
Nothing == <<>>        \* of the screen: not drawn, or painted over
Nowhere == 0           \* of an event: on no widget
VARIABLES tree,       \* the tree, its root last
          st,         \* node -> the fields of the widget
          dirtyW,     \* nodes with dirty set
          screen,     \* node -> what the surface shows within its bounds
          uiEvents    \* events dispatched
widgetVars == <<tree, st, dirtyW, screen, uiEvents>>

Nodes3 == 1 .. Len(tree.kind)
Descendant(i, j) == i \in tree.first[j] .. j - 1
When(p, t) == IF p THEN {t} ELSE {}
Inside(e, i) == e.on = i \/ Descendant(e.on, i)
Click(e, i) == e.kind = "click" /\ Inside(e, i)
Key(e, k) == e.kind = "key" /\ e.key = k
Events3 == [kind : {"click", "move"}, on : Nodes3 \cup {Nowhere}, at : 0 .. Width - 1] \cup [kind : {"key"}, key : Keys3]
-----------------------------------------------------------------------------
(* The widgets: new, handle_event and draw of each. *)
ButtonNew == [hovered |-> FALSE, clicked |-> FALSE]
ButtonEvent(i, s, e) ==
    {t \in When(e.kind = "move", [s EXCEPT !.hovered = Inside(e, i)]) : t # s}
    \cup When(Click(e, i), [s EXCEPT !.clicked = TRUE])
ButtonDraw(s) == IF s.clicked THEN <<"pressed">> ELSE IF s.hovered THEN <<"under the pointer">> ELSE <<"plain">>

CheckEvent(i, s, e) == When(Click(e, i), ~s)
CheckDraw(s) == IF s THEN <<"checked">> ELSE <<"unchecked">>

(* The quotient is computed exactly; the code's f32 may land one below it. *)
SlideTo(at) == SliderMin + (at * (SliderMax - SliderMin)) \div Width
SliderEvent(i, s, e) == When(Click(e, i), SlideTo(e.at))
(* The track is painted over its height alone, the handle over the height of *)
(* the bounds: above and below the track, which is not modelled, every       *)
(* handle drawn before stays.                                                *)
HandleAt(s) == ((s - SliderMin) * (Width - 1)) \div (IF SliderMax = SliderMin THEN 1 ELSE SliderMax - SliderMin)
SliderDraw(s) == <<HandleAt(s)>>

Following3(s) == (s + 1) % Items
DropEvent(i, s, e) == When(Click(e, i), Following3(s))
DropDraw(s) == <<s>>

TabAt(at) == at \div (Width \div Items)
TabEvent(i, s, e) == {t \in When(e.kind = "click" /\ e.on = i, TabAt(e.at)) : t < Items /\ t # s}
TabDraw(s) == [i \in 1 .. Items |-> i - 1 = s]

ClampScroll(y) == IF y < 0 THEN 0 ELSE IF y > MaxScroll THEN MaxScroll ELSE y
ScrollEvent(s, e) ==
    When(Key(e, "up"), ClampScroll(s - ScrollStep)) \cup When(Key(e, "down"), ClampScroll(s + ScrollStep))
ScrollDraw == <<"bar">>

(* Mutant: Escape does not close it. *)
DialogStays(s, e) == When(Key(e, "esc"), s)
(* Hidden, it still takes the key, and what was drawn is not removed. *)
DialogEvent(s, e) == When(Key(e, "esc"), FALSE)
DialogDraw(s, old) == IF s THEN <<"dialog">> ELSE old

LabelDraw == <<"label">>

(* A click anywhere else takes the focus away, and is used up by that. *)
BoxNew == [focused |-> FALSE, text |-> 0]
BoxEvent(i, s, e) ==
    When(e.kind = "click" /\ s.focused # Inside(e, i), [s EXCEPT !.focused = ~s.focused])
    \cup When(s.focused /\ e.kind = "key" /\ e.key # "esc", [s EXCEPT !.text = @ + 1])
BoxDraw(s) == <<s.focused, s.text>>
-----------------------------------------------------------------------------
(* The tree. *)
NewOf(w) ==
    CASE w = "button" -> ButtonNew [] w = "check" -> FALSE [] w = "slider" -> SliderMin [] w = "dialog" -> TRUE
      [] w = "box" -> BoxNew [] OTHER -> 0
HandleEvent(i, w, s, e) ==
    CASE w = "button" -> ButtonEvent(i, s, e) [] w = "check" -> CheckEvent(i, s, e) [] w = "slider" -> SliderEvent(i, s, e)
      [] w = "drop" -> DropEvent(i, s, e) [] w = "tabs" -> TabEvent(i, s, e) [] w = "scroll" -> ScrollEvent(s, e)
      [] w = "dialog" -> DialogEvent(s, e) [] w = "box" -> BoxEvent(i, s, e) [] OTHER -> {}
DrawnAs(w, s, old) ==
    CASE w = "button" -> ButtonDraw(s) [] w = "check" -> CheckDraw(s) [] w = "slider" -> SliderDraw(s)
      [] w = "drop" -> DropDraw(s) [] w = "tabs" -> TabDraw(s) [] w = "scroll" -> ScrollDraw
      [] w = "dialog" -> DialogDraw(s, old) [] w = "label" -> LabelDraw [] OTHER -> BoxDraw(s)

(* set_root, and the children that the program hangs below it. *)
NewWidgets(t) == [i \in 1 .. Len(t.kind) |-> NewOf(t.kind[i])]
Unpainted(t) == [i \in 1 .. Len(t.kind) |-> Nothing]
WidgetInit ==
    /\ tree \in Trees /\ st = NewWidgets(tree) /\ dirtyW = Nodes3
    /\ screen = Unpainted(tree) /\ uiEvents = 0
SetRoot ==
    /\ tree' \in Trees /\ st' = NewWidgets(tree') /\ dirtyW' = Nodes3'
    /\ screen' = Unpainted(tree') /\ uiEvents' = 0

Takers(e) == {i \in Nodes3 : HandleEvent(i, tree.kind[i], st[i], e) # {}}
(* dispatch_event: the first node that takes the event ends it. *)
Dispatch(e) ==
    /\ uiEvents < MaxEventsW /\ uiEvents' = uiEvents + 1 /\ UNCHANGED <<tree, screen>>
    /\ \/ Takers(e) = {} /\ UNCHANGED <<st, dirtyW>>
       \/ \E i \in Takers(e) : /\ \A j \in Takers(e) : i <= j
                               /\ \E s \in HandleEvent(i, tree.kind[i], st[i], e) : st' = [st EXCEPT ![i] = s]
                               /\ dirtyW' = dirtyW \cup {i}

(* render_dirty.  Some widgets paint all of their bounds, and with that      *)
(* whatever lies in them; typed text that is too long goes on to the right.  *)
PaintsAll(j) == tree.kind[j] \in {"button", "drop", "box"} \/ (tree.kind[j] = "dialog" /\ st[j])
TooLong(j) == tree.kind[j] = "box" /\ st[j].text > BoxChars
PaintsOn(j, i) == (Descendant(i, j) /\ PaintsAll(j)) \/ (<<j, i>> \in tree.right /\ TooLong(j))
DrawnBefore(i, j) == Descendant(j, i) \/ (i < j /\ ~Descendant(i, j))
Before3(i) == IF \E j \in dirtyW : PaintsOn(j, i) /\ DrawnBefore(j, i) THEN Nothing ELSE screen[i]
PaintedOver(i) == \E j \in dirtyW : PaintsOn(j, i) /\ (i \in dirtyW => DrawnBefore(i, j))
RenderDirty ==
    /\ dirtyW # {} /\ dirtyW' = {} /\ UNCHANGED <<tree, st, uiEvents>>
    /\ screen' = [i \in Nodes3 |-> IF PaintedOver(i) THEN Nothing
                                  ELSE IF i \in dirtyW THEN DrawnAs(tree.kind[i], st[i], Before3(i)) ELSE screen[i]]

WidgetNext == SetRoot \/ (\E e \in Events3 : Dispatch(e)) \/ RenderDirty
WidgetSpec == WidgetInit /\ [][WidgetNext]_widgetVars
-----------------------------------------------------------------------------
(* What the user sees of a widget that is not waiting to be drawn is its     *)
(* present state: no handler forgets dirty, at any depth of the tree.  It is *)
(* painted over only inside a button, a dropdown or a text box, or on the    *)
(* right of a box with too long a text, never inside a dialog, a tab or a    *)
(* scroll view.  A dialog that was closed keeps its picture, and a slider    *)
(* the traces of its handle beside the track (libspark_ui.rs: render_node).  *)
MaySpoil(j, i) ==
    \/ Descendant(i, j) /\ tree.kind[j] \in {"button", "drop", "box"}
    \/ <<j, i>> \in tree.right /\ TooLong(j)
ScreenIsCurrent ==
    \A i \in Nodes3 \ dirtyW :
        \/ tree.kind[i] = "dialog" /\ ~st[i]
        \/ screen[i] = DrawnAs(tree.kind[i], st[i], Nothing)
        \/ screen[i] = Nothing /\ \E j \in Nodes3 : MaySpoil(j, i)

(* After any clicks and keys a slider is within its range, a view within its *)
(* content, and the chosen tab and item exist (libspark_ui.rs: the clamps,   *)
(* the wrap and the division by the width of a tab).                         *)
WidgetsInRange ==
    \A i \in Nodes3 :
        /\ tree.kind[i] = "slider" => st[i] \in SliderMin .. SliderMax
        /\ tree.kind[i] = "scroll" => st[i] \in 0 .. MaxScroll
        /\ tree.kind[i] \in {"drop", "tabs"} => st[i] \in 0 .. Items - 1

(* The screen shows the state of every widget that is not marked dirty, but  *)
(* for those below or beside a widget that paints over them, and no value or *)
(* scroll position leaves its range, whatever events come.                   *)
WidgetsSound == ScreenIsCurrent /\ WidgetsInRange
=============================================================================
