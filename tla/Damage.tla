------------------------------- MODULE Damage -------------------------------
(* The damaged regions the compositor redraws (kernel/src/damage.rs) and    *)
(* the thread that redraws them (compositor_thread in kernel/src/wm.rs).    *)
EXTENDS Naturals, Integers, Sequences, FiniteSets, FiniteSetsExt

CONSTANTS
    ScreenCols, ScreenRows,     \* the screen, in cells
    Marks,                      \* rectangles [x, y, w, h] that are marked
    MaxRects                    \* length of the array rects (4 in the code)

VARIABLES
    rects,          \* rects[..count]
    bounds,         \* current_damage, Empty for None
    forceFull,      \* force_full_redraw
    stale           \* cells of the screen whose content has changed since they were drawn

dmgVars == <<rects, bounds, forceFull, stale>>

Empty == [x |-> 0, y |-> 0, w |-> 0, h |-> 0]
IsEmpty(r) == r.w = 0 \/ r.h = 0
Area(r) == r.w * r.h
Cells(r) == (r.x..(r.x + r.w - 1)) \X (r.y..(r.y + r.h - 1))
Whole == [x |-> 0, y |-> 0, w |-> ScreenCols, h |-> ScreenRows]

(* DamageRegion::union, the bounding box. *)
Box(a, b) ==
    LET x0 == Min({a.x, b.x})
        y0 == Min({a.y, b.y})
    IN CASE IsEmpty(a) -> b
         [] IsEmpty(b) /\ ~IsEmpty(a) -> a
         [] OTHER -> [x |-> x0, y |-> y0, w |-> Max({a.x + a.w, b.x + b.w}) - x0,
                      h |-> Max({a.y + a.h, b.y + b.h}) - y0]

ClampToScreen(r) ==
    LET x0 == Max({r.x, 0})
        y0 == Max({r.y, 0})
        x1 == Min({r.x + r.w, ScreenCols})
        y1 == Min({r.y + r.h, ScreenRows})
    IN IF IsEmpty(r) \/ x1 <= x0 \/ y1 <= y0 THEN Empty
       ELSE [x |-> x0, y |-> y0, w |-> x1 - x0, h |-> y1 - y0]

(* Rectangles of rs that cost no less drawn apart from r than with it. *)
Worthwhile(rs, r) == {i \in DOMAIN rs : Area(Box(rs[i], r)) <= Area(rs[i]) + Area(r)}

(* The loop of add_rect: take in the first such rectangle, the last one     *)
(* filling its slot, and begin again.                                       *)
RECURSIVE Absorb(_, _)
Absorb(rs, r) ==
    IF Worthwhile(rs, r) = {} THEN <<rs, r>>
    ELSE LET i == Min(Worthwhile(rs, r))
             n == Len(rs)
         IN Absorb([k \in 1..(n - 1) |-> IF k = i THEN rs[n] ELSE rs[k]], Box(rs[i], r))

(* The slot that grows least, when no slot is free. *)
Growth(rs, i, r) == Area(Box(rs[i], r)) - Area(rs[i])
BestSlot(rs, r) ==
    CHOOSE i \in DOMAIN rs : \A k \in DOMAIN rs :
        Growth(rs, i, r) < Growth(rs, k, r) \/ (Growth(rs, i, r) = Growth(rs, k, r) /\ i <= k)

Stored(rs, r) ==
    IF Len(rs) < MaxRects THEN Append(rs, r)
    ELSE LET b == BestSlot(rs, r) IN [rs EXCEPT ![b] = Box(rs[b], r)]

(* Mutant: a full tracker drops the new rectangle. *)
AddedIfRoom(rs, r) == LET a == Absorb(rs, r) IN IF Len(a[1]) < MaxRects THEN Append(a[1], a[2]) ELSE a[1]

Added(rs, r) == LET a == Absorb(rs, r) IN Stored(a[1], a[2])

DmgInit ==
    /\ rects = <<>> /\ bounds = Empty /\ forceFull = TRUE
    /\ stale = Cells(Whole)

(* add_bounds, after the picture inside r changed. *)
AddBounds(r) ==
    /\ bounds' = Box(bounds, r)
    /\ rects' = Added(rects, r)
    /\ stale' = stale \cup (Cells(r) \cap Cells(Whole))
    /\ UNCHANGED forceFull

AddFullScreen ==
    /\ forceFull' = TRUE
    /\ bounds' = Box(bounds, Whole)
    /\ rects' = Added(rects, Whole)
    /\ stale' = Cells(Whole)

IsDamaged == forceFull \/ ~IsEmpty(bounds)

(* take_regions: what the frame draws. *)
TakenRegions ==
    IF forceFull THEN {Whole} ELSE {ClampToScreen(rects[i]) : i \in DOMAIN rects} \ {Empty}
Drawn == UNION {Cells(r) : r \in TakenRegions}

(* A frame of compositor_thread. *)
Composite ==
    /\ IsDamaged
    /\ stale' = stale \ Drawn
    /\ rects' = <<>> /\ bounds' = Empty /\ forceFull' = FALSE

DmgNext ==
    \/ \E r \in Marks : AddBounds(r)
    \/ AddFullScreen
    \/ Composite

(* Type correctness. *)
DmgTypeOK ==
    /\ Len(rects) <= MaxRects
    /\ \A i \in DOMAIN rects : rects[i] \in [x : Int, y : Int, w : Nat \ {0}, h : Nat \ {0}]
    /\ stale \subseteq Cells(Whole)

(* No damage is lost when rectangles are merged, replaced or clipped: the    *)
(* next frame covers every cell that has changed, and the cheap test the     *)
(* compositor makes first (is_damaged) does not miss it.                     *)
DamageIsCovered ==
    /\ stale \subseteq Drawn
    /\ stale # {} => IsDamaged

(* The rectangles stay inside the bounding box that is_damaged looks at.     *)
RectsInBounds ==
    \A i \in DOMAIN rects : Cells(rects[i]) \subseteq Cells(bounds)

(* Whatever was marked and not drawn is in the rectangles, inside the        *)
(* screen, although they are merged when there are too many (damage.rs).     *)
DamageSound == DmgTypeOK /\ DamageIsCovered /\ RectsInBounds
=============================================================================
