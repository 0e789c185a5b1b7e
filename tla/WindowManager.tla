--------------------------- MODULE WindowManager ---------------------------
(* The windows of the desktop (kernel/src/wm.rs).  The mouse thread, the    *)
(* keyboard thread and the system calls of the programs each take the lock  *)
(* WM for a whole operation, so an action here is one such operation.       *)
(*                                                                          *)
(* A window's geometry is its place x, its width and the row y of its top   *)
(* edge; of its height only this is kept, that the window asked for may be  *)
(* so tall that the range create_window clamps y to is empty, which is a    *)
(* panic.  (The other ranges of rows hold at least one row: a top edge lies *)
(* below the panel and a window has its least height.)  Lengths are         *)
(* multiples of a few pixels.  What an operation marks as damaged is the    *)
(* business of module Damage.  COMP_OP_FOCUS_WINDOW, which sets the focus   *)
(* to any number, is left out: no program and no test sends it.             *)
EXTENDS Naturals, Integers, Sequences, FiniteSets, SequencesExt

CONSTANTS
    Apps,           \* processes that own windows
    MaxWindows,     \* windows ever made (bound)
    ScreenW,        \* width of the screen
    MinW,           \* MIN_WINDOW_WIDTH
    Overhang,       \* how far a window may leave the screen on the left
    Grab,           \* how much of it stays on the screen on the right
    Margin,         \* how far beside an edge a press still takes it
    NewGeoms,       \* geometries programs ask for
    DragTo,         \* places <<x, y>> the mouse drags windows to
    MoveTo,         \* places programs move their windows to
    Stretch         \* distances by which edges are pulled

ASSUME WmAssumption ==
    /\ MinW \in Nat \ {0} /\ Overhang \in 0..(MinW - 1) /\ Grab \in 1..MinW /\ Margin \in Nat
    /\ ScreenW \in Nat /\ ScreenW \div 2 >= MinW

None == 0
WorkTop == 1

VARIABLES
    windows,        \* back to front
    nextWindow,     \* next_window_id
    focus,          \* focused_window
    mru,            \* mru_list
    altTab,         \* the switcher
    dragging, resizing, pending, lastClick,     \* ids of windows, or None
    edge,           \* what resizing_window remembers
    button,         \* the mouse button is down (last_click)
    running,        \* processes that are neither exited nor purged
    owned,          \* owned_windows of their control blocks
    wiped,          \* ids removed by cleanup_windows_for_pid
    killed,         \* processes ended without it
    halted          \* the clamp that panicked with the lock held, or "no"

wmVars == <<windows, nextWindow, focus, mru, altTab, dragging, resizing, pending,
            lastClick, edge, button, running, owned, wiped, killed, halted>>
transient == <<dragging, resizing, pending, lastClick, edge>>

States == {"Normal", "Minimized", "Maximized", "Fullscreen", "SnappedLeft", "SnappedRight"}

Ids == {windows[i].id : i \in DOMAIN windows}
IdsOf(ws) == {ws[i].id : i \in DOMAIN ws}
Position(id) == CHOOSE i \in DOMAIN windows : windows[i].id = id
Win(id) == windows[Position(id)]
Put(id, w) == [windows EXCEPT ![Position(id)] = w]
Geom(w) == <<w.x, w.y, w.w>>
WithGeom(w, g) == [w EXCEPT !.x = g[1], !.y = g[2], !.w = g[3]]
Clamp(v, lo, hi) == IF v < lo THEN lo ELSE IF v > hi THEN hi ELSE v

(* Where the code puts a window in each state but Normal. *)
Place(st) ==
    CASE st = "Maximized" -> <<0, WorkTop, ScreenW>>
      [] st = "Fullscreen" -> <<0, 0, ScreenW>>
      [] st = "SnappedLeft" -> <<0, WorkTop, ScreenW \div 2>>
      [] st = "SnappedRight" -> <<ScreenW \div 2, WorkTop, ScreenW - (ScreenW \div 2)>>

(* The geometry an un-maximized window returns to. *)
BackOnScreen(g) ==
    <<Clamp(g[1], 0, ScreenW - MinW), IF g[2] < WorkTop THEN WorkTop ELSE g[2],
      Clamp(g[3], MinW, ScreenW)>>

(* The most recently used windows, id first, those without a window gone. *)
Touched(ws, id) ==
    SelectSeq(<<id>> \o SelectSeq(mru, LAMBDA m : m # id), LAMBDA m : m \in IdsOf(ws))

(* The topmost window of ws that is shown. *)
Shown(w) == w.visible /\ w.state # "Minimized"
TopShown(ws) ==
    LET n == SelectLastInSeq(ws, Shown) IN IF n = 0 THEN None ELSE ws[n].id

FocusOn(ws, id) == [i \in DOMAIN ws |-> [ws[i] EXCEPT !.focused = ws[i].id = id]]


(* Focus moves to the topmost window that is shown, once ws are the windows. *)
TransferFocus(ws) ==
    LET f == TopShown(ws) IN
    /\ focus' = f
    /\ windows' = FocusOn(ws, f)
    /\ mru' = IF f = None THEN SelectSeq(mru, LAMBDA m : m \in IdsOf(ws)) ELSE Touched(ws, f)

(* raise_to_top_internal on the windows ws. *)
RaiseToTop(ws, id) ==
    IF ws[Len(ws)].id = id /\ focus = id
    THEN windows' = ws /\ UNCHANGED <<focus, mru>>
    ELSE LET at == CHOOSE i \in DOMAIN ws : ws[i].id = id IN
         /\ windows' = FocusOn(Append(RemoveAt(ws, at), ws[at]), id)
         /\ focus' = id
         /\ mru' = Touched(ws, id)

(* The switcher when it is not shown: the next press overwrites the rest. *)
Idle == [active |-> FALSE, candidates |-> <<>>, selected |-> 0]
NoEdge == [side |-> "none", x |-> 0, w |-> 0]
WmInit ==
    /\ windows = <<>> /\ nextWindow = 1 /\ focus = None /\ mru = <<>>
    /\ altTab = Idle
    /\ dragging = None /\ resizing = None /\ pending = None /\ lastClick = None
    /\ edge = NoEdge
    /\ button = FALSE
    /\ running = {} /\ owned = [a \in Apps |-> {}] /\ wiped = {}
    /\ killed = {} /\ halted = "no"

----------------------------------------------------------------------------
(* Programs.                                                               *)

(* A process starts; its first window is made by SpawnWindow. *)
StartProcess(a) ==
    /\ a \notin running \cup killed /\ owned[a] = {}
    /\ running' = running \cup {a}
    /\ UNCHANGED <<windows, nextWindow, focus, mru, altTab, transient, button, owned, wiped>>

(* create_window: the new window is on top and has the focus.  One that     *)
(* leaves no row for its title bar between the panels is not made, but y is *)
(* clamped to an empty range: PanicInCreate.                                *)
CreateWindow(a, g) ==
    /\ a \in running /\ nextWindow <= MaxWindows
    /\ LET w == Clamp(g[3], MinW, ScreenW)
           at == <<Clamp(g[1], 0, ScreenW - w), IF g[2] < WorkTop THEN WorkTop ELSE g[2], w>>
           new == [id |-> nextWindow, owner |-> a, x |-> at[1], y |-> at[2], w |-> w,
                   visible |-> TRUE, focused |-> TRUE, state |-> "Normal", prev |-> "Normal",
                   normal |-> at]
           ws == Append(FocusOn(windows, None), new)
       IN /\ windows' = ws
          /\ mru' = Touched(ws, nextWindow)
    /\ focus' = nextWindow
    /\ nextWindow' = nextWindow + 1
    /\ owned' = [owned EXCEPT ![a] = @ \cup {nextWindow}]
    /\ UNCHANGED <<altTab, transient, button, running, wiped>>

Stopped(why) ==
    /\ halted' = why
    /\ UNCHANGED <<windows, nextWindow, focus, mru, altTab, transient, button, running, owned, wiped, killed>>

PanicInCreate(a) == a \in running /\ Stopped("tall")

(* The windows left once those of ids are destroyed, and who has the focus. *)
FocusAfterRemoval(ids) ==
    LET ws == SelectSeq(windows, LAMBDA w : w.id \notin ids) IN
    IF focus \in ids
    THEN TransferFocus(ws)
    ELSE /\ windows' = ws
         /\ mru' = SelectSeq(mru, LAMBDA m : m \notin ids /\ m \in IdsOf(ws))
         /\ UNCHANGED focus

DropCandidates(ids) ==
    altTab' = [altTab EXCEPT !.candidates = SelectSeq(@, LAMBDA m : m \notin ids)]

(* destroy_window, called by caller (itself, or None for the desktop's own *)
(* threads): a UI-bound process whose last window another closes is ended, *)
(* when its address space could be released.                               *)
DestroyWindow(id, caller, released) ==
    LET a == Win(id).owner
        last == \A i \in DOMAIN windows : windows[i].owner = a => windows[i].id = id
        ended == last /\ caller # a /\ released
    IN /\ FocusAfterRemoval({id})
       /\ DropCandidates({id})
       /\ pending' = IF pending = id THEN None ELSE pending
       /\ owned' = [owned EXCEPT ![a] = IF ended THEN {} ELSE @ \ {id}]
       /\ running' = IF ended THEN running \ {a} ELSE running
       /\ UNCHANGED <<nextWindow, dragging, resizing, lastClick, edge, wiped>>

SysDestroyWindow(id) ==
    Win(id).owner \in running /\ DestroyWindow(id, Win(id).owner, FALSE) /\ UNCHANGED button

(* move_window does not look at the state of the window. *)
MoveWindow(id, to) ==
    LET w == Win(id)
        moved == [w EXCEPT !.x = Clamp(to[1], 0 - Overhang, ScreenW - Grab),
                           !.y = IF to[2] < WorkTop THEN WorkTop ELSE to[2]]
    IN /\ w.owner \in running
       /\ windows' = Put(id, IF w.state = "Normal" THEN [moved EXCEPT !.normal = Geom(moved)] ELSE moved)
       /\ UNCHANGED <<nextWindow, focus, mru, altTab, transient, button, running, owned, wiped>>

MinimizeWindow(id) ==
    LET w == Win(id)
        ws == Put(id, [w EXCEPT !.prev = IF w.state = "Minimized" THEN @ ELSE w.state,
                                !.visible = FALSE, !.focused = FALSE, !.state = "Minimized"])
    IN IF focus = id THEN TransferFocus(ws) ELSE windows' = ws /\ UNCHANGED <<focus, mru>>

RestoreWindow(id) ==
    LET w == Win(id)
        st == IF w.state = "Minimized" THEN w.prev ELSE w.state
        back == [w EXCEPT !.visible = TRUE, !.state = IF st = "Minimized" THEN "Normal" ELSE st]
        g == IF back.state = "Normal" THEN w.normal ELSE Place(back.state)
    IN RaiseToTop(Put(id, WithGeom(back, g)), id)

(* SYS_MINIMIZE_WINDOW and SYS_RESTORE_WINDOW. *)
SysMinimize(id) ==
    Win(id).owner \in running /\ MinimizeWindow(id) /\ UNCHANGED <<nextWindow, altTab, transient, button, running, owned, wiped>>
SysRestore(id) ==
    Win(id).owner \in running /\ RestoreWindow(id) /\ UNCHANGED <<nextWindow, altTab, transient, button, running, owned, wiped>>

(* What a window keeps when it leaves the state Normal for st. *)
Leaving(w, st) ==
    [WithGeom(w, Place(st)) EXCEPT !.normal = IF w.state = "Normal" THEN Geom(w) ELSE @, !.state = st]

ToggleMaximize(id) ==
    LET w == Win(id) IN
    RaiseToTop(Put(id, IF w.state = "Maximized"
                       THEN [WithGeom(w, BackOnScreen(w.normal)) EXCEPT !.state = "Normal", !.prev = "Normal"]
                       ELSE [Leaving(w, "Maximized") EXCEPT !.prev = "Normal"]), id)

(* Only the regression tests call toggle_fullscreen, snap_left and          *)
(* snap_right, and on windows that are shown.                               *)
ToggleFullscreen(id) ==
    LET w == Win(id) IN
    /\ Shown(w)
    /\ RaiseToTop(Put(id,
          IF w.state # "Fullscreen" THEN [Leaving(w, "Fullscreen") EXCEPT !.prev = w.state]
          ELSE IF w.prev = "Maximized"
               THEN [WithGeom(w, Place("Maximized")) EXCEPT !.state = "Maximized", !.prev = "Normal"]
               ELSE [WithGeom(w, BackOnScreen(w.normal)) EXCEPT !.state = "Normal", !.prev = "Normal"]), id)
    /\ UNCHANGED <<nextWindow, altTab, transient, button, running, owned, wiped>>

SnapWindow(id, st) ==
    /\ Shown(Win(id))
    /\ RaiseToTop(Put(id, [Leaving(Win(id), st) EXCEPT !.prev = "Normal"]), id)
    /\ UNCHANGED <<nextWindow, altTab, transient, button, running, owned, wiped>>

(* cleanup_windows_for_pid: the process exits or is terminated. *)
CleanupWindows(a) ==
    LET dead == {w \in Ids : Win(w).owner = a}
        Forget(v) == IF v \in dead THEN None ELSE v
    IN /\ a \in running
       /\ running' = running \ {a}
       /\ owned' = [owned EXCEPT ![a] = {}]
       /\ IF focus = None /\ dead # {}
          THEN TransferFocus(SelectSeq(windows, LAMBDA w : w.id \notin dead))
          ELSE FocusAfterRemoval(dead)
       /\ DropCandidates(dead)
       /\ dragging' = Forget(dragging) /\ resizing' = Forget(resizing)
       /\ pending' = Forget(pending) /\ lastClick' = Forget(lastClick)
       /\ edge' = IF resizing \in dead THEN NoEdge ELSE edge
       /\ wiped' = wiped \cup dead
       /\ UNCHANGED <<nextWindow, button>>

(* kill in the terminal and SIGKILL end a process and leave its windows. *)
Kill(a) ==
    /\ a \in running
    /\ running' = running \ {a} /\ killed' = killed \cup {a}
    /\ UNCHANGED <<windows, nextWindow, focus, mru, altTab, transient, button, owned, wiped, halted>>

----------------------------------------------------------------------------
(* The mouse.                                                              *)

(* Windows a click can reach: nothing shows behind a full-screen window. *)
Exposed ==
    {w \in Ids : /\ Shown(Win(w))
                 /\ \A i \in (Position(w) + 1)..Len(windows) :
                       ~(Shown(windows[i]) /\ windows[i].state = "Fullscreen")}

MouseDown == ~button /\ button' = TRUE

(* A click on the tab of a window in the top bar. *)
ClickTab(id) ==
    /\ MouseDown
    /\ IF Win(id).state = "Minimized" THEN RestoreWindow(id)
       ELSE IF focus = id THEN MinimizeWindow(id)
       ELSE RaiseToTop(windows, id)
    /\ UNCHANGED <<nextWindow, altTab, transient, running, owned, wiped>>

(* A click in the client area, or anywhere on a full-screen window. *)
ClickClient(id) ==
    /\ MouseDown /\ id \in Exposed
    /\ RaiseToTop(windows, id)
    /\ UNCHANGED <<nextWindow, altTab, transient, running, owned, wiped>>

(* A press on an edge, or a margin beside it, begins a resize; the pointer  *)
(* is on the screen, the edge itself need not be.                           *)
PressEdge(id, side) ==
    /\ MouseDown /\ id \in Exposed /\ Win(id).state \notin {"Maximized", "Fullscreen"}
    /\ side = "left" => Win(id).x + Margin >= 0
    /\ side = "right" => Win(id).x + Win(id).w - Margin <= ScreenW
    /\ resizing' = id
    /\ edge' = [side |-> side, x |-> Win(id).x, w |-> Win(id).w]
    /\ RaiseToTop(windows, id)
    /\ UNCHANGED <<nextWindow, altTab, dragging, pending, lastClick, running, owned, wiped>>

(* The buttons of the title bar.  An editor with unsaved text asks first   *)
(* instead of closing (module Apps).                                        *)
ClickClose(id, released) ==
    /\ MouseDown /\ id \in Exposed /\ Win(id).state # "Fullscreen"
    /\ DestroyWindow(id, None, released)

ClickMinimize(id) ==
    /\ MouseDown /\ id \in Exposed /\ Win(id).state # "Fullscreen"
    /\ MinimizeWindow(id)
    /\ UNCHANGED <<nextWindow, altTab, transient, running, owned, wiped>>

ClickMaximize(id) ==
    /\ MouseDown /\ id \in Exposed /\ Win(id).state # "Fullscreen"
    /\ ToggleMaximize(id)
    /\ UNCHANGED <<nextWindow, altTab, transient, running, owned, wiped>>

(* A second press on the same title bar in time maximizes or restores. *)
DoubleClickTitle(id) ==
    /\ MouseDown /\ id \in Exposed /\ Win(id).state # "Fullscreen"
    /\ lastClick = id
    /\ lastClick' = None
    /\ ToggleMaximize(id)
    /\ UNCHANGED <<nextWindow, altTab, dragging, resizing, pending, edge, running, owned, wiped>>

(* Otherwise the press begins a drag. *)
PressTitle(id) ==
    /\ MouseDown /\ id \in Exposed /\ Win(id).state # "Fullscreen"
    /\ lastClick' = id
    /\ dragging' = id
    /\ RaiseToTop(windows, id)
    /\ UNCHANGED <<nextWindow, altTab, resizing, pending, edge, running, owned, wiped>>

PressElsewhere ==
    /\ MouseDown
    /\ UNCHANGED <<windows, nextWindow, focus, mru, altTab, transient, running, owned, wiped>>

(* The mouse moves while an edge is held. *)
Resized(w, by) ==
    LET left == Clamp(edge.x + by, 0, edge.x + edge.w - MinW)
        g == IF edge.side = "right"
             THEN <<w.x, w.y, Clamp(edge.w + by, MinW, ScreenW - edge.x)>>
             ELSE <<left, w.y, edge.x + edge.w - left>>
    IN [WithGeom(w, g) EXCEPT !.state = "Normal", !.normal = g]

(* The pointer stays on the screen, at or beside the edge. *)
Pulled(by) ==
    /\ button /\ resizing \in Ids
    /\ edge.x + by + (IF edge.side = "right" THEN edge.w ELSE 0) < ScreenW

(* The range the pulled edge is clamped to is empty. *)
EmptyRange == IF edge.side = "right" THEN ScreenW - edge.x < MinW ELSE edge.x + edge.w < MinW
PanicInResize(by) == Pulled(by) /\ EmptyRange /\ Stopped("pull")

MoveResizing(by) ==
    /\ Pulled(by) /\ ~EmptyRange
    /\ LET new == Resized(Win(resizing), by) IN
       /\ windows' = Put(resizing, new)
       /\ pending' = IF Geom(new) # Geom(Win(resizing)) THEN resizing ELSE pending
    /\ UNCHANGED <<nextWindow, focus, mru, altTab, dragging, resizing, lastClick, edge, button, running, owned, wiped>>

(* The mouse moves while a title bar is held: a maximized or snapped window *)
(* becomes normal and keeps following.                                      *)
Dragged(w, to) ==
    LET away == w.state \in {"Maximized", "SnappedLeft", "SnappedRight"}
        free == IF away THEN [w EXCEPT !.w = w.normal[3], !.state = "Normal", !.prev = "Normal"] ELSE w
        moved == [free EXCEPT !.x = Clamp(to[1], 0 - Overhang, ScreenW - Grab), !.y = to[2]]
    IN IF moved.state = "Normal" THEN [moved EXCEPT !.normal = Geom(moved)] ELSE moved

MoveDragging(to) ==
    /\ button /\ resizing = None /\ dragging \in Ids
    /\ windows' = Put(dragging, Dragged(Win(dragging), to))
    /\ UNCHANGED <<nextWindow, focus, mru, altTab, transient, button, running, owned, wiped>>

(* A released title bar: near an edge of the screen the window snaps to it. *)
Dropped(w) ==
    IF w.y <= WorkTop THEN [WithGeom(w, Place("Maximized")) EXCEPT !.state = "Maximized", !.prev = "Normal"]
    ELSE IF w.x <= 0 THEN [WithGeom(w, Place("SnappedLeft")) EXCEPT !.state = "SnappedLeft", !.prev = "Normal"]
    ELSE IF w.x + w.w >= ScreenW
         THEN [WithGeom(w, Place("SnappedRight")) EXCEPT !.state = "SnappedRight", !.prev = "Normal"]
    ELSE [w EXCEPT !.state = "Normal", !.normal = Geom(w)]

MouseUp ==
    /\ button
    /\ button' = FALSE
    /\ windows' = IF dragging \in Ids THEN Put(dragging, Dropped(Win(dragging))) ELSE windows
    /\ dragging' = None /\ resizing' = None /\ edge' = NoEdge
    /\ pending' = IF resizing # None THEN None ELSE pending
    /\ UNCHANGED <<nextWindow, focus, mru, altTab, lastClick, running, owned, wiped>>

(* composite_desktop draws the window an edge of which is held. *)
RenderResized ==
    /\ pending # None
    /\ pending' = None
    /\ UNCHANGED <<windows, nextWindow, focus, mru, altTab, dragging, resizing, lastClick, edge, button, running, owned, wiped>>

----------------------------------------------------------------------------
(* The keyboard: the Alt+Tab switcher and Alt+F4.                          *)

AltTabPress(shift) ==
    LET n == Len(mru)
        s == altTab.selected
        start == IF n < 2 THEN 0 ELSE IF shift THEN n - 1 ELSE 1
        next == IF ~shift THEN (s + 1) % n ELSE IF s = 0 THEN n - 1 ELSE s - 1
    IN /\ mru # <<>>
       /\ altTab' = [active |-> TRUE, candidates |-> mru,
                     selected |-> IF altTab.active THEN next ELSE start]
       /\ UNCHANGED <<windows, nextWindow, focus, mru, transient, button, running, owned, wiped>>

(* Alt is released: the chosen window comes up. *)
Chosen == altTab.candidates[1 + (IF altTab.selected < Len(altTab.candidates)
                                 THEN altTab.selected ELSE Len(altTab.candidates) - 1)]
AltTabCommit ==
    /\ altTab.active
    /\ altTab' = Idle
    /\ IF altTab.candidates = <<>> \/ Chosen \notin Ids
       THEN UNCHANGED <<windows, focus, mru>>
       ELSE IF Win(Chosen).state = "Minimized" THEN RestoreWindow(Chosen) ELSE RaiseToTop(windows, Chosen)
    /\ UNCHANGED <<nextWindow, transient, button, running, owned, wiped>>

AltTabCancel ==
    /\ altTab.active
    /\ altTab' = Idle
    /\ UNCHANGED <<windows, nextWindow, focus, mru, transient, button, running, owned, wiped>>

(* alt_tab_cycle, called by the regression tests alone. *)
AltTabCycle ==
    LET target == mru[IF Len(mru) >= 2 THEN 2 ELSE 1] IN
    /\ mru # <<>>
    /\ IF Win(target).state = "Minimized" THEN RestoreWindow(target) ELSE RaiseToTop(windows, target)
    /\ UNCHANGED <<nextWindow, altTab, transient, button, running, owned, wiped>>

AltF4(released) ==
    /\ focus \in Ids
    /\ DestroyWindow(focus, None, released)
    /\ UNCHANGED button

----------------------------------------------------------------------------
ProgramStep ==
    \/ \E a \in Apps : StartProcess(a) \/ CleanupWindows(a) \/ \E g \in NewGeoms : CreateWindow(a, g)
    \/ \E id \in Ids : \/ SysDestroyWindow(id) \/ SysMinimize(id) \/ SysRestore(id)
                       \/ \E to \in MoveTo : MoveWindow(id, to)

(* The tests call them while no button is held. *)
TestStep ==
    /\ ~button
    /\ \/ \E id \in Ids : ToggleFullscreen(id) \/ \E st \in {"SnappedLeft", "SnappedRight"} : SnapWindow(id, st)
       \/ AltTabCycle

MouseStep ==
    \/ \E id \in Ids : \/ ClickTab(id) \/ ClickClient(id) \/ ClickMinimize(id) \/ ClickMaximize(id)
                       \/ DoubleClickTitle(id) \/ PressTitle(id)
                       \/ \E side \in {"left", "right"} : PressEdge(id, side)
                       \/ \E ok \in BOOLEAN : ClickClose(id, ok)
    \/ PressElsewhere \/ MouseUp \/ RenderResized
    \/ \E by \in Stretch : MoveResizing(by)
    \/ \E to \in DragTo : MoveDragging(to)

KeyStep ==
    \/ \E shift \in BOOLEAN : AltTabPress(shift)
    \/ AltTabCommit \/ AltTabCancel
    \/ \E ok \in BOOLEAN : AltF4(ok)

(* A panic ends the system with the lock held. *)
WmNext ==
    /\ halted = "no"
    /\ \/ (ProgramStep \/ TestStep \/ MouseStep \/ KeyStep) /\ UNCHANGED <<killed, halted>>
       \/ \E a \in Apps : Kill(a) \/ PanicInCreate(a)
       \/ \E by \in Stretch : PanicInResize(by)
WmSpec == WmInit /\ [][WmNext]_wmVars

----------------------------------------------------------------------------
(* Type correctness. *)
WmTypeOK ==
    /\ windows \in Seq([id : 1..MaxWindows, owner : Apps, x : Int, y : Nat, w : Nat,
                        visible : BOOLEAN, focused : BOOLEAN, state : States,
                        prev : States \ {"Minimized"}, normal : Int \X Nat \X Nat])
    /\ focus \in 0..MaxWindows /\ nextWindow \in 1..(MaxWindows + 1)
    /\ {dragging, resizing, pending, lastClick} \subseteq 0..MaxWindows
    /\ running \subseteq Apps /\ killed \subseteq Apps \ running /\ halted \in {"no", "tall", "pull"}

(* The flag a window is drawn with and the window keys are sent to agree:   *)
(* exactly the focused window says it has the focus, it exists, and it      *)
(* heads the list Alt+Tab walks, through every raise, transfer and removal  *)
(* (raise_to_top_internal, minimize_window, destroy_window).                *)
FocusAgrees ==
    /\ focus # None => focus \in Ids /\ mru[1] = focus
    /\ \A w \in Ids : Win(w).focused <=> focus = w

(* The most-recently-used list holds every window once, and the switcher    *)
(* offers only windows that are still there (touch_mru, clean_mru and the   *)
(* two ways a window goes).                                                 *)
SwitcherIsCurrent ==
    /\ {mru[i] : i \in DOMAIN mru} = Ids /\ Len(mru) = Len(windows)
    /\ {altTab.candidates[i] : i \in DOMAIN altTab.candidates} \subseteq Ids

(* A minimized window is hidden and has no focus, whichever of the tab, the *)
(* title bar, the switcher and its own program touched it.                  *)
MinimizedIsAway ==
    \A w \in Ids : Win(w).state = "Minimized" => ~Win(w).visible /\ focus # w

(* Every window keeps a part of its title bar on the screen and its least   *)
(* width, however it is dragged, pulled, moved, snapped and restored (the   *)
(* clamps of handle_mouse_move, move_window and toggle_maximize_window).    *)
WindowInReach ==
    \A w \in Ids : LET win == Win(w) IN
        /\ win.x \in (0 - Overhang)..(ScreenW - Grab) /\ win.w >= MinW
        /\ win.y < WorkTop => "Fullscreen" \in {win.state, win.prev}

(* When a process ends nothing the mouse or the switcher remembers names a  *)
(* window of it (cleanup_windows_for_pid, "cleans up transient WM states"). *)
CleanupForgets ==
    ({dragging, resizing, pending, lastClick} \cup {altTab.candidates[i] : i \in DOMAIN altTab.candidates})
        \cap wiped = {}

(* The windows a control block lists are those the window manager has.      *)
PcbListsWindows ==
    \A a \in running : owned[a] = {w \in Ids : Win(w).owner = a}

(* A window whose process has ended is there only when the process was      *)
(* killed: every other way to end one wipes or closes its windows first     *)
(* (cleanup_windows_for_pid, destroy_window).                               *)
OrphansWereKilled ==
    \A w \in Ids : Win(w).owner \in running \cup killed

(* A pulled edge panics only on a window that hangs over a side of the      *)
(* screen and is about as narrow as a window may be (handle_mouse_move).    *)
PullPanicsOutside ==
    halted = "pull" =>
        \/ edge.side = "left" /\ edge.x \in (0 - Margin)..(0 - 1) /\ edge.w < MinW + Margin
        \/ edge.side = "right" /\ edge.x + edge.w \in (ScreenW + 1)..(ScreenW + Margin) /\ edge.w < MinW + Margin

============================================================================
