----------------------------- MODULE MCDesktop -----------------------------
(* Model checking of the desktop and its applications.  A behaviour is one   *)
(* of one of them.  The window manager is run once with one window at a time *)
(* and all the geometry, and once with several windows whose geometry stays; *)
(* the editor and the file manager for a bounded number of steps.            *)
EXTENDS WindowManager, Damage, Input, DesktopLocks,
        Editor, Browser, Applets, AppSpawn, TLC

CONSTANTS MaxSteps, MaxFindSteps

VARIABLES part, steps

OneGeom == {<<1, 2, 2>>}
DragPlaces == {<<0 - 2, 2>>, <<1, 1>>, <<9, 2>>}
MovePlaces == {<<5, 2>>}
Pulls == {0 - 2, 1}
Rectangles ==
    {[x |-> 0 - 1, y |-> 0, w |-> 2, h |-> 1], [x |-> 1, y |-> 1, w |-> 1, h |-> 1],
     [x |-> 3, y |-> 0, w |-> 3, h |-> 2], [x |-> 0, y |-> 2, w |-> 1, h |-> 1],
     [x |-> 2, y |-> 2, w |-> 2, h |-> 1], [x |-> 0, y |-> 5, w |-> 2, h |-> 2]}

HomeDir == <<"home", "teha">>
Listings == HomeDir :> <<Entry("docs", "directory"), Entry("notes", "text")>>
    @@ <<>> :> <<Entry("home", "directory"), Entry("bin", "directory")>>
    @@ <<"bin">> :> <<Entry("sh", "binary")>>
SideBar == {HomeDir, <<>>, <<"bin">>}
Lengths == [u \in Urls |-> IF u = HomeUrl THEN 1 ELSE 2]

deskVars == <<wmVars, dmgVars, inVars, lockVars>>
appVars == <<edVars, fmVars, brVars, termVars, tmVars, themeVars, spawnVars>>
desktopVars == <<deskVars, appVars, part, steps>>

Parts ==
    {"geometry", "focus", "damage", "queues", "bus", "locks",
     "edit", "find", "files", "visits", "html", "terminal", "tasks", "theme", "spawn"}

(* The parts that do not move begin in one state only. *)
Init ==
    /\ part \in Parts /\ steps = 0
    /\ WmInit /\ DmgInit /\ InInit /\ LockInit
    /\ EdInit /\ (part # "find" => doc.text = <<1>>) /\ (part \notin {"edit", "find"} => doc.path = NoPath)
    /\ HtmlInit /\ (part # "html" => page = <<>>)
    /\ TmInit /\ (part # "tasks" => live = Protected \cup KernelThreads /\ tm.rows[1] \in Protected)
    /\ SpawnInit /\ (part # "spawn" => app = "terminal")
    /\ FmInit /\ BrInit /\ TermInit /\ ThemeInit

(* One window at a time, of one process. *)
GeometryStep ==
    /\ part = "geometry"
    /\ WmNext
    /\ Len(windows') <= 1 /\ nextWindow' <= 2 /\ Cardinality(running') <= 1
    /\ ~altTab'.active
    /\ \A i \in DOMAIN windows' : windows'[i].w <= ScreenW    \* bound
    /\ halted' = "tall" => windows = <<>>    \* bound: the first window is too tall
    /\ killed' = {}    \* bound: focus has the kills

(* The processes are alike: the first window is of this one. *)
FirstApp == CHOOSE a \in Apps : TRUE

(* Several windows that are not dragged, pulled or maximized. *)
FocusStep ==
    /\ part = "focus"
    /\ WmNext
    /\ \A i \in DOMAIN windows' : windows'[i].normal = <<1, 2, 2>>
    /\ \A i \in DOMAIN windows' : windows'[i].state \in {"Normal", "Minimized"}
    /\ {resizing', dragging'} = {None}
    /\ halted' = "no" /\ (killed' # {} => nextWindow' <= 3)    \* bound: of two windows
    /\ \A i \in DOMAIN windows' : windows'[i].id \in {1, 3} => windows'[i].owner = FirstApp    \* bound: the third too

(* Queues of different processes share nothing: one process suffices. *)
QueueStep ==
    /\ part = "queues"
    /\ QueueNext2
    /\ LET first == CHOOSE c \in Clients : TRUE IN
       /\ kernelOwners' \cup gone' \subseteq {first} /\ \A t \in Threads2 : chosen'[t] \in {first, Nobody}
       /\ \A c \in Clients \ {first} : ~Has(queue', c)

DeskNext ==
    \/ GeometryStep /\ UNCHANGED <<dmgVars, inVars, lockVars>>
    \/ FocusStep /\ UNCHANGED <<dmgVars, inVars, lockVars>>
    \/ part = "damage" /\ DmgNext /\ UNCHANGED <<wmVars, inVars, lockVars>>
    \/ QueueStep /\ UNCHANGED <<wmVars, dmgVars, lockVars>>
    \/ part = "bus" /\ BusNext /\ UNCHANGED <<wmVars, dmgVars, lockVars>>
    \/ part = "locks" /\ LockNext /\ UNCHANGED <<wmVars, dmgVars, inVars>>

Counted(n) == steps < n /\ steps' = steps + 1

AppNext ==
    \/ /\ part = "edit" /\ Counted(MaxSteps)
       /\ \/ Type \/ MoveKey \/ ClickText \/ Travel \/ Copy \/ Cut \/ Paste
          \/ Save \/ New \/ OtherSaves \/ RequestClose \/ AnswerSave \/ AnswerElse
       /\ UNCHANGED <<fmVars, brVars, termVars, tmVars, themeVars, spawnVars>>
    \/ /\ part = "find" /\ Counted(MaxFindSteps)
       /\ Type \/ Travel \/ Save \/ ShowFind \/ TypeInField \/ Find \/ Replace
       /\ UNCHANGED <<fmVars, brVars, termVars, tmVars, themeVars, spawnVars>>
    \/ /\ part = "files" /\ Counted(MaxSteps) /\ FmNext
       /\ UNCHANGED <<edVars, brVars, termVars, tmVars, themeVars, spawnVars>>
    \/ /\ part = "visits" /\ BrNext
       /\ UNCHANGED <<edVars, fmVars, termVars, tmVars, themeVars, spawnVars, steps>>
    \/ /\ part = "html" /\ HtmlNext
       /\ UNCHANGED <<edVars, fmVars, termVars, tmVars, themeVars, spawnVars, steps>>
    \/ /\ part = "terminal" /\ TermNext
       /\ UNCHANGED <<edVars, fmVars, brVars, tmVars, themeVars, spawnVars, steps>>
    \/ /\ part = "tasks" /\ TmNext
       /\ UNCHANGED <<edVars, fmVars, brVars, termVars, themeVars, spawnVars, steps>>
    \/ /\ part = "theme" /\ ThemeNext
       /\ UNCHANGED <<edVars, fmVars, brVars, termVars, tmVars, spawnVars, steps>>
    \/ /\ part = "spawn" /\ SpawnNext
       /\ UNCHANGED <<edVars, fmVars, brVars, termVars, tmVars, themeVars, steps>>

Next ==
    /\ UNCHANGED part
    /\ \/ DeskNext /\ UNCHANGED <<appVars, steps>>
       \/ AppNext /\ UNCHANGED deskVars

(* compositor_thread sleeps one frame at a time and runs for ever, and the   *)
(* parser to its end.                                                        *)
Frames ==
    part = "damage" /\ Composite /\ UNCHANGED <<wmVars, inVars, lockVars, appVars, part, steps>>
Parses ==
    part = "html" /\ HtmlNext
    /\ UNCHANGED <<deskVars, edVars, fmVars, termVars, tmVars, themeVars, spawnVars, part, steps>>
Spec == Init /\ [][Next]_desktopVars /\ WF_desktopVars(Frames) /\ WF_desktopVars(Parses)
-----------------------------------------------------------------------------
(* Every change reaches the screen: a frame that leaves nothing stale comes  *)
(* although damage keeps being marked (compositor_thread).                   *)
ChangeIsDrawn == []<>(part = "damage" => stale = {})

(* The smaller applications keep what they show and what they act on         *)
(* together: the selection of the file manager and its history, the lines    *)
(* and the history of the terminal and what it echoes, the process the task  *)
(* manager ends and the one shown selected, the theme and its stored copy    *)
(* (files_app.rs, terminal_app.rs, taskmgr_app.rs, desktop.rs).              *)
AppletsSound ==
    /\ SelectionInList /\ HistoryAgrees /\ TermInBounds /\ NoEcho
    /\ SelectionAgrees /\ EndsWhatWasAsked /\ StoreFollowsTheme

(* Keys wait in order for the process they were sent to, and handling events *)
(* can stop the desktop only in the circles of locks that are known; the     *)
(* assertion of Mutex::lock never fires (input.rs, sync.rs).                 *)
HandlingSound == InputSound /\ DeadlockIsKnown /\ MutexOutsideIrq

(* What steps may do: damage is drawn in the end and a page parsed to its    *)
(* end; an edit is undoable and scrolling follows the cursor; a click in the *)
(* side bar keeps the way back; only Escape moves the address bar's cursor   *)
(* off its text (compositor_thread, editor_app.rs, files_app.rs,             *)
(* browser_app.rs).                                                          *)
DesktopMoves ==
    /\ ChangeIsDrawn /\ ParseEnds
    /\ CursorInRows /\ EditIsUndoable /\ HistoryIsKept /\ CursorLeavesByEscape
=============================================================================
