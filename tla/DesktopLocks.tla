---------------------------- MODULE DesktopLocks ----------------------------
(* The locks the threads of the desktop take (kernel/src/input.rs, wm.rs,    *)
(* surface.rs, desktop.rs, app_registry.rs).  A handler is the sequence of   *)
(* locks it takes and gives back; one processor runs the threads, and while  *)
(* a thread holds an IrqMutex interrupts are off and no other thread runs.   *)
(*                                                                           *)
(* Left out are the locks under which no other lock is taken and that are    *)
(* not taken with interrupts off (themes, permissions, queues, reports):     *)
(* they cannot be part of a circular wait.  INSTANCES stands for the tables  *)
(* of five applications, no two of which are ever held together; the file    *)
(* manager's is apart, since it is held while an editor is started.          *)
EXTENDS Naturals, Sequences, FiniteSets

(* The thread "other" is the keyboard thread or a process in the kernel. *)
DeskThreads == {"mouse", "compositor", "other"}
IrqLocks == {"SCHEDULER", "ENDPOINTS"}
Tables == {"INSTANCES", "FILES_INSTANCES"}
Locks == IrqLocks \cup Tables \cup {"WM", "DESKTOP_ENV", "SURFACE_REGISTRY", "PROCESS_LIST"}
Unheld == "unheld"

VARIABLES todo, holder
lockVars == <<todo, holder>>

Holding(l, body) == <<[op |-> "lock", on |-> l]>> \o body \o <<[op |-> "unlock", on |-> l]>>
Touch(l) == Holding(l, <<>>)

----------------------------------------------------------------------------
(* Operations that handlers are made of.                                    *)

GetRenderTarget == Touch("SURFACE_REGISTRY")
EachTable == Touch("FILES_INSTANCES") \o Touch("INSTANCES")
Rerender == GetRenderTarget \o EachTable
DestroySurface2 == Holding("SURFACE_REGISTRY", Touch("SCHEDULER"))

(* release_process_address_space looks at the surfaces first. *)
ReleaseSpace == Touch("SURFACE_REGISTRY") \o Touch("SCHEDULER")

(* A purge as destroy_window and a dropped PendingProcess make it: it takes *)
(* two more locks under SCHEDULER, against docs/LOCKS.md ("LEAF").          *)
Purge == Holding("SCHEDULER", Touch("ENDPOINTS") \o Touch("PROCESS_LIST"))

DestroyLocks == DestroySurface2 \o EachTable \o Touch("SCHEDULER") \o ReleaseSpace \o Purge
CleanupLocks == EachTable \o DestroySurface2

(* request_close_window: an editor with unsaved text asks, else it closes. *)
AskLocks == Holding("INSTANCES", Touch("SURFACE_REGISTRY"))
CloseLocks == Touch("INSTANCES") \o DestroyLocks

PresentLocks == Touch("SURFACE_REGISTRY") \o Touch("WM")

(* spawn_terminal_app and the like. *)
SpawnLocks(table) ==
    Touch("SCHEDULER") \o Touch("PROCESS_LIST") \o DestroySurface2
    \o Holding("WM", Touch("SURFACE_REGISTRY") \o Touch("SCHEDULER"))
    \o Touch(table) \o PresentLocks \o Touch("SCHEDULER")
SpawnFails == Touch("SCHEDULER") \o Touch("PROCESS_LIST") \o DestroySurface2 \o ReleaseSpace \o Purge

(* A key or a click handled by an application, then the action it asks for  *)
(* once its table is given back (execute_ui_action).                        *)
InApp(table) == Holding(table, Touch("SURFACE_REGISTRY") \o Touch("SCHEDULER"))

AppThen(table, action) == InApp(table) \o action

(* Enter or a double click on a text file starts an editor from within the  *)
(* file manager's handler.                                                  *)
OpenFile == Holding("FILES_INSTANCES", SpawnLocks("INSTANCES") \o Touch("SURFACE_REGISTRY")) \o Touch("WM")

UiAction(kind) ==
    CASE kind = "redraw" -> Touch("WM")
      [] kind = "close" -> Holding("WM", CloseLocks)
      [] kind = "ask" -> Holding("WM", AskLocks)
      [] kind = "theme" -> Touch("WM") \o Rerender \o Touch("WM")
      [] kind = "terminate" -> Touch("SCHEDULER") \o Holding("WM", CleanupLocks) \o DestroySurface2 \o Touch("WM")

UiActions == {"redraw", "close", "ask", "theme", "terminate"}

(* The file manager only ever asks for a redraw. *)
AppSteps == {AppThen("INSTANCES", UiAction(a)) : a \in UiActions} \cup {AppThen("FILES_INSTANCES", UiAction("redraw"))}

(* handle_mouse_click of the desktop, under its own lock. *)
DesktopClick(then) == Holding("DESKTOP_ENV", Touch("WM") \o then)

(* A frame. *)
CompositeLocks ==
    Holding("WM", Rerender \o Holding("DESKTOP_ENV", Touch("SCHEDULER")) \o Touch("SURFACE_REGISTRY"))

(* exit_current, and a system call that sends through an endpoint. *)
ExitLocks ==
    Touch("SCHEDULER") \o DestroySurface2 \o Holding("WM", CleanupLocks) \o ReleaseSpace
    \o Holding("ENDPOINTS", Touch("SCHEDULER")) \o Touch("SCHEDULER")

(* The handlers, by name. *)
HandlerLocks(h) ==
    CASE h = "click window" -> {Holding("WM", Rerender) \o Holding("WM", Touch("SURFACE_REGISTRY")) \o s : s \in AppSteps}
      [] h = "click close" -> {Holding("WM", CloseLocks), Holding("WM", AskLocks)}
      [] h = "click launcher" -> {Touch("WM") \o SpawnLocks(t) : t \in Tables} \cup {Touch("WM") \o SpawnFails}
      [] h = "click desktop" -> {DesktopClick(<<>>), DesktopClick(SpawnLocks("INSTANCES")), DesktopClick(SpawnFails)}
      [] h = "mouse up" -> {Holding("WM", Rerender)}
      [] h = "key" -> {Touch("WM") \o s : s \in AppSteps}
      [] h = "open file" -> {Touch("WM") \o OpenFile}
      [] h = "spawn key" -> {SpawnLocks("INSTANCES"), SpawnFails}
      [] h = "present" -> {PresentLocks}
      [] h = "exit" -> {ExitLocks}
      [] h = "frame" -> {CompositeLocks}

(* What each thread runs. *)
Runs(t) ==
    CASE t = "mouse" -> {"click window", "click close", "click launcher", "click desktop", "mouse up"}
      [] t = "compositor" -> {"frame"}
      [] t = "other" -> {"key", "open file", "spawn key", "exit", "present"}

LockInit == todo = [t \in DeskThreads |-> <<>>] /\ holder = [l \in Locks |-> Unheld]

IrqOff(t) == \E l \in IrqLocks : holder[l] = t
MayRun(t) == \A u \in DeskThreads \ {t} : ~IrqOff(u)

Begin(t) ==
    /\ todo[t] = <<>> /\ MayRun(t)
    /\ \E h \in Runs(t) : \E s \in HandlerLocks(h) : todo' = [todo EXCEPT ![t] = s]
    /\ UNCHANGED holder

LockStep(t) ==
    /\ todo[t] # <<>> /\ MayRun(t)
    /\ LET next == Head(todo[t]) IN
       /\ next.op = "lock" => holder[next.on] = Unheld
       /\ holder' = [holder EXCEPT ![next.on] = IF next.op = "lock" THEN t ELSE Unheld]
    /\ todo' = [todo EXCEPT ![t] = Tail(@)]

LockNext == \E t \in DeskThreads : Begin(t) \/ LockStep(t)
LockSpec == LockInit /\ [][LockNext]_lockVars

----------------------------------------------------------------------------
Wants(t) == IF todo[t] # <<>> /\ Head(todo[t]).op = "lock" THEN Head(todo[t]).on ELSE Unheld
WaitsFor(t, u) == (Wants(t) # Unheld /\ holder[Wants(t)] = u) \/ (t # u /\ IrqOff(u))
Stuck(S) == S # {} /\ \A t \in S : \E u \in S : WaitsFor(t, u)

(* "Dedicated preemptive keyboard kernel thread (Deadlock-Free!)": no        *)
(* threads wait for each other in a circle.                                  *)
NoDeadlock == \A S \in SUBSET DeskThreads : ~Stuck(S)

(* The handlers can wait for each other in a circle only through the lock of *)
(* the desktop, which a click takes before WM and a frame after it, through  *)
(* that of the file manager, held while WM is taken to open a file and taken *)
(* under WM to redraw it, or through PROCESS_LIST, which a purge takes with  *)
(* interrupts off.                                                           *)
DeadlockIsKnown ==
    \A S \in SUBSET DeskThreads : Stuck(S) => \E t \in S : Wants(t) \in {"DESKTOP_ENV", "FILES_INSTANCES", "PROCESS_LIST"}

(* The assertion of Mutex::lock: WM is never taken under an IrqMutex.        *)
MutexOutsideIrq == \A t \in DeskThreads : Wants(t) = "WM" => ~IrqOff(t)
=============================================================================
