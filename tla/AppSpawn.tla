------------------------------ MODULE AppSpawn ------------------------------
(* How the desktop starts an application (spawn_terminal_app and its five    *)
(* siblings, spawn_registered_app), with what the others may do meanwhile:   *)
(* the window can be clicked and the process ended, from a terminal or from  *)
(* the task manager, as soon as they are there.  Every step takes and gives  *)
(* back its own locks, those of the task manager too.  A step that fails     *)
(* drops what the function holds: the address space while it is being built, *)
(* then the PendingProcess.                                                  *)
EXTENDS Naturals, Sequences, SequencesExt, FiniteSets

VARIABLES
    app,        \* the application being started
    launch,     \* the steps that remain
    have,       \* what exists for it
    proc,       \* the state of its process: "none", "ready", "held" or "exited"
    ended,      \* exited and reaped of the process, which no state change takes back
    queued,     \* how often it is in the ready queue
    result,     \* "starting", "ok" or "failed"
    purging,    \* the steps that remain of the task manager's UiAction::TerminatePid
    meddled     \* what others did before the function returned

spawnVars == <<app, launch, have, proc, ended, queued, result, purging, meddled>>

(* The steps, in the order of the code. *)
Build == <<"space", "code", "stack", "process", "hold">>
SpawnTerminal == Build \o <<"surface", "window", "instance", "present", "owner", "commit">>
SpawnFiles == Build \o <<"surface", "window", "instance", "present", "owner", "commit">>
SpawnEditor == Build \o <<"surface", "window", "instance", "present", "owner", "commit">>
SpawnTaskmgr == Build \o <<"surface", "window", "instance", "present", "owner", "commit">>
SpawnSettings == Build \o <<"surface", "window", "instance", "present", "owner", "commit">>
SpawnBrowser == Build \o <<"permission", "surface", "window", "instance", "present", "owner", "commit">>
(* An application of the registry draws its first picture after the window. *)
SpawnRegistered == Build \o <<"surface", "window", "present", "commit">>

StepsOf(a) ==
    CASE a = "terminal" -> SpawnTerminal [] a = "files" -> SpawnFiles [] a = "editor" -> SpawnEditor
      [] a = "taskmgr" -> SpawnTaskmgr [] a = "settings" -> SpawnSettings [] a = "browser" -> SpawnBrowser
      [] a = "registered" -> SpawnRegistered
Launchable == {"terminal", "files", "editor", "taskmgr", "settings", "browser", "registered"}

SpawnInit ==
    /\ app \in Launchable /\ launch = StepsOf(app)
    /\ have = {} /\ proc = "none" /\ ended = FALSE /\ queued = 0
    /\ result = "starting" /\ purging = <<>> /\ meddled = {}

Now(s) == launch # <<>> /\ result = "starting" /\ Head(launch) = s
Done == launch' = Tail(launch) /\ UNCHANGED <<app, ended, purging, meddled>>

(* AddressSpaceBuilder::new, the mapping of code and stack. *)
BuildSpace ==
    /\ \E s \in {"space", "code", "stack"} : Now(s) /\ have' = have \cup {s}
    /\ Done /\ UNCHANGED <<proc, queued, result>>

(* create_user_process_with_caps queues the process at once; the space is   *)
(* its own from then on.                                                    *)
CreateProcess ==
    /\ Now("process") /\ have' = have \cup {"pcb"} /\ proc' = "ready" /\ queued' = 1
    /\ Done /\ UNCHANGED result

(* PendingProcess::new takes it out of the queue again and blocks it, also  *)
(* when it was ended in between.                                            *)
HoldProcess ==
    /\ Now("hold") /\ proc' = (IF proc = "none" THEN proc ELSE "held") /\ queued' = 0
    /\ Done /\ UNCHANGED <<have, result>>

(* create_surface_for_pid, create_window, which refuses a surface that is   *)
(* gone, and the registrations.                                             *)
Furnish ==
    /\ \E s \in {"permission", "surface", "window", "instance", "present", "owner"} :
         /\ Now(s) /\ (s = "window" => "surface" \in have)
         /\ have' = have \cup ({s} \ {"present"})
    /\ Done /\ UNCHANGED <<proc, queued, result>>

(* commit makes the process ready whatever became of it. *)
Commit ==
    /\ Now("commit") /\ result' = "ok"
    /\ proc' = (IF proc = "none" THEN proc ELSE "ready")
    /\ queued' = (IF proc = "none" THEN queued ELSE queued + 1)
    /\ Done /\ UNCHANGED have

(* What a process and its PCB own. *)
OfProcess == {"space", "code", "stack", "pcb", "surface", "window"}

(* Mutant: a failure drops the surface only. *)
DropSurfaceOnly == have' = have \ {"surface"}

(* The drop of AddressSpaceBuilder, or of PendingProcess. *)
DropAll == have' = have \ OfProcess

(* A step fails. *)
SpawnFail ==
    /\ \E s \in {"space", "code", "stack", "surface", "window"} : Now(s)
    /\ DropAll /\ result' = "failed" /\ proc' = "none" /\ ended' = FALSE /\ queued' = 0
    /\ UNCHANGED <<app, launch, purging, meddled>>

Meddles(what) == meddled' = IF result = "starting" THEN meddled \cup {what} ELSE meddled

(* The user closes the window: destroy_window drops the instance and the    *)
(* registrations there are, and purges the process of its last window.      *)
UserCloses ==
    /\ "window" \in have /\ Meddles("close")
    /\ have' = have \ (OfProcess \cup {"instance", "owner", "permission"})
    /\ proc' = "none" /\ ended' = FALSE /\ queued' = 0
    /\ UNCHANGED <<app, launch, result, purging>>

(* exit_process: nothing for a process that is gone or was ended before; the *)
(* ready queue stays as it is.                                               *)
ExitProcess ==
    /\ proc' = (IF proc = "none" \/ ended THEN proc ELSE "exited")
    /\ ended' = (ended \/ proc # "none")

(* kill in a terminal. *)
UserKills ==
    /\ proc # "none" /\ ~ended /\ ExitProcess /\ Meddles("kill")
    /\ UNCHANGED <<app, launch, have, queued, result, purging>>

(* UiAction::TerminatePid, for a process of the task manager's list, which   *)
(* may be gone by then.                                                      *)
UserTerminates ==
    /\ "process" \notin ToSet(launch) /\ purging = <<>> /\ (proc # "none" \/ have # {})
    /\ ExitProcess /\ Meddles("terminate")
    /\ purging' = <<"windows", "surfaces", "input", "permission">>
    /\ UNCHANGED <<app, launch, have, queued, result>>

(* cleanup_windows_for_pid, which does nothing without a window, then the   *)
(* surfaces, the input queue and the permissions, each under its own lock.  *)
PurgeStep ==
    /\ purging # <<>> /\ purging' = Tail(purging)
    /\ have' = have \ CASE Head(purging) = "windows" -> IF "window" \in have THEN {"window", "instance", "surface"} ELSE {}
                        [] Head(purging) = "surfaces" -> {"surface"}
                        [] Head(purging) = "input" -> {"owner"}
                        [] Head(purging) = "permission" -> {"permission"}
    /\ UNCHANGED <<app, launch, proc, ended, queued, result, meddled>>

SpawnNext ==
    \/ BuildSpace \/ CreateProcess \/ HoldProcess \/ Furnish \/ Commit \/ SpawnFail
    \/ UserCloses \/ UserKills \/ UserTerminates \/ PurgeStep

----------------------------------------------------------------------------
(* A launch that fails leaves nothing behind, at whatever step and in which- *)
(* ever application: but for the permissions of the browser, which are       *)
(* registered before its surface and dropped by nobody.                      *)
FailureLeavesNothing == result = "failed" => have \subseteq {"permission"} /\ proc = "none" /\ queued = 0

(* A process that is ready is in the ready queue once.  The window of a      *)
(* launch that returned has all it is drawn with, also when it was clicked   *)
(* or its process killed meanwhile: unless the task manager ended the        *)
(* process in the middle, and took away what the launch had made so far.     *)
LaunchIsWhole ==
    result = "ok" =>
        /\ proc = "ready" => queued = 1
        /\ "window" \in have /\ "terminate" \notin meddled =>
              {"surface", "pcb"} \subseteq have /\ (app # "registered" => {"instance", "owner"} \subseteq have)

(* An instance or a kernel-owned queue without a window is left when the     *)
(* window was closed or its process ended by the task manager in the middle  *)
(* of the launch, or while the task manager is at it, and never otherwise.   *)
OrphanIsKnown ==
    have \cap {"instance", "owner"} # {} /\ "window" \notin have =>
        meddled \cap {"close", "terminate"} # {} \/ purging # <<>>

(* exit_process is final: a process that was ended is blocked or ready again *)
(* only when it was ended before commit, which readies it whatever became of *)
(* it.                                                                       *)
EndIsFinal == ended /\ proc # "exited" => meddled \cap {"kill", "terminate"} # {}

(* A launch that fails leaves nothing, one that returns is whole, and what   *)
(* is left over or comes back to life is due to a click or a kill in the     *)
(* middle of the launch (terminal_app.rs: spawn_terminal_app and the other   *)
(* five; task/process.rs: PendingProcess).                                   *)
LaunchSound == FailureLeavesNothing /\ LaunchIsWhole /\ OrphanIsKnown /\ EndIsFinal
=============================================================================
