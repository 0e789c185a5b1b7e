------------------------------ MODULE MCKernel ------------------------------
(* Model checking of IPC, of storage (the file tree and the block engine),   *)
(* of memory and of the processors.  They share no state here: a behaviour   *)
(* is one of one of them.                                                    *)
EXTENDS Ipc, Vfs, SpfsEngine, Memory, Smp

VARIABLE part       \* ipc, vfs, spfs, memory, boot, tlb or queues

Paths == {<<"home", "dev">>, <<"home", "dev", "f">>, <<"etc", "hostname">>}
OneByte == <<1>>
(* One pair of adjacent frames is all that is left when a second process    *)
(* has its own.                                                             *)
Fragments == <<<<1, 4>>, <<6, 8>>, <<10, 10>>, <<12, 12>>, <<14, 14>>, <<16, 17>>, <<19, 19>>, <<21, 21>>>>
kernelVars == <<ipcVars, vfsVars, spfsVars, memVars, smpVars, part>>

(* Tasks differ in their names only: one order of queueing stands for all.  *)
QueuedInOrder == \A i \in DOMAIN history' : history'[i] = i

(* The parts that do not move begin in one state only. *)
Init ==
    /\ part \in {"ipc", "vfs", "spfs", "memory", "boot", "tlb", "queues"}
    /\ IpcInit /\ VfsInit /\ SpfsInit /\ MemInit /\ SmpInit
    /\ part # "spfs" => client = "engine"
    /\ started = Cpus <=> part \in {"queues", "tlb"}
    /\ part # "tlb" => accepting = {Bsp}

Next ==
    \/ part = "ipc" /\ IpcNext /\ UNCHANGED <<vfsVars, spfsVars, memVars, smpVars, part>>
    \/ part = "vfs" /\ VfsNext /\ UNCHANGED <<ipcVars, spfsVars, memVars, smpVars, part>>
    \/ part = "spfs" /\ SpfsNext /\ UNCHANGED <<ipcVars, vfsVars, memVars, smpVars, part>>
    \/ part = "memory" /\ MemNext /\ UNCHANGED <<ipcVars, vfsVars, spfsVars, smpVars, part>>
    \/ part = "boot" /\ BootNext /\ UNCHANGED <<ipcVars, vfsVars, spfsVars, memVars, part>>
    \/ part = "tlb" /\ TlbNext /\ UNCHANGED <<ipcVars, vfsVars, spfsVars, memVars, part>>
    \/ part = "queues" /\ QueueNext /\ QueuedInOrder /\ UNCHANGED <<ipcVars, vfsVars, spfsVars, memVars, part>>

(* The fairness of each: a call that can go on does, as its thread is        *)
(* scheduled again, and the waits of smp.rs are loops with a limit.          *)
IpcGoesOn(p) ==
    part = "ipc" /\ Continue(p) /\ UNCHANGED <<vfsVars, spfsVars, memVars, smpVars, part>>
VfsGoesOn(p) ==
    part = "vfs" /\ VfsContinue(p) /\ UNCHANGED <<ipcVars, spfsVars, memVars, smpVars, part>>
BootSteps ==
    part = "boot" /\ BootGoesOn /\ UNCHANGED <<ipcVars, vfsVars, spfsVars, memVars, part>>
TlbSteps(c) ==
    part = "tlb" /\ ShootdownGoesOn(c) /\ UNCHANGED <<ipcVars, vfsVars, spfsVars, memVars, part>>
Spec ==
    /\ Init /\ [][Next]_kernelVars
    /\ \A p \in Procs : WF_kernelVars(IpcGoesOn(p))
    /\ \A p \in FileUsers : WF_kernelVars(VfsGoesOn(p))
    /\ WF_kernelVars(BootSteps)
    /\ \A c \in Cpus : WF_kernelVars(TlbSteps(c))
-----------------------------------------------------------------------------
(* Nothing on its way is lost: a capability in a message reaches the         *)
(* receiver or is closed (ipc.rs), what a call has written is there after a  *)
(* power failure (fs.rs), and recovery frees what was not committed and      *)
(* nothing else (fs.rs); each with the exceptions its own definition has.    *)
NothingIsLost == OnlyClosedRootStrands /\ ChangesSurvive /\ RollbackIsExact

(* Calls return: recv once there is something for it, every storage call,    *)
(* the start of a processor that may never answer, and a shootdown that      *)
(* nobody acknowledges (ipc.rs, syscall_storage.rs, smp.rs).                 *)
KernelReturns == RecvReturns /\ CallsReturn /\ BootFinishes /\ ShootdownReturns
=============================================================================
