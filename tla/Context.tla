------------------------------ MODULE Context ------------------------------
(* What a context switch of process.rs keeps of a process: its stack, where  *)
(* it continues, and the page table it runs in.  The scheduler's choice of   *)
(* the next process is any (module Scheduler has it); the single steps of    *)
(* the switch, and the timer interrupts between them, are modelled here.     *)
(*                                                                           *)
(* switch_context does not store cr3, and the context of every process but   *)
(* a fork holds 0, which keeps the table that is loaded.                     *)
EXTENDS Integers

CONSTANTS Users,      \* user processes
          Threads,    \* kernel threads
          Quantum,    \* QUANTUM_TICKS
          Sleeping    \* whether a sleeper can be due when the timer ticks

KernelTable == "kernel table"
NoPid == "no pid"
Procs == Users \cup Threads

(* QUANTUM_TICKS is 5. *)
ASSUME ContextAssumption ==
    /\ Users \cap Threads = {} /\ {NoPid, KernelTable} \cap Procs = {}
    /\ Quantum \in Nat /\ Quantum >= 2

VARIABLES curPid,     \* Scheduler.current
          onStack,    \* whose kernel stack the processor is on
          place,      \* where in the code it is
          contexts,   \* process -> RegisterContext: a stack and a place
          loaded,     \* the page table in cr3
          userTables, \* the processes whose user_cr3 is a page table
          caught,     \* processes closed by another while they enter user space
          waiting,    \* the ready queue, as a set
          ticksOf     \* ticks_left
cxVars == <<curPid, onStack, place, contexts, loaded, userTables, caught, waiting, ticksOf>>

(* A place in the code with what it holds in its locals: a process, another, *)
(* a page table.                                                             *)
Place(where, prev, next, root) == [where |-> where, prev |-> prev, next |-> next, root |-> root, ticked |-> FALSE]
At(where) == Place(where, NoPid, NoPid, KernelTable)
(* Behind drop(s), before switch_context. *)
Between(prev, next) == Place("between", prev, next, KernelTable)
Context(stack, at) == [stack |-> stack, at |-> at]

CxInit ==
    /\ \E first \in Threads : curPid = first /\ onStack = first /\ waiting = Procs \ {first}
    /\ place = At("kernel") /\ loaded = KernelTable /\ userTables = Users /\ caught = {} /\ ticksOf = Quantum
    /\ contexts = [p \in Procs |-> Context(p, At("stub"))]

-----------------------------------------------------------------------------
(* kernel_thread_stub, user_process_stub and enter_user_current: the first   *)
(* entry loads the process's own page table, read from its entry before.     *)
ThreadStub ==
    /\ place.where = "stub" /\ onStack \in Threads /\ place' = At("kernel")
    /\ UNCHANGED <<curPid, onStack, contexts, loaded, userTables, caught, waiting, ticksOf>>
Cr3Of(p) == IF p \in userTables THEN p ELSE KernelTable
UserStub ==
    /\ place.where = "stub" /\ onStack \in Users /\ place' = Place("enter", NoPid, NoPid, Cr3Of(onStack))
    /\ UNCHANGED <<curPid, onStack, contexts, loaded, userTables, caught, waiting, ticksOf>>
EnterUser ==
    /\ place.where = "enter" /\ place' = At("user")
    /\ loaded' = IF place.root = KernelTable THEN loaded ELSE place.root
    /\ UNCHANGED <<curPid, onStack, contexts, userTables, caught, waiting, ticksOf>>
(* int 0x80 and iretq change no page table. *)
Trap ==
    /\ place.where = "user" /\ loaded # KernelTable /\ place' = At("kernel")
    /\ UNCHANGED <<curPid, onStack, contexts, loaded, userTables, caught, waiting, ticksOf>>
BackToUser ==
    /\ place.where = "kernel" /\ onStack \in Users /\ place' = At("user")
    /\ UNCHANGED <<curPid, onStack, contexts, loaded, userTables, caught, waiting, ticksOf>>

(* Mutant: the quantum is not set anew. *)
NotArmed == UNCHANGED ticksOf
(* schedule_internal up to drop(s): the next process becomes the current     *)
(* one and gets a quantum.                                                   *)
Armed == ticksOf' = Quantum
Requeued(next) == (waiting \cup {curPid}) \ {next}
Chosen(next) == curPid' = next /\ waiting' = Requeued(next) /\ Armed
(* Called by schedule(), the drop of the guard lets interrupts in again. *)
Yield(next) ==
    /\ place.where = "kernel" /\ next \in waiting
    /\ Chosen(next) /\ place' = Between(curPid, next)
    /\ UNCHANGED <<onStack, contexts, loaded, userTables, caught>>

(* switch_context. *)
Restored(c) == onStack' = c.stack /\ place' = c.at
SwitchContext ==
    /\ place.where = "between"
    /\ contexts' = [contexts EXCEPT ![place.prev] = Context(onStack, At("kernel"))]
    /\ Restored(contexts[place.next])
    /\ UNCHANGED <<curPid, loaded, userTables, caught, waiting, ticksOf>>

(* The timer.  Behind drop(s) the process that was switched away from is     *)
(* still on its stack, and current is another.                               *)
Interruptible == place.where \in {"kernel", "user", "enter", "teardown", "released", "closing"}
                     \/ (place.where = "between" /\ ~place.ticked)
Expired == ticksOf <= 1
Tick ==
    /\ Interruptible /\ ~Expired /\ ticksOf' = ticksOf - 1
    /\ place' = [place EXCEPT !.ticked = (place.where = "between")]
    /\ UNCHANGED <<curPid, onStack, contexts, loaded, userTables, caught, waiting>>
Preempt(next) ==
    /\ Interruptible /\ (Expired \/ Sleeping) /\ next \in waiting /\ Chosen(next)
    /\ contexts' = [contexts EXCEPT ![curPid] = Context(onStack, place)]
    /\ Restored(contexts[next])
    /\ UNCHANGED <<loaded, userTables, caught>>
PreemptAlone ==
    /\ Interruptible /\ Expired /\ waiting = {} /\ Armed
    /\ UNCHANGED <<curPid, onStack, place, contexts, loaded, userTables, caught, waiting>>
-----------------------------------------------------------------------------
(* exit_current, by a system call, by recover_user_fault or at the end of a  *)
(* thread: the kernel's page table, the release of the process's own, the    *)
(* jump to the next process or to the idle loop.                             *)
Exit ==
    /\ place.where \in {"kernel", "user"} /\ place' = At("teardown") /\ loaded' = KernelTable
    /\ UNCHANGED <<curPid, onStack, contexts, userTables, caught, waiting, ticksOf>>
(* release_process_address_space(pid). *)
Unloaded(pid) == IF loaded = pid THEN KernelTable ELSE loaded
Released(pid) == loaded' = Unloaded(pid) /\ userTables' = userTables \ {pid}
ReleaseOwn ==
    /\ place.where = "teardown" /\ place' = At("released") /\ Released(curPid)
    /\ UNCHANGED <<curPid, onStack, contexts, caught, waiting, ticksOf>>
JumpToInitial(next) ==
    /\ place.where = "released" /\ next \in waiting
    /\ curPid' = next /\ waiting' = waiting \ {next} /\ Armed /\ Restored(contexts[next])
    /\ UNCHANGED <<contexts, loaded, userTables, caught>>
JumpToIdle ==
    /\ place.where = "released" /\ waiting = {}
    /\ curPid' = NoPid /\ onStack' = NoPid /\ place' = At("idle")
    /\ UNCHANGED <<contexts, loaded, userTables, caught, waiting, ticksOf>>
(* destroy_window, of another process: its tables go, then it; in between    *)
(* it may still be scheduled.                                                *)
CloseOther(pid) ==
    /\ place.where = "kernel" /\ onStack \in Threads /\ pid \in waiting \cap Users
    /\ Released(pid) /\ place' = Place("closing", NoPid, pid, KernelTable)
    /\ caught' = IF contexts[pid].at.where = "enter" THEN caught \cup {pid} ELSE caught
    /\ UNCHANGED <<curPid, onStack, contexts, waiting, ticksOf>>
PurgeOther ==
    /\ place.where = "closing" /\ waiting' = waiting \ {place.next} /\ place' = At("kernel")
    /\ UNCHANGED <<curPid, onStack, contexts, loaded, userTables, caught, ticksOf>>

CxNext ==
    \/ ThreadStub \/ UserStub \/ EnterUser \/ Trap \/ BackToUser \/ SwitchContext \/ Tick \/ PreemptAlone
    \/ Exit \/ ReleaseOwn \/ JumpToIdle \/ PurgeOther
    \/ \E next \in Procs : Yield(next) \/ Preempt(next) \/ JumpToInitial(next)
    \/ \E pid \in Users : CloseOther(pid)
CxSpec == CxInit /\ [][CxNext]_cxVars
-----------------------------------------------------------------------------
(* The page table in cr3 exists: no process, whichever table it happens to   *)
(* run in, frees the table it runs in, nor does one that ends leave its      *)
(* table loaded.  Excepted is a process that is closed between its read of   *)
(* user_cr3 and its load of it: it loads what was freed.                     *)
TableIsLive == loaded \in userTables \cup caught \cup {KernelTable}

(* Each process that is switched out continues on its own stack, and the     *)
(* current process is on its own, except between the choice of the next and  *)
(* the switch to it.  It holds only while no sleeper is due at a tick that   *)
(* falls there (Sleeping = FALSE).                                           *)
ContextIsOwn ==
    /\ \A p \in waiting : contexts[p].stack = p
    /\ place.where # "between" => onStack = curPid

(* A user process that has an address space runs in it.                      *)
RunsInOwnSpace == place.where = "user" /\ onStack \in userTables => loaded = onStack

(* Between any two steps of a switch, the page table that is loaded exists   *)
(* and a process continues with its own registers and stack (process.rs:     *)
(* switch_context, timer_tick).                                              *)
ContextSound == TableIsLive /\ ContextIsOwn
=============================================================================
