-------------------------------- MODULE Ipc --------------------------------
(***************************************************************************)
(* IPC endpoints (kernel/src/ipc.rs) as the system calls of                *)
(* kernel/src/syscall.rs use them: endpoints with a bounded queue, the     *)
(* capability attached to a message, hangup when the owner exits, cancel,  *)
(* and interrupts forwarded to endpoints.  Every function works under the  *)
(* ENDPOINTS lock with interrupts off, so that an action is one critical   *)
(* section; pc says between which two a process is.  The queue inside an   *)
(* endpoint is BlockingChannel, whose own steps that module has.           *)
(***************************************************************************)
EXTENDS Integers, Sequences, SequencesExt, FiniteSetsExt

CONSTANTS
    Procs,          \* user processes
    Writer, Reader, \* the two services the kernel gives endpoint 1 to
    Caps,           \* capabilities that messages may carry
    None,
    MaxEndpoints,   \* endpoint ids are 1 .. MaxEndpoints, never reused
    Capacity,       \* messages an endpoint holds
    EventQueue,     \* capacity of IRQ_EVENTS
    MaxSends,       \* bound on the messages sent
    MaxEvents       \* bound on the interrupts of the bound line

ASSUME IpcAssumption ==
    /\ Writer \in Procs /\ Reader \in Procs /\ None \notin Procs \cup Caps
    /\ {MaxEndpoints, Capacity, EventQueue, MaxSends, MaxEvents} \subseteq Nat
    /\ MaxEndpoints >= 1

Ids == 1 .. MaxEndpoints

VARIABLES
    ep,         \* ENDPOINTS: unused, live or gone
    queue,      \* the buffer of each endpoint
    waiters,    \* not_empty: the receivers asleep
    owner,      \* ENDPOINT_OWNERS
    fds,        \* the endpoint descriptors in each process's cap_table
    files,      \* the file descriptors in it
    rootOpen,   \* the endpoint's root handle is valid
    where,      \* who has each capability: a process, a message, the user
                \* memory of a receiver, or nobody because it was closed
    pc,         \* where each process is in the kernel
    asleep,     \* the processes that are Blocked
    lockedBy,   \* the process that sleeps with ENDPOINTS locked
    binding,    \* IRQ_BINDINGS, for one interrupt line
    gate,       \* IRQ_BINDINGS_NONEMPTY
    events,     \* IRQ_EVENTS
    sends, irqs \* how often send was called, the line was raised

ipcVars == <<ep, queue, waiters, owner, fds, files, rootOpen, where, pc, asleep,
          lockedBy, binding, gate, events, sends, irqs>>
epVars == <<ep, owner, fds, files, rootOpen>>
irqVars == <<binding, gate, events, irqs>>

User == [at |-> "user"]

(* Endpoint 1 is made by the kernel for two services and has no owner       *)
(* (net_demo); everything else is made by the processes.                    *)
IpcInit ==
    /\ ep = [e \in Ids |-> IF e = 1 THEN "live" ELSE "unused"]
    /\ queue = [e \in Ids |-> <<>>]
    /\ waiters = [e \in Ids |-> <<>>]
    /\ owner = [e \in Ids |-> None]
    /\ fds = [p \in Procs |-> IF p \in {Writer, Reader} THEN {1} ELSE {}]
    /\ files = [p \in Procs |-> IF p = Writer THEN {MaxEndpoints} ELSE {}]
    /\ rootOpen = [e \in Ids |-> e = 1]
    /\ where \in [Caps -> Procs]
    /\ pc = [p \in Procs |-> User]
    /\ asleep = {}
    /\ lockedBy = None
    /\ binding = None /\ gate = FALSE /\ events = <<>>
    /\ sends = 0 /\ irqs = 0

(* Endpoint 1 is granted with WRITE to one service and with READ to the     *)
(* other; the maker of an endpoint has its root handle and all rights.      *)
MayWrite(p, e) == e \in fds[p] /\ (e = 1 => p = Writer)
MayRead(p, e) == e \in fds[p] /\ (e = 1 => p = Reader)

(* A process in user mode makes a system call.                              *)
Calls(p) == pc[p] = User
Goto(p, label) == pc' = [pc EXCEPT ![p] = label]
Unlocked == lockedBy = None

-----------------------------------------------------------------------------
(* SYS_IPC_CREATE_ENDPOINT: the endpoint, its descriptor and its owner are  *)
(* entered under three different locks.                                     *)
CreateRawEndpoint(p, e) ==
    /\ Calls(p) /\ Unlocked
    /\ ep[e] = "unused" /\ \A f \in Ids : f < e => ep[f] # "unused"
    /\ ep' = [ep EXCEPT ![e] = "live"]
    /\ rootOpen' = [rootOpen EXCEPT ![e] = TRUE]
    /\ Goto(p, [at |-> "insert", ep |-> e])
    /\ UNCHANGED <<queue, waiters, owner, fds, files, where, asleep, lockedBy,
                   irqVars, sends>>

(* A file descriptor of the same number refuses the endpoint, which stays.  *)
InsertDescriptor(p) ==
    /\ pc[p].at = "insert"
    /\ IF pc[p].ep \in files[p]
       THEN Goto(p, User) /\ UNCHANGED fds
       ELSE /\ fds' = [fds EXCEPT ![p] = @ \cup {pc[p].ep}]
            /\ Goto(p, [at |-> "own", ep |-> pc[p].ep])
    /\ UNCHANGED <<ep, queue, waiters, owner, files, rootOpen, where, asleep,
                   lockedBy, irqVars, sends>>

RegisterEndpointOwner(p) ==
    /\ pc[p].at = "own"
    /\ owner' = [owner EXCEPT ![pc[p].ep] = p]
    /\ Goto(p, User)
    /\ UNCHANGED <<ep, queue, waiters, fds, files, rootOpen, where, asleep,
                   lockedBy, irqVars, sends>>

-----------------------------------------------------------------------------
(* Messages *)

Message(c, n) == [cap |-> c, irq |-> n]

(* wake_one on not_empty.                                                   *)
WakeReceiver(e) ==
    IF waiters[e] = <<>> THEN UNCHANGED <<waiters, asleep>>
    ELSE /\ waiters' = [waiters EXCEPT ![e] = Tail(@)]
         /\ asleep' = asleep \ {Head(waiters[e])}

(* What CapChannel::send does with the attached capability before it looks  *)
(* at the queue: a transfer retires the sender's handle and puts the new    *)
(* one into the envelope, a loan goes along and stays where it is.          *)
Attach(c, mode) ==
    where' = IF c # None /\ mode = "Transfer"
             THEN [where EXCEPT ![c] = "message"] ELSE where

(* raw_ipc_send.  On a full queue the process sleeps in BlockingChannel's   *)
(* send with the ENDPOINTS guard of its caller still alive.                 *)
RawIpcSend(p, e, c) ==
    IF Len(queue[e]) < Capacity
    THEN /\ queue' = [queue EXCEPT ![e] = Append(@, Message(c, 0))]
         /\ WakeReceiver(e)
         /\ UNCHANGED <<pc, lockedBy>>
    ELSE /\ Goto(p, [at |-> "send", ep |-> e, cap |-> c])
         /\ asleep' = asleep \cup {p}
         /\ lockedBy' = p
         /\ UNCHANGED <<queue, waiters>>

SysIpcSend(p, e, c, mode) ==
    /\ Calls(p) /\ Unlocked /\ sends < MaxSends
    /\ MayWrite(p, e) /\ ep[e] = "live"
    /\ (c # None => where[c] = p)
    /\ sends' = sends + 1
    /\ Attach(c, mode)
    /\ RawIpcSend(p, e, c)
    /\ UNCHANGED <<epVars, irqVars>>

(* copy_ipc_msg_to_user: a transferred capability arrives in the user's     *)
(* memory (not in its table); one that was closed or lent stays as it is.   *)
Delivered(m) ==
    where' = IF m.cap # None /\ where[m.cap] = "message"
             THEN [where EXCEPT ![m.cap] = "given"] ELSE where

(* One round of raw_ipc_recv: take a message, or sleep on the endpoint.     *)
TakeOrSleep(p, e) ==
    IF queue[e] # <<>>
    THEN /\ Delivered(Head(queue[e]))
         /\ queue' = [queue EXCEPT ![e] = Tail(@)]
         /\ Goto(p, User)
         /\ UNCHANGED <<waiters, asleep>>
    ELSE /\ waiters' = [waiters EXCEPT ![e] = Append(@, p)]
         /\ asleep' = asleep \cup {p}
         /\ Goto(p, [at |-> "wait", ep |-> e])
         /\ UNCHANGED <<queue, where>>

(* The call's turn, after the pending interrupts were delivered.            *)
SysIpcRecv(p) ==
    /\ pc[p].at = "recv" /\ Unlocked
    /\ LET e == pc[p].ep
       IN  IF ep[e] = "live" /\ MayRead(p, e)
           THEN TakeOrSleep(p, e)
           ELSE Goto(p, User) /\ UNCHANGED <<queue, waiters, asleep, where>>
    /\ UNCHANGED <<epVars, lockedBy, irqVars, sends>>

(* Woken in raw_ipc_recv: finish_wait and once more round the loop, or      *)
(* NotFound when the endpoint has gone.                                     *)
RawIpcRecvWoken(p) ==
    /\ pc[p].at = "wait" /\ p \notin asleep /\ Unlocked
    /\ LET e == pc[p].ep
       IN  IF ep[e] = "live" THEN TakeOrSleep(p, e)
           ELSE Goto(p, User) /\ UNCHANGED <<queue, waiters, asleep, where>>
    /\ UNCHANGED <<epVars, lockedBy, irqVars, sends>>

RawIpcTryRecv(p, e) ==
    IF ep[e] = "live" /\ MayRead(p, e) /\ queue[e] # <<>>
    THEN /\ Delivered(Head(queue[e]))
         /\ queue' = [queue EXCEPT ![e] = Tail(@)]
    ELSE UNCHANGED <<queue, where>>

SysIpcTryRecv(p) ==
    /\ pc[p].at = "tryRecv" /\ Unlocked
    /\ RawIpcTryRecv(p, pc[p].ep)
    /\ Goto(p, User)
    /\ UNCHANGED <<epVars, waiters, asleep, lockedBy, irqVars, sends>>

(* The capabilities in drained queues are closed, a loan's included.        *)
Attached(q) == {m.cap : m \in ToSet(q)} \ {None}

CloseAttached(drained) ==
    where' = [c \in Caps |->
                IF \E e \in drained : c \in Attached(queue[e]) THEN "closed" ELSE where[c]]

CancelEndpoint(e) ==
    /\ CloseAttached({e})
    /\ queue' = [queue EXCEPT ![e] = <<>>]

(* Only the maker has both READ and WRITE.                                  *)
SysIpcCancel(p, e) ==
    /\ Calls(p) /\ Unlocked
    /\ e # 1 /\ e \in fds[p] /\ ep[e] = "live"
    /\ CancelEndpoint(e)
    /\ UNCHANGED <<epVars, waiters, pc, asleep, lockedBy, irqVars, sends>>

-----------------------------------------------------------------------------
(* Interrupts *)

(* irq_event, in the interrupt handler: a full queue drops the event.       *)
IrqEvent ==
    /\ irqs < MaxEvents
    /\ irqs' = irqs + 1
    /\ events' = IF gate /\ Len(events) < EventQueue
                 THEN Append(events, irqs + 1) ELSE events
    /\ UNCHANGED <<epVars, queue, waiters, where, pc, asleep, lockedBy,
                   binding, gate, sends>>

(* SYS_IPC_BIND_IRQ: the endpoint is looked up under one lock, the binding  *)
(* entered under another, and the gate opened after that.                   *)
BindLookup(p, e) ==
    /\ Calls(p) /\ Unlocked
    /\ MayWrite(p, e) /\ ep[e] = "live"
    /\ Goto(p, [at |-> "bind", ep |-> e])
    /\ UNCHANGED <<epVars, queue, waiters, where, asleep, lockedBy, irqVars, sends>>

BindInsert(p) ==
    /\ pc[p].at = "bind"
    /\ binding' = pc[p].ep
    /\ Goto(p, [at |-> "gate"])
    /\ UNCHANGED <<epVars, queue, waiters, where, asleep, lockedBy, gate, events,
                   irqs, sends>>

BindOpenGate(p) ==
    /\ pc[p].at = "gate"
    /\ gate' = TRUE
    /\ Goto(p, User)
    /\ UNCHANGED <<epVars, queue, waiters, where, asleep, lockedBy, binding,
                   events, irqs, sends>>

(* SYS_IPC_RECV and SYS_IPC_TRY_RECV begin with deliver_pending_irqs: the   *)
(* events are drained into a local list ...                                 *)
DrainEvents(p, e, call) ==
    /\ Calls(p) /\ e \in fds[p]
    /\ events' = <<>>
    /\ Goto(p, [at |-> "deliver", ep |-> e, then |-> call, list |-> events])
    /\ UNCHANGED <<epVars, queue, waiters, where, asleep, lockedBy, binding, gate,
                   irqs, sends>>

(* Mutant: the event stays in the list when its send succeeds.              *)
RestKept(p) == IF binding = None THEN Tail(pc[p].list) ELSE pc[p].list

(* What is left of the list after one event was dealt with.                 *)
Rest(p) == Tail(pc[p].list)

(* raw_ipc_try_send to the bound endpoint: nothing for one that is full,    *)
(* gone or closed.                                                          *)
RawIpcTrySend(e, msg) ==
    IF ep[e] = "live" /\ rootOpen[e] /\ Len(queue[e]) < Capacity
    THEN queue' = [queue EXCEPT ![e] = Append(@, msg)] /\ WakeReceiver(e)
    ELSE UNCHANGED <<queue, waiters, asleep>>

(* ... and sent one by one to the bound endpoint, without waiting; an event *)
(* without a binding is dropped.                                            *)
DeliverNext(p) ==
    /\ pc[p].at = "deliver" /\ pc[p].list # <<>> /\ Unlocked
    /\ IF binding # None
       THEN RawIpcTrySend(binding, Message(None, Head(pc[p].list)))
       ELSE UNCHANGED <<queue, waiters, asleep>>
    /\ Goto(p, [pc[p] EXCEPT !.list = Rest(p)])
    /\ UNCHANGED <<epVars, where, lockedBy, irqVars, sends>>

DeliverEnds(p) ==
    /\ pc[p].at = "deliver" /\ pc[p].list = <<>>
    /\ Goto(p, [at |-> pc[p].then, ep |-> pc[p].ep])
    /\ UNCHANGED <<epVars, queue, waiters, where, asleep, lockedBy, irqVars, sends>>

-----------------------------------------------------------------------------
(* The end of an endpoint *)

(* SYS_CLOSE of an endpoint descriptor closes the root handle; only the     *)
(* maker has the right DESTROY.  The endpoint itself stays.                 *)
CloseDescriptor(p, e) ==
    /\ Calls(p) /\ e # 1 /\ e \in fds[p]
    /\ fds' = [fds EXCEPT ![p] = @ \ {e}]
    /\ rootOpen' = [rootOpen EXCEPT ![e] = FALSE]
    /\ UNCHANGED <<ep, queue, waiters, owner, files, where, pc, asleep, lockedBy,
                   irqVars, sends>>

Owned(p) == {e \in Ids : owner[e] = p}

(* The drain of hangup receives with the endpoint's root handle, and so     *)
(* finds nothing once that handle is closed.                                *)
Drain(gone) == CloseAttached({e \in gone : rootOpen[e]})

GateAfter(b) == IF b = None THEN FALSE ELSE gate

WakeAll(gone) ==
    /\ waiters' = [e \in Ids |-> IF e \in gone THEN <<>> ELSE waiters[e]]
    /\ asleep' = asleep \ UNION {ToSet(waiters[e]) : e \in gone}

(* exit_current: hangup_channel_for_pid for all endpoints of the process.   *)
HangupChannelForPid(p) ==
    /\ Calls(p) /\ Unlocked
    /\ LET gone == Owned(p)
           b == IF binding \in gone THEN None ELSE binding
       IN  /\ owner' = [e \in Ids |-> IF e \in gone THEN None ELSE owner[e]]
           /\ ep' = [e \in Ids |-> IF e \in gone THEN "gone" ELSE ep[e]]
           /\ WakeAll(gone)
           /\ Drain(gone)
           /\ queue' = [e \in Ids |-> IF e \in gone THEN <<>> ELSE queue[e]]
           /\ binding' = b
           /\ gate' = IF gone = {} THEN gate ELSE GateAfter(b)
    /\ Goto(p, [at |-> "cspace"])
    /\ UNCHANGED <<fds, files, rootOpen, lockedBy, events, irqs, sends>>

(* ... and then destroy_process_cspace for what its table holds.            *)
DestroyProcessCspace(p) ==
    /\ pc[p].at = "cspace"
    /\ fds' = [fds EXCEPT ![p] = {}]
    /\ files' = [files EXCEPT ![p] = {}]
    /\ rootOpen' = [e \in Ids |-> IF e \in fds[p] \ {1} THEN FALSE ELSE rootOpen[e]]
    /\ where' = [c \in Caps |-> IF where[c] = p THEN "closed" ELSE where[c]]
    /\ Goto(p, [at |-> "exited"])
    /\ UNCHANGED <<ep, queue, waiters, owner, asleep, lockedBy, irqVars, sends>>

-----------------------------------------------------------------------------
(* The rest of a call in progress.                                          *)
Continue(p) ==
    \/ InsertDescriptor(p) \/ RegisterEndpointOwner(p)
    \/ SysIpcRecv(p) \/ RawIpcRecvWoken(p) \/ SysIpcTryRecv(p)
    \/ BindInsert(p) \/ BindOpenGate(p)
    \/ DeliverNext(p) \/ DeliverEnds(p)
    \/ DestroyProcessCspace(p)

Call(p) ==
    \/ HangupChannelForPid(p)
    \/ \E e \in Ids :
          \/ CreateRawEndpoint(p, e) \/ SysIpcCancel(p, e)
          \/ BindLookup(p, e) \/ CloseDescriptor(p, e)
          \/ DrainEvents(p, e, "recv") \/ DrainEvents(p, e, "tryRecv")
          \/ \E c \in Caps \cup {None}, mode \in {"Transfer", "Lend"} :
                SysIpcSend(p, e, c, mode)

IpcNext == IrqEvent \/ \E p \in Procs : Call(p) \/ Continue(p)

(* A process inside a system call that is not asleep gets on.               *)
IpcSpec == IpcInit /\ [][IpcNext]_ipcVars /\ \A p \in Procs : WF_ipcVars(Continue(p))

-----------------------------------------------------------------------------
(* Properties *)

(* Types; a queue holds no more than its capacity.                          *)
IpcTypeOK ==
    /\ ep \in [Ids -> {"unused", "live", "gone"}]
    /\ owner \in [Ids -> Procs \cup {None}]
    /\ where \in [Caps -> Procs \cup {"message", "given", "closed"}]
    /\ fds \in [Procs -> SUBSET Ids]
    /\ asleep \subseteq Procs /\ lockedBy \in Procs \cup {None}
    /\ \A e \in Ids : Len(queue[e]) <= Capacity /\ IsInjective(waiters[e])

(* A receiver asleep can be reached: its endpoint is live, so that somebody *)
(* can still send, and the process is in the queue that the next send, the  *)
(* next interrupt and hangup_channel_for_pid look at.                       *)
SleeperIsReachable ==
    \A p \in Procs : pc[p].at = "wait" /\ p \in asleep =>
        ep[pc[p].ep] = "live" /\ p \in ToSet(waiters[pc[p].ep])

Carried(c) ==
    \/ \E e \in Ids : c \in Attached(queue[e])
    \/ \E p \in Procs : pc[p].at = "send" /\ pc[p].cap = c

Stranded(c) == where[c] = "message" /\ ~Carried(c)

(* A capability on its way is never lost: it leaves the message only for    *)
(* the receiver or to be closed by cancel or hangup.  The one exception is  *)
(* the hangup of an endpoint whose maker had closed its root handle, whose  *)
(* drain then receives nothing.                                             *)
OnlyClosedRootStrands ==
    [][\A c \in Caps : Stranded(c)' /\ ~Stranded(c) =>
          \E e \in Ids : ep[e] = "live" /\ ep'[e] = "gone" /\ ~rootOpen[e]]_ipcVars

(* What hangup leaves behind: an endpoint that is gone is in no table that  *)
(* leads to it, and a bound interrupt line always passes the gate unless    *)
(* its binder is just about to open it.                                     *)
BindingPassesGate ==
    /\ \A e \in Ids : ep[e] = "gone" => owner[e] = None /\ queue[e] = <<>>
    /\ binding # None => gate \/ \E p \in Procs : pc[p].at = "gate"

(* The numbers of the interrupts in the messages of a queue, 0 for others,  *)
(* and those that are at a place: the lock-free queue, the list a process   *)
(* has drained, an endpoint.                                                *)
Irqs(q) == [i \in DOMAIN q |-> q[i].irq]
IrqPlaces == ({"events"} \X {None}) \cup ({"list"} \X Procs) \cup ({"endpoint"} \X Ids)
IrqsAt(k) ==
    CASE k[1] = "events" -> events
      [] k[1] = "list" -> IF pc[k[2]].at = "deliver" THEN pc[k[2]].list ELSE <<>>
      [] k[1] = "endpoint" -> Irqs(queue[k[2]])

(* An interrupt event is in one place, and once, also when two processes    *)
(* drain at a time.                                                         *)
IrqEventsOnce ==
    \A k, l \in IrqPlaces : \A i \in DOMAIN IrqsAt(k), j \in DOMAIN IrqsAt(l) :
        IrqsAt(k)[i] = IrqsAt(l)[j] /\ IrqsAt(k)[i] # 0 => k = l /\ i = j

(* A receiver returns once there is a message for it, or once its endpoint  *)
(* is gone, as long as nobody sleeps with the endpoint table locked.        *)
CanReceive(p) ==
    /\ pc[p].at \in {"recv", "wait"}
    /\ queue[pc[p].ep] # <<>> \/ ep[pc[p].ep] = "gone"
RecvReturns == \A p \in Procs : []<>(~CanReceive(p) \/ ~Unlocked)

(* What ipc.rs promises: whoever sleeps on an endpoint is reached by the     *)
(* next send, cancel or hangup, a bound interrupt passes the gate, and an    *)
(* event is in one place only, however calls, interrupts and exits fall.     *)
IpcSound == IpcTypeOK /\ SleeperIsReachable /\ BindingPassesGate /\ IrqEventsOnce
=============================================================================
