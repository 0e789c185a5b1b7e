------------------------------- MODULE Input -------------------------------
(* Delivery of input (kernel/src/input.rs) and of desktop events            *)
(* (kernel/src/event.rs).  For a key and a pressed button the threads       *)
(* choose the process under the lock WM, give the lock up and deliver       *)
(* afterwards; a released button and a move are delivered under the lock.   *)
(* The applications built into the kernel take their input directly and     *)
(* must have no queue.                                                      *)
EXTENDS Naturals, Sequences, FiniteSets, SequencesExt, FiniteSetsExt

CONSTANTS
    Clients,        \* processes
    QueueCap,       \* MAX_QUEUE_CAPACITY (64)
    BusCap,         \* MAX_BUS_QUEUE_CAPACITY (32)
    MaxKeys,        \* keys pressed (bound)
    MaxCasts        \* broadcasts sent (bound)

Threads2 == {"mouse", "keyboard"}
Nobody == "nobody"

VARIABLES
    queue,          \* INPUT_QUEUES: per process a sequence, or Absent
    kernelOwners,   \* KERNEL_INPUT_OWNERS
    keysTo,         \* how many keys each process has been sent
    chosen,         \* the process each thread has chosen and not delivered to yet
    gone,           \* processes that have ended: their windows and queues are cleaned up
    registered,     \* registered_pids of the event bus
    bus,            \* queues of the event bus, or Absent
    casts           \* broadcasts so far

inVars == <<queue, kernelOwners, keysTo, chosen, gone, registered, bus, casts>>
busVars == <<registered, bus, casts>>
queueVars == <<queue, kernelOwners, keysTo, chosen, gone>>

Key(n) == [kind |-> "key", n |-> n]
Move(n) == [kind |-> "move", n |-> n]
IsMove(e) == e.kind = "move"

Absent == <<[kind |-> "absent", n |-> 0]>>
Has(q, p) == q[p] # Absent
Events(q, p) == IF Has(q, p) THEN q[p] ELSE <<>>

(* Mutant: room is made at the wrong end. *)
MadeRoomNewest(q) == IF Len(q) < QueueCap THEN q ELSE RemoveAt(q, Len(q))

(* The queue with room made: the oldest move goes first, else the oldest event. *)
MadeRoom(q) ==
    LET m == SelectInSeq(q, IsMove) IN
    IF Len(q) < QueueCap THEN q ELSE RemoveAt(q, IF m = 0 THEN 1 ELSE m)

(* EventQueue::push: consecutive moves become one. *)
Pushed(q, e) ==
    IF IsMove(e) /\ q # <<>> /\ IsMove(Last(q)) THEN [q EXCEPT ![Len(q)] = e]
    ELSE Append(MadeRoom(q), e)

InInit ==
    /\ queue = [p \in Clients |-> Absent] /\ kernelOwners = {}
    /\ keysTo = [p \in Clients |-> 0]
    /\ chosen = [t \in Threads2 |-> Nobody] /\ gone = {}
    /\ registered = {} /\ bus = [p \in Clients |-> Absent] /\ casts = 0

(* deliver_event_to_pid: both locks are held, so an owner that registers    *)
(* meanwhile is seen or waits.                                              *)
DeliverEvent(p, e) ==
    queue' = IF p \in kernelOwners THEN queue ELSE [queue EXCEPT ![p] = Pushed(Events(queue, p), e)]

(* The thread looks at the windows: who has the focus, or is under the mouse. *)
Choose(t, p) ==
    /\ chosen[t] = Nobody /\ p \notin gone
    /\ chosen' = [chosen EXCEPT ![t] = p]
    /\ UNCHANGED <<queue, kernelOwners, keysTo, gone, busVars>>

(* dispatch_keyboard_event, after the lock WM is given up. *)
RouteKey ==
    LET p == chosen["keyboard"] IN
    /\ p # Nobody /\ keysTo[p] < MaxKeys
    /\ chosen' = [chosen EXCEPT !["keyboard"] = Nobody]
    /\ keysTo' = [keysTo EXCEPT ![p] = @ + 1]
    /\ DeliverEvent(p, Key(keysTo[p] + 1))
    /\ UNCHANGED <<kernelOwners, gone, busVars>>

Button == [kind |-> "button", n |-> 0]

(* route_mouse_down, after the lock WM is given up. *)
RouteMouseDown ==
    LET p == chosen["mouse"] IN
    /\ p # Nobody
    /\ chosen' = [chosen EXCEPT !["mouse"] = Nobody]
    /\ DeliverEvent(p, Button)
    /\ UNCHANGED <<kernelOwners, keysTo, gone, busVars>>

(* route_mouse_up and route_mouse_move hold the lock WM. *)
RouteUnderWm(p, e) ==
    /\ chosen["mouse"] = Nobody /\ p \notin gone
    /\ DeliverEvent(p, e)
    /\ UNCHANGED <<kernelOwners, keysTo, chosen, gone, busVars>>

(* SYS_POLL_EVENT and INPUT_OP_POLL_EVENT. *)
PollEvent(p) ==
    /\ Has(queue, p) /\ queue[p] # <<>> /\ p \notin gone
    /\ queue' = [queue EXCEPT ![p] = Tail(@)]
    /\ UNCHANGED <<kernelOwners, keysTo, chosen, gone, busVars>>

(* The application of process p is one of the kernel's. *)
RegisterKernelInputOwner(p) ==
    /\ p \notin gone
    /\ kernelOwners' = kernelOwners \cup {p}
    /\ queue' = [queue EXCEPT ![p] = Absent]
    /\ UNCHANGED <<keysTo, chosen, gone, busVars>>

(* The process ends; its windows are cleaned up before its input is. *)
CleanupInput(p) ==
    /\ p \notin gone
    /\ gone' = gone \cup {p}
    /\ kernelOwners' = kernelOwners \ {p}
    /\ queue' = [queue EXCEPT ![p] = Absent]
    /\ UNCHANGED <<keysTo, chosen, busVars>>

----------------------------------------------------------------------------
(* The event bus.                                                          *)

BusPushed(q, e) == Append(IF Len(q) >= BusCap THEN Tail(q) ELSE q, e)

RegisterPid(p) ==
    /\ p \notin registered
    /\ registered' = registered \cup {p}
    /\ bus' = [bus EXCEPT ![p] = Events(bus, p)]
    /\ UNCHANGED <<casts, queueVars>>

UnregisterPid(p) ==
    /\ registered' = registered \ {p}
    /\ bus' = [bus EXCEPT ![p] = Absent]
    /\ UNCHANGED <<casts, queueVars>>

(* send_to_pid makes a queue for a process that never registered. *)
SendToPid(p) ==
    /\ bus' = [bus EXCEPT ![p] = BusPushed(Events(bus, p), [kind |-> "direct", n |-> 0])]
    /\ UNCHANGED <<registered, casts, queueVars>>

Broadcast ==
    /\ casts < MaxCasts
    /\ casts' = casts + 1
    /\ bus' = [p \in Clients |->
                 IF p \in registered THEN BusPushed(Events(bus, p), [kind |-> "cast", n |-> casts + 1]) ELSE bus[p]]
    /\ UNCHANGED <<registered, queueVars>>

PollBus(p) ==
    /\ Has(bus, p) /\ bus[p] # <<>>
    /\ bus' = [bus EXCEPT ![p] = Tail(@)]
    /\ UNCHANGED <<registered, casts, queueVars>>

----------------------------------------------------------------------------
QueueNext2 ==
    \/ \E t \in Threads2, p \in Clients : Choose(t, p)
    \/ RouteKey \/ RouteMouseDown
    \/ \E p \in Clients, e \in {Move(1), Move(2), Button} : RouteUnderWm(p, e)
    \/ \E p \in Clients : PollEvent(p) \/ RegisterKernelInputOwner(p) \/ CleanupInput(p)

BusNext ==
    \/ \E p \in Clients : RegisterPid(p) \/ UnregisterPid(p) \/ SendToPid(p) \/ PollBus(p)
    \/ Broadcast

----------------------------------------------------------------------------
Numbers(q, k) == {q[i].n : i \in {j \in DOMAIN q : q[j].kind = k}}
InOrder(q, k) == \A i, j \in DOMAIN q : i < j /\ q[i].kind = k /\ q[j].kind = k => q[i].n < q[j].n

(* Type correctness. *)
InTypeOK ==
    /\ \A p \in Clients : Len(Events(queue, p)) <= QueueCap /\ Len(Events(bus, p)) <= BusCap
    /\ kernelOwners \subseteq Clients /\ registered \subseteq Clients
    /\ \A t \in Threads2 : chosen[t] \in Clients \cup {Nobody}

(* The keys waiting for a process are the last ones it was sent, in order    *)
(* and without a gap, however full its queue became and whatever pushed the  *)
(* older ones out (EventQueue::push drops a move first, then the oldest      *)
(* event, so that a move too can cost a key).                                *)
KeysWaitInOrder ==
    \A p \in Clients : Has(queue, p) =>
        LET ks == Numbers(queue[p], "key") IN
        /\ InOrder(queue[p], "key")
        /\ ks # {} => ks = Min(ks)..keysTo[p]

(* Moves are one event between two others, so that a move is lost only to   *)
(* a later one or to the bound.                                              *)
MovesAreMerged ==
    \A p \in Clients : Has(queue, p) =>
        \A i \in 1..(Len(queue[p]) - 1) : ~(IsMove(queue[p][i]) /\ IsMove(queue[p][i + 1]))

(* An application of the kernel has no queue, although a thread chose it    *)
(* before it registered and delivers afterwards.                             *)
OwnersHaveNoQueue == \A p \in kernelOwners : ~Has(queue, p)

(* All registered processes see broadcasts in one order: what waits for each *)
(* is an unbroken run that ends with the latest one.                          *)
BroadcastsAgree ==
    \A p \in registered :
        LET cs == Numbers(bus[p], "cast") IN
        /\ Has(bus, p) /\ InOrder(bus[p], "cast")
        /\ cs # {} => cs = Min(cs)..casts

(* Of a process that has ended only what a thread had already chosen it for  *)
(* can still come to wait: at most an event of each thread, in a queue that  *)
(* deliver_event_to_pid makes again and nothing removes.                     *)
LateEventsOnly ==
    \A p \in gone :
        Len(Events(queue, p)) + Cardinality({t \in Threads2 : chosen[t] = p}) <= Cardinality(Threads2)

(* The keys waiting for a process are those it was sent last, in order; moves *)
(* are merged; an application of the kernel has nothing waiting and an ended  *)
(* process no more than the late events; all that registered see one order of *)
(* broadcasts (input.rs, event.rs).                                           *)
InputSound ==
    /\ InTypeOK /\ KeysWaitInOrder /\ MovesAreMerged /\ OwnersHaveNoQueue /\ LateEventsOnly
    /\ BroadcastsAgree
============================================================================
