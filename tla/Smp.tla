-------------------------------- MODULE Smp --------------------------------
(***************************************************************************)
(* kernel/src/smp.rs: the boot processor starts the others through one     *)
(* trampoline page, unmapped pages are shot down in the TLBs of the other  *)
(* processors, and the run queues of the processors share work.  In the    *)
(* code as it is the started processors spin and accept no interrupt, so   *)
(* that accepting is {Bsp}; the larger sets check what the handler, which  *)
(* their interrupt table has, does once they accept them.                  *)
(***************************************************************************)
EXTENDS Integers, Sequences, FiniteSets, FiniteSetsExt, SequencesExt, Functions

CONSTANTS
    Aps,            \* the other processors: 1 .. n, in the order of the MADT
    SmpPages, SmpTasks,
    MaxUnmaps       \* bound on shootdowns

Bsp == 0
Cpus == {Bsp} \cup Aps
NoCpu == -1

MaxCpus == 8

NoPage == 0

ASSUME SmpAssumption ==
    /\ Aps \subseteq Nat \ {Bsp} /\ IsFiniteSet(Aps) /\ \A c \in Aps : c < MaxCpus
    /\ NoPage \notin SmpPages /\ MaxUnmaps \in Nat

VARIABLES
    booting,        \* the processor start_ap works on, or 0 between two
    started,        \* processors that start_ap is done with
    page,           \* trampoline page: whose parameters, marker, mapped
    ap,             \* off, sipi, entered, ready, lost
    apId,           \* the cpu_id a processor took from the parameters
    late,           \* history: a confirmation timed out
    accepting,      \* processors that accept interrupts and unmap pages
    mappedPages, tlb,
    unmapping,      \* the page whose shootdown the processor is in, or NoPage
    request,        \* TLB_SHOOTDOWN and its lock
    ipi,            \* processors with the shootdown interrupt pending
    unmaps, timedOut,
    runQueue, running, \* PerCpuRunQueue: ready and current
    looking,        \* the last peer steal_task_from_peers tried
    stolen,         \* what pick_next_task has stolen and not yet recorded
    queueLock,      \* who holds the lock of each queue
    rrTarget,
    history, ran    \* history: tasks queued, and those whose turn has come

NotLooking == -2
NoTask == [victim |-> NoCpu]
bootVars == <<booting, started, page, ap, apId, late>>
tlbVars == <<accepting, mappedPages, tlb, unmapping, request, ipi, unmaps, timedOut>>
queueVars == <<runQueue, running, looking, stolen, queueLock, rrTarget, history, ran>>
smpVars == <<bootVars, tlbVars, queueVars>>

AtReset ==
    /\ booting = Bsp /\ started = {Bsp} /\ late = FALSE
    /\ page = [cpu |-> Bsp, marker |-> FALSE, mapped |-> FALSE]
    /\ ap = [c \in Aps |-> "off"] /\ apId = [c \in Aps |-> NoCpu]

(* The state a bring-up without incidents ends in.                          *)
AfterBoot ==
    /\ booting = Bsp /\ started = Cpus /\ late = FALSE
    /\ page = [cpu |-> Max(Aps), marker |-> TRUE, mapped |-> FALSE]
    /\ ap = [c \in Aps |-> "ready"] /\ apId = [c \in Aps |-> c]

SmpInit ==
    /\ AtReset \/ AfterBoot
    /\ accepting \in {s \in SUBSET Cpus : Bsp \in s}
    /\ mappedPages = SmpPages /\ tlb = [c \in Cpus |-> {}]
    /\ unmapping = [c \in Cpus |-> NoPage]
    /\ request = [holder |-> NoCpu, page |-> NoPage, targets |-> {}, acks |-> 0]
    /\ ipi = {} /\ unmaps = 0 /\ timedOut = FALSE
    /\ runQueue = [c \in Cpus |-> << >>] /\ running = [c \in Cpus |-> NoTask]
    /\ stolen = [c \in Cpus |-> NoTask] /\ queueLock = [c \in Cpus |-> NoCpu]
    /\ looking = [c \in Cpus |-> NotLooking]
    /\ rrTarget = 0 /\ history = << >> /\ ran = {}

-----------------------------------------------------------------------------
(* Bring-up *)

(* start_ap: the page is mapped, cleared and given the parameters of the    *)
(* next processor, which INIT and SIPI then set going.                      *)
StartAp(c) ==
    /\ booting = Bsp /\ c \notin started /\ \A d \in Cpus \ started : c <= d
    /\ booting' = c
    /\ page' = [cpu |-> c, marker |-> FALSE, mapped |-> TRUE]
    /\ ap' = [ap EXCEPT ![c] = "sipi"]
    /\ UNCHANGED <<started, apId, late, tlbVars, queueVars>>

(* The trampoline runs in the page: without it the processor is lost.       *)
ApEnter(c) ==
    /\ ap[c] = "sipi"
    /\ IF page.mapped
       THEN /\ ap' = [ap EXCEPT ![c] = "entered"]
            /\ apId' = [apId EXCEPT ![c] = page.cpu]
            /\ page' = [page EXCEPT !.marker = TRUE]
       ELSE ap' = [ap EXCEPT ![c] = "lost"] /\ UNCHANGED <<apId, page>>
    /\ UNCHANGED <<booting, started, late, tlbVars, queueVars>>

(* ap_kernel_entry has its stack in the page too.  When that is unmapped or *)
(* another processor's by now, what happens depends on the processor's TLB. *)
ApReady(c) ==
    /\ ap[c] = "entered"
    /\ \/ ap' = [ap EXCEPT ![c] = "ready"]
       \/ /\ ~page.mapped \/ page.cpu # c
          /\ ap' = [ap EXCEPT ![c] = "lost"]
    /\ UNCHANGED <<booting, started, page, apId, late, tlbVars, queueVars>>

Finish(c) ==
    /\ booting' = Bsp /\ started' = started \cup {c}
    /\ page' = [page EXCEPT !.mapped = FALSE]
    /\ UNCHANGED <<ap, apId, tlbVars, queueVars>>

(* start_ap after the wait: the page goes, the processor counts as online.  *)
ConfirmAp(c) == booting = c /\ c # Bsp /\ page.marker /\ Finish(c) /\ UNCHANGED late

(* ... and so it does when the marker has not come in time.                 *)
ConfirmTimeout(c) ==
    booting = c /\ c # Bsp /\ ~page.marker /\ Finish(c) /\ late' = TRUE

BootNext == \E c \in Aps : StartAp(c) \/ ApEnter(c) \/ ApReady(c) \/ ConfirmAp(c)
                              \/ ConfirmTimeout(c)
Booted == started = Cpus

-----------------------------------------------------------------------------
(* TLB shootdown *)

Touch(c, p) ==
    /\ Booted /\ c \in accepting /\ unmapping[c] = NoPage
    /\ p \in mappedPages \ tlb[c]
    /\ tlb' = [tlb EXCEPT ![c] = @ \cup {p}]
    /\ UNCHANGED <<bootVars, queueVars, accepting, mappedPages, unmapping, request, ipi, unmaps, timedOut>>

UnmapPage(c, p) ==
    /\ Booted /\ c \in accepting /\ unmapping[c] = NoPage
    /\ p \in mappedPages /\ unmaps < MaxUnmaps
    /\ unmaps' = unmaps + 1
    /\ mappedPages' = mappedPages \ {p}
    /\ unmapping' = [unmapping EXCEPT ![c] = p]
    /\ UNCHANGED <<bootVars, queueVars, accepting, tlb, request, ipi, timedOut>>

MapPage(p) ==
    /\ Booted /\ p \in SmpPages \ mappedPages
    /\ \A c \in Cpus : unmapping[c] # p
    /\ mappedPages' = mappedPages \cup {p}
    /\ UNCHANGED <<bootVars, queueVars, accepting, tlb, unmapping, request, ipi, unmaps, timedOut>>

Targets(c) == started \ {c}

(* tlb_shootdown, steps 1 to 4.  From here on, and while it waits for the   *)
(* lock, the processor's interrupts are off.                                *)
BeginShootdown(c) ==
    LET targets == Targets(c)
        p == unmapping[c]
    IN  /\ p # NoPage /\ request.holder = NoCpu
        /\ tlb' = [tlb EXCEPT ![c] = @ \ {p}]
        /\ IF targets = {}
           THEN unmapping' = [unmapping EXCEPT ![c] = NoPage] /\ UNCHANGED <<request, ipi>>
           ELSE /\ request' = [holder |-> c, page |-> p, targets |-> targets, acks |-> 0]
                /\ ipi' = ipi \cup targets
                /\ UNCHANGED unmapping
        /\ UNCHANGED <<bootVars, queueVars, accepting, mappedPages, unmaps, timedOut>>

(* Mutant: the acknowledgement comes without the flush.                     *)
HandleShootdownNoFlush(c) ==
    /\ c \in ipi \cap accepting /\ unmapping[c] = NoPage
    /\ request' = [request EXCEPT !.acks = @ + 1]
    /\ ipi' = ipi \ {c}
    /\ UNCHANGED <<bootVars, queueVars, accepting, mappedPages, tlb, unmapping, unmaps, timedOut>>

(* handle_tlb_shootdown_ipi: whatever the request is now, also when the     *)
(* interrupt was sent for an earlier one.                                   *)
HandleShootdown(c) ==
    /\ c \in ipi \cap accepting /\ unmapping[c] = NoPage
    /\ tlb' = [tlb EXCEPT ![c] = @ \ {request.page}]
    /\ request' = [request EXCEPT !.acks = @ + 1]
    /\ ipi' = ipi \ {c}
    /\ UNCHANGED <<bootVars, queueVars, accepting, mappedPages, unmapping, unmaps, timedOut>>

EndShootdown(c) ==
    /\ request.holder = c
    /\ request' = [request EXCEPT !.holder = NoCpu]
    /\ unmapping' = [unmapping EXCEPT ![c] = NoPage]
    /\ timedOut' = (timedOut \/ request.acks < Cardinality(request.targets))
    /\ UNCHANGED <<bootVars, queueVars, accepting, mappedPages, tlb, ipi, unmaps>>

(* The wait ends with the last acknowledgement or after a bounded time.     *)
ShootdownAcked(c) ==
    request.acks >= Cardinality(request.targets) /\ EndShootdown(c)

(* Mutant: the wait has no bound.                                           *)
ShootdownTimeoutNever(c) == FALSE /\ UNCHANGED smpVars

ShootdownTimeout(c) ==
    request.acks < Cardinality(request.targets) /\ EndShootdown(c)

TlbNext ==
    \/ \E c \in Cpus : \/ BeginShootdown(c) \/ HandleShootdown(c) \/ ShootdownAcked(c)
                       \/ ShootdownTimeout(c)
                       \/ \E p \in SmpPages : Touch(c, p) \/ UnmapPage(c, p)
    \/ \E p \in SmpPages : MapPage(p)

-----------------------------------------------------------------------------
(* Run queues *)

Free(c) == queueLock[c] = NoCpu

(* The place of a processor among those that are online.                    *)
Place(c) == Cardinality({d \in started : d < c})

(* enqueue_process_round_robin; the reschedule interrupt does nothing.      *)
EnqueueRoundRobin(t) ==
    /\ Booted /\ t \notin ToSet(history)
    /\ \E target \in started :
          /\ Place(target) = rrTarget % Cardinality(started) /\ Free(target)
          /\ runQueue' = [runQueue EXCEPT ![target] = Append(@, t)]
    /\ rrTarget' = rrTarget + 1
    /\ history' = Append(history, t)
    /\ UNCHANGED <<bootVars, tlbVars, running, looking, stolen, queueLock, ran>>

Picks(c) == Booted /\ Free(c) /\ stolen[c] = NoTask /\ looking[c] = NotLooking

(* pick_next_task with work of its own, ...                                 *)
PickLocal(c) ==
    /\ Picks(c) /\ runQueue[c] # << >>
    /\ running' = [running EXCEPT ![c] = [victim |-> c, task |-> Head(runQueue[c])]]
    /\ runQueue' = [runQueue EXCEPT ![c] = Tail(@)]
    /\ ran' = ran \cup {Head(runQueue[c])}
    /\ UNCHANGED <<bootVars, tlbVars, looking, stolen, queueLock, rrTarget, history>>

(* ... and without: it gives its own lock back and looks at its peers.      *)
PickNone(c) ==
    /\ Picks(c) /\ runQueue[c] = << >>
    /\ running' = [running EXCEPT ![c] = NoTask]
    /\ looking' = [looking EXCEPT ![c] = NoCpu]
    /\ UNCHANGED <<bootVars, tlbVars, runQueue, stolen, queueLock, rrTarget, history, ran>>

LeftByThief(q) == SubSeq(q, 1, Len(q) - 1)

(* steal_task_from_peers tries them one after the other, ...                *)
Peers(c) == {v \in started \ {c} : v > looking[c]}
NextPeer(c, v) == looking[c] # NotLooking /\ v \in Peers(c) /\ \A d \in Peers(c) : v <= d
Stealable(v) == Free(v) /\ Len(runQueue[v]) > 1

(* ... takes the last task of the first that has two and a free lock, ...   *)
StealTask(c, v) ==
    /\ NextPeer(c, v) /\ Stealable(v)
    /\ stolen' = [stolen EXCEPT ![c] = [victim |-> v, task |-> Last(runQueue[v])]]
    /\ runQueue' = [runQueue EXCEPT ![v] = LeftByThief(@)]
    /\ looking' = [looking EXCEPT ![c] = NotLooking]
    /\ UNCHANGED <<bootVars, tlbVars, running, queueLock, rrTarget, history, ran>>

(* ... passes the others, and returns None after the last.                  *)
PassPeer(c, v) ==
    /\ NextPeer(c, v) /\ ~Stealable(v)
    /\ looking' = [looking EXCEPT ![c] = v]
    /\ UNCHANGED <<bootVars, tlbVars, runQueue, running, stolen, queueLock, rrTarget, history, ran>>

StealNone(c) ==
    /\ looking[c] # NotLooking /\ Peers(c) = {}
    /\ looking' = [looking EXCEPT ![c] = NotLooking]
    /\ UNCHANGED <<bootVars, tlbVars, runQueue, running, stolen, queueLock, rrTarget, history, ran>>

(* The thief makes it its current task under the lock of its own queue, ... *)
RecordStolen(c) ==
    /\ stolen[c] # NoTask /\ Free(c)
    /\ queueLock' = [queueLock EXCEPT ![c] = c]
    /\ UNCHANGED <<bootVars, tlbVars, runQueue, running, looking, stolen, rrTarget, history, ran>>

(* ... which is held until the victim's lock is had as well, for a log line.*)
LogStolen(c) ==
    /\ queueLock[c] = c /\ Free(stolen[c].victim)
    /\ running' = [running EXCEPT ![c] = stolen[c]]
    /\ stolen' = [stolen EXCEPT ![c] = NoTask]
    /\ ran' = ran \cup {stolen[c].task}
    /\ queueLock' = [queueLock EXCEPT ![c] = NoCpu]
    /\ UNCHANGED <<bootVars, tlbVars, runQueue, looking, rrTarget, history>>

QueueNext ==
    \/ \E c \in Cpus : PickLocal(c) \/ PickNone(c) \/ StealNone(c) \/ RecordStolen(c) \/ LogStolen(c)
    \/ \E c, v \in Cpus : StealTask(c, v) \/ PassPeer(c, v)
    \/ \E t \in SmpTasks : EnqueueRoundRobin(t)

SmpNext == BootNext \/ TlbNext \/ QueueNext
SmpSpec == SmpInit /\ [][SmpNext]_smpVars

(* What goes on by itself: the boot processor and the initiator of a         *)
(* shootdown, whose waits are bounded loops.  Nothing is assumed of the     *)
(* processors being started.                                                *)
BootGoesOn == \E c \in Aps : StartAp(c) \/ ConfirmAp(c) \/ ConfirmTimeout(c)
ShootdownGoesOn(c) == BeginShootdown(c) \/ ShootdownAcked(c) \/ ShootdownTimeout(c)

-----------------------------------------------------------------------------
(* Properties *)

SmpTypeOK ==
    /\ booting \in Cpus /\ started \subseteq Cpus
    /\ ap \in [Aps -> {"off", "sipi", "entered", "ready", "lost"}]
    /\ apId \in [Aps -> Cpus \cup {NoCpu}]
    /\ \A c \in Cpus : tlb[c] \subseteq SmpPages
    /\ request.holder \in Cpus \cup {NoCpu} /\ ipi \subseteq Cpus

(* No two processors run with the same cpu_id, and so with the same GDT,    *)
(* TSS and per-CPU block, although they read it from one page: as long as   *)
(* every processor confirmed within start_ap's wait.                        *)
OneIdPerCpu ==
    ~late => \A c \in Aps : apId[c] \in {NoCpu, c}

(* A shootdown that has returned leaves no translation of the page behind   *)
(* on any processor, whoever shoots down what at the same time, as long as  *)
(* none has timed out (after that a late handler may answer for another     *)
(* request).                                                                *)
NoStaleTranslation ==
    ~timedOut => \A c \in Cpus : \A p \in tlb[c] \ mappedPages :
                     \E d \in Cpus : unmapping[d] = p

(* No task is in two places, however stealing and queueing interleave, ...  *)
TasksInOnePlace ==
    \A t \in ToSet(history) :
        Cardinality({c \in Cpus : t \in ToSet(runQueue[c])})
        + Cardinality({c \in Cpus : stolen[c] # NoTask /\ stolen[c].task = t})
        + Cardinality({c \in Cpus : running[c] # NoTask /\ running[c].task = t}) <= 1

(* ... and none is lost on the way or gets a second turn: it waits in a      *)
(* queue, or in the hands of a thief, until it becomes current, not after.   *)
Waits(t) ==
    \E c \in Cpus : t \in ToSet(runQueue[c]) \/ (stolen[c] # NoTask /\ stolen[c].task = t)
TasksGetTheirTurn == \A t \in SmpTasks : Waits(t) <=> t \in ToSet(history) \ ran

(* start_ap returns, also when the processor never answers.                 *)
BootFinishes == []<>(booting = Bsp)

(* A shootdown returns, also when a processor never acknowledges and when   *)
(* two processors shoot down at each other with interrupts off.             *)
ShootdownReturns == \A c \in Cpus : []<>(unmapping[c] = NoPage)

(* Each processor has its own number, none that takes part in shootdowns     *)
(* uses a translation that is gone, and a queued task gets one turn, on one  *)
(* processor, although others steal it (smp.rs).                             *)
SmpSound == SmpTypeOK /\ OneIdPerCpu /\ NoStaleTranslation /\ TasksInOnePlace /\ TasksGetTheirTurn
=============================================================================
