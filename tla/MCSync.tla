------------------------------- MODULE MCSync -------------------------------
(* Model checking of the blocking primitives and of the linked wait queues.  *)
(* A behaviour is one of one of them.                                        *)
EXTENDS SleepMutex, Semaphore, BlockingChannel, WaitQueue, TLC

VARIABLE part
mutexOnly == <<locked, queue, hit>>
semOnly == <<count, semQueue, seen, posted, taken, semHit>>
chanOnly == <<buffer, notEmpty, notFull, received>>
syncVars == <<threadVars, pc, calls, mutexOnly, semOnly, chanOnly, wqVars, part>>

(* The threads are interchangeable, so that one order of the ready queue     *)
(* stands for all.                                                           *)
SyncInit ==
    /\ part \in {"mutex", "semaphore", "channel", "queues"}
    /\ Init /\ SemInit /\ ChanInit /\ WqInit
    /\ ready = CHOOSE s \in SetToSeqs(Threads) : TRUE

SyncNext ==
    \/ part = "mutex" /\ Next /\ UNCHANGED <<semOnly, chanOnly, wqVars, part>>
    \/ part = "semaphore" /\ SemNext /\ UNCHANGED <<mutexOnly, chanOnly, wqVars, part>>
    \/ part = "channel" /\ ChanNext /\ UNCHANGED <<mutexOnly, semOnly, wqVars, part>>
    \/ part = "queues" /\ WqNext /\ UNCHANGED <<threadVars, pc, calls, mutexOnly, semOnly, chanOnly, part>>

(* The fairness of each of them: the timer keeps firing, and a thread inside *)
(* a call gets on when it has the CPU again and again.                       *)
Ticks ==
    \/ part = "mutex" /\ Preempt /\ UNCHANGED <<semOnly, chanOnly, wqVars, part>>
    \/ part = "semaphore" /\ SemPreempt /\ UNCHANGED <<mutexOnly, chanOnly, wqVars, part>>
    \/ part = "channel" /\ ChanPreempt /\ UNCHANGED <<mutexOnly, semOnly, wqVars, part>>
Runs(t) ==
    \/ part = "mutex" /\ Step(t) /\ UNCHANGED <<hit, semOnly, chanOnly, wqVars, part>>
    \/ part = "semaphore" /\ SemStep(t) /\ UNCHANGED <<semHit, mutexOnly, chanOnly, wqVars, part>>
    \/ part = "channel" /\ ChanStep(t) /\ UNCHANGED <<mutexOnly, semOnly, wqVars, part>>
SyncSpec ==
    /\ SyncInit /\ [][SyncNext]_syncVars
    /\ WF_syncVars(Ticks) /\ \A t \in Threads : SF_syncVars(Runs(t))
-----------------------------------------------------------------------------
(* The entries dequeue_internal returns or repairs, from x on; n bounds the *)
(* walk if the links should form a cycle.                                   *)
RECURSIVE Chain(_, _)
Chain(x, n) ==
    IF x = NoPid \/ n = 0 THEN <<>>
    ELSE IF x \in table THEN <<x>> \o Chain(next[x], n - 1)
    ELSE IF Successors(x) = {} THEN <<>>
    ELSE Chain(CHOOSE y \in Successors(x) : TRUE, n - 1)

Waiters(q) ==
    SelectSeq(Chain(head[q], Cardinality(Pids)), LAMBDA p : waits[p] = q)

Fifo == INSTANCE WaitFifo WITH fifo <- [q \in Queues |-> Waiters(q)]

(* The linked queues behave as FIFO queues of the processes that wait:      *)
(* nobody overtakes, no operation on one process or one queue disturbs the  *)
(* order of the others, and a purged or ended process is passed over        *)
(* (process.rs: WaitQueue, dequeue_internal).                               *)
ImplementsFifo == Fifo!Spec

(* A process or thread that sleeps is linked where the next wake-up looks: *)
(* in the queue that drop() of the mutex wakes, or where the wake-ups of the *)
(* queue it waits on reach it through the links, over purged and ended      *)
(* processes (sync.rs: SleepMutex; process.rs: dequeue_internal).           *)
NoWaiterLost ==
    /\ part = "mutex" => TypeOK /\ SleeperIsQueued
    /\ part = "semaphore" => SemTypeOK
    /\ part = "channel" => ChanTypeOK
    /\ part = "queues" => WqTypeOK
    /\ \A p \in Pids : waits[p] # NoQueue => p \in ToSet(Waiters(waits[p]))

(* Calls that can return do: lock() once the guards before it are dropped,  *)
(* wait() while tokens are left, send and recv while there is room or a     *)
(* message; a tick between the steps of any of them loses no wake-up, but   *)
(* for the windows of lock() and wait() (sync.rs).                          *)
BlockingReturns ==
    /\ LockReturnsOutsideWindow
    /\ part = "semaphore" => WaitReturns
    /\ ChannelProgress
=============================================================================
