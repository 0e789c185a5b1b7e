----------------------------- MODULE SleepMutex -----------------------------
(***************************************************************************)
(* SleepMutex (kernel/src/sync.rs): a lock whose waiters sleep on a        *)
(* WaitQueue.  The lock word is an atomic outside the SCHEDULER lock, so   *)
(* lock() takes it, queues the thread, and tests it again in separate      *)
(* steps, and the timer may switch threads between any two of them.        *)
(***************************************************************************)
EXTENDS Threads

CONSTANT MaxCalls   \* bound on the lock() and try_lock() calls of all threads

ASSUME SleepMutexAssumption == MaxCalls \in Nat

VARIABLES
    locked,     \* SleepMutex.locked
    queue,      \* SleepMutex.queue
    hit         \* history: the timer has hit the window of some lock()

vars == <<threadVars, locked, queue, pc, calls, hit>>

Pcs == {"idle", "try", "contended", "recheck", "acquired", "sleep", "awake",
        "held", "wake"}

(* The thread on the CPU is between prepare_wait and the second             *)
(* compare-exchange or the finish_wait after it.                            *)
InWindow == current # NoThread /\ pc[current] \in {"recheck", "acquired"}

(* The threads for which the lock word was taken.                           *)
Holders == {t \in Threads : pc[t] \in {"acquired", "held"}}

Init ==
    /\ ThreadsInit
    /\ locked = FALSE
    /\ queue = <<>>
    /\ pc = [t \in Threads |-> "idle"]
    /\ calls = [t \in Threads |-> 0]
    /\ hit = FALSE

CallLock(t) ==
    /\ At(t, "idle")
    /\ MapThenSumSet(LAMBDA u : calls[u], Threads) < MaxCalls
    /\ calls' = [calls EXCEPT ![t] = @ + 1]
    /\ Goto(t, "try")
    /\ UNCHANGED <<threadVars, locked, queue>>

(* try_lock *)
TryLock(t) ==
    /\ At(t, "idle")
    /\ MapThenSumSet(LAMBDA u : calls[u], Threads) < MaxCalls
    /\ calls' = [calls EXCEPT ![t] = @ + 1]
    /\ IF locked THEN UNCHANGED <<locked, pc>>
       ELSE locked' = TRUE /\ Goto(t, "held")
    /\ UNCHANGED <<threadVars, queue>>

(* Mutant: the lock word is stored without a compare.                       *)
AcquireBlindly(t) ==
    /\ At(t, "try")
    /\ locked' = TRUE
    /\ Goto(t, "held")
    /\ UNCHANGED <<threadVars, queue, calls>>

(* The compare-exchanges of the spin loop and at the head of the sleep      *)
(* loop: a spinning thread that finds the lock taken tries again, or gives  *)
(* up and goes on to prepare_wait.  (Callers honour the requirement that    *)
(* interrupts are on and no IrqMutex is held.)                              *)
Acquire(t) ==
    /\ At(t, "try")
    /\ ~locked
    /\ locked' = TRUE
    /\ Goto(t, "held")
    /\ UNCHANGED <<threadVars, queue, calls>>

GiveUp(t) ==
    /\ At(t, "try")
    /\ locked
    /\ Goto(t, "contended")
    /\ UNCHANGED <<threadVars, locked, queue, calls>>

Enqueue(t) ==
    /\ At(t, "contended")
    /\ PrepareWait(t)
    /\ queue' = Append(queue, t)
    /\ Goto(t, "recheck")
    /\ UNCHANGED <<locked, calls>>

(* Mutant: no second compare-exchange.                                      *)
RecheckSkipped(t) ==
    /\ At(t, "recheck")
    /\ Goto(t, "sleep")
    /\ UNCHANGED <<threadVars, locked, queue, calls>>

(* The second compare-exchange, after prepare_wait.                         *)
Recheck(t) ==
    /\ At(t, "recheck")
    /\ locked' = TRUE
    /\ Goto(t, IF locked THEN "sleep" ELSE "acquired")
    /\ UNCHANGED <<threadVars, queue, calls>>

(* finish_wait, after the second compare-exchange took the lock or after    *)
(* schedule() returned.                                                     *)
Leave(t) ==
    /\ \/ At(t, "acquired") /\ Goto(t, "held")
       \/ At(t, "awake") /\ Goto(t, "try")
    /\ FinishWait(t)
    /\ queue' = Without(queue, t)
    /\ UNCHANGED <<locked, calls>>

CallSchedule(t) ==
    /\ At(t, "sleep")
    /\ Reschedule
    /\ Goto(t, "awake")
    /\ UNCHANGED <<locked, queue, calls>>

(* SleepMutexGuard::drop: release the word, then wake_one.                  *)
Release(t) ==
    /\ At(t, "held")
    /\ locked' = FALSE
    /\ Goto(t, "wake")
    /\ UNCHANGED <<threadVars, queue, calls>>

WakeNext(t) ==
    /\ At(t, "wake")
    /\ WakeOne(queue)
    /\ queue' = AfterWake(queue)
    /\ Goto(t, "idle")
    /\ UNCHANGED <<locked, calls>>

(* The timer interrupt.                                                     *)
Preempt ==
    /\ Reschedule
    /\ hit' = (hit \/ InWindow)
    /\ UNCHANGED <<locked, queue, pc, calls>>

Step(t) ==
    \/ Acquire(t)
    \/ GiveUp(t)
    \/ Enqueue(t)
    \/ Recheck(t)
    \/ Leave(t)
    \/ CallSchedule(t)
    \/ Release(t)
    \/ WakeNext(t)

Next ==
    \/ Preempt
    \/ \E t \in Threads : (CallLock(t) \/ TryLock(t) \/ Step(t)) /\ UNCHANGED hit

(* The timer keeps firing; a thread inside lock() or drop(), or holding the *)
(* guard, gets on when it has the CPU again and again.                      *)
Fairness == WF_vars(Preempt) /\ \A t \in Threads : SF_vars(Step(t) /\ UNCHANGED hit)

Spec == Init /\ [][Next]_vars /\ Fairness

-----------------------------------------------------------------------------
(* Properties *)

TypeOK ==
    /\ ThreadsTypeOK
    /\ locked \in BOOLEAN
    /\ queue \in Seq(Threads)
    /\ pc \in [Threads -> Pcs]
    /\ calls \in [Threads -> Nat]
    /\ hit \in BOOLEAN

(* Only one thread holds a guard, and the lock word says whether one does.  *)
MutualExclusion ==
    /\ \A t, u \in Holders : t = u
    /\ locked <=> Holders # {}

(* A sleeping waiter is never forgotten by its queue: a thread that is      *)
(* blocked is linked into the queue that drop() looks at.                   *)
SleeperIsQueued == \A t \in Threads : state[t] = "Blocked" => t \in ToSet(queue)

(* lock() returns: no wake-up is lost, and a waiter gets the lock when the  *)
(* guards before it are dropped.                                            *)
LockReturns == \A t \in Threads : (pc[t] = "try") ~> (pc[t] = "held")

(* lock() returns unless the timer hits a window after prepare_wait; a tick *)
(* anywhere else, before enqueueing, before schedule() or between the       *)
(* release and the wake-up included, loses nothing.                         *)
LockReturnsOutsideWindow ==
    \A t \in Threads :
        (pc[t] = "try") ~> (pc[t] = "held" \/ hit)
=============================================================================
