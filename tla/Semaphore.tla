----------------------------- MODULE Semaphore -----------------------------
(***************************************************************************)
(* Semaphore (kernel/src/sync.rs): an atomic counter with a WaitQueue.     *)
(* try_wait loads the counter and decrements it with a compare-exchange;   *)
(* wait() calls it, queues the thread, calls it again, and sleeps.  As in  *)
(* SleepMutex the counter is outside the SCHEDULER lock.                   *)
(***************************************************************************)
EXTENDS Threads

CONSTANTS
    Initial,        \* the initial count
    MaxSemCalls        \* bound on the calls of all threads

ASSUME SemaphoreAssumption == Initial \in Nat /\ MaxSemCalls \in Nat

VARIABLES
    count,      \* Semaphore.count
    semQueue,   \* Semaphore.queue
    seen,       \* `current` in try_wait
    posted,     \* history: signals whose fetch_add is done
    taken,      \* history: successful try_waits
    semHit      \* history: the timer has hit the window of some wait()

semVars == <<threadVars, count, semQueue, pc, seen, calls, posted, taken, semHit>>

(* The labels of the two try_waits of wait(): the first ends in success or  *)
(* in prepare_wait, the second (after prepare_wait) in finish_wait or in    *)
(* schedule(); "poll" is a try_wait of its own.                             *)
TryLabels == {"first", "second", "poll"}
Cas == [first |-> "cas1", second |-> "cas2", poll |-> "cas3"]
SemPcs == {"idle", "prepare", "leave", "sleep", "awake", "wake"}
         \cup TryLabels \cup {Cas[l] : l \in TryLabels}

OnSuccess == [first |-> "idle", second |-> "leave", poll |-> "idle"]
OnZero == [first |-> "prepare", second |-> "sleep", poll |-> "idle"]

(* The thread on the CPU is between prepare_wait and the end of the second  *)
(* try_wait or the finish_wait after it.                                    *)
SemWindow == current # NoThread /\ pc[current] \in {"second", "cas2", "leave"}

SemInit ==
    /\ ThreadsInit
    /\ count = Initial
    /\ semQueue = <<>>
    /\ pc = [t \in Threads |-> "idle"]
    /\ seen = [t \in Threads |-> 0]
    /\ calls = [t \in Threads |-> 0]
    /\ posted = 0
    /\ taken = 0
    /\ semHit = FALSE

(* A call of wait() or of try_wait().                                       *)
SemCall(t, label) ==
    /\ At(t, "idle")
    /\ MapThenSumSet(LAMBDA u : calls[u], Threads) < MaxSemCalls
    /\ calls' = [calls EXCEPT ![t] = @ + 1]
    /\ Goto(t, label)
    /\ UNCHANGED <<threadVars, count, semQueue, seen, posted, taken>>

(* try_wait: the load, and the test for zero.                               *)
Load(t, l) ==
    /\ At(t, l)
    /\ seen' = [seen EXCEPT ![t] = count]
    /\ Goto(t, IF count = 0 THEN OnZero[l] ELSE Cas[l])
    /\ UNCHANGED <<threadVars, count, semQueue, calls, posted, taken>>

(* Mutant: the decremented value is stored without a compare.               *)
StoreBlindly(t, l) ==
    /\ At(t, Cas[l])
    /\ count' = seen[t] - 1
    /\ taken' = taken + 1
    /\ Goto(t, OnSuccess[l])
    /\ UNCHANGED <<threadVars, semQueue, seen, calls, posted>>

(* try_wait: the compare-exchange; on failure the new value is tested.      *)
CompareExchange(t, l) ==
    /\ At(t, Cas[l])
    /\ IF count = seen[t]
       THEN /\ count' = seen[t] - 1
            /\ taken' = taken + 1
            /\ Goto(t, OnSuccess[l])
            /\ UNCHANGED seen
       ELSE /\ seen' = [seen EXCEPT ![t] = count]
            /\ Goto(t, IF count = 0 THEN OnZero[l] ELSE Cas[l])
            /\ UNCHANGED <<count, taken>>
    /\ UNCHANGED <<threadVars, semQueue, calls, posted>>

SemEnqueue(t) ==
    /\ At(t, "prepare")
    /\ PrepareWait(t)
    /\ semQueue' = Append(semQueue, t)
    /\ Goto(t, "second")
    /\ UNCHANGED <<count, seen, calls, posted, taken>>

(* finish_wait, after the second try_wait or after schedule().              *)
SemLeave(t) ==
    /\ \/ At(t, "leave") /\ Goto(t, "idle")
       \/ At(t, "awake") /\ Goto(t, "first")
    /\ FinishWait(t)
    /\ semQueue' = Without(semQueue, t)
    /\ UNCHANGED <<count, seen, calls, posted, taken>>

SemSchedule(t) ==
    /\ At(t, "sleep")
    /\ Reschedule
    /\ Goto(t, "awake")
    /\ UNCHANGED <<count, semQueue, seen, calls, posted, taken>>

(* signal: fetch_add, then wake_one.                                        *)
Signal(t) ==
    /\ At(t, "idle")
    /\ MapThenSumSet(LAMBDA u : calls[u], Threads) < MaxSemCalls
    /\ calls' = [calls EXCEPT ![t] = @ + 1]
    /\ count' = count + 1
    /\ posted' = posted + 1
    /\ Goto(t, "wake")
    /\ UNCHANGED <<threadVars, semQueue, seen, taken>>

SemWakeNext(t) ==
    /\ At(t, "wake")
    /\ WakeOne(semQueue)
    /\ semQueue' = AfterWake(semQueue)
    /\ Goto(t, "idle")
    /\ UNCHANGED <<count, seen, calls, posted, taken>>

SemPreempt ==
    /\ Reschedule
    /\ semHit' = (semHit \/ SemWindow)
    /\ UNCHANGED <<count, semQueue, pc, seen, calls, posted, taken>>

SemStep(t) ==
    \/ \E l \in TryLabels : Load(t, l) \/ CompareExchange(t, l)
    \/ SemEnqueue(t)
    \/ SemLeave(t)
    \/ SemSchedule(t)
    \/ SemWakeNext(t)

SemNext ==
    \/ SemPreempt
    \/ /\ \E t \in Threads :
             \/ SemCall(t, "first")
             \/ SemCall(t, "poll")
             \/ Signal(t)
             \/ SemStep(t)
       /\ UNCHANGED semHit

(* The timer keeps firing, and a thread inside a call gets on when it has   *)
(* the CPU again and again.  Nobody has to call signal().                   *)
SemFairness == WF_semVars(SemPreempt) /\ \A t \in Threads : SF_semVars(SemStep(t) /\ UNCHANGED semHit)

SemSpec == SemInit /\ [][SemNext]_semVars /\ SemFairness

-----------------------------------------------------------------------------
(* Properties *)

SemTypeOK ==
    /\ ThreadsTypeOK
    /\ count \in Nat
    /\ semQueue \in Seq(Threads)
    /\ pc \in [Threads -> SemPcs]
    /\ seen \in [Threads -> Nat]
    /\ calls \in [Threads -> Nat]
    /\ posted \in Nat /\ taken \in Nat
    /\ semHit \in BOOLEAN

(* Every token is taken once: the counter is what was posted and not taken, *)
(* however the loads and compare-exchanges of several threads interleave.   *)
TokensConserved == count + taken = Initial + posted

(* A waiter does not sleep on a positive counter: as long as tokens are     *)
(* left, a thread in wait() gets one of them, unless the timer has hit the  *)
(* window after a prepare_wait (see LockReturns in SleepMutex).             *)
WaitReturns ==
    \A t \in Threads :
        (pc[t] # "idle" /\ count > 0)
        ~> (pc[t] = "idle" \/ count = 0 \/ semHit)
=============================================================================
