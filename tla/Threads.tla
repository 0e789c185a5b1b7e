------------------------------ MODULE Threads ------------------------------
(***************************************************************************)
(* The scheduler as the blocking primitives of kernel/src/sync.rs use it:  *)
(* threads on one CPU, a round-robin ready queue, preemption by the timer, *)
(* and the three calls on a WaitQueue (prepare_wait, finish_wait and       *)
(* wake_one), each of which runs under the SCHEDULER lock with interrupts  *)
(* off.  Module Scheduler has the whole scheduler.                         *)
(***************************************************************************)
EXTENDS Integers, Sequences, SequencesExt, FiniteSetsExt

CONSTANTS
    Threads,    \* the kernel threads that share the primitive
    NoThread    \* the idle process has the CPU

ASSUME ThreadsAssumption == NoThread \notin Threads /\ IsFiniteSet(Threads)

VARIABLES
    state,      \* Process.state
    waiting,    \* Process.block_reason.is_some()
    ready,      \* Scheduler.ready
    current,    \* the thread on the CPU
    pc,         \* where each thread is in a call on the primitive
    calls       \* calls made

threadVars == <<state, waiting, ready, current>>

ThreadsInit ==
    /\ state = [t \in Threads |-> "Ready"]
    /\ waiting = [t \in Threads |-> FALSE]
    /\ ready \in SetToSeqs(Threads)
    /\ current = NoThread

Goto(t, label) == pc' = [pc EXCEPT ![t] = label]

At(t, label) == current = t /\ pc[t] = label

(* schedule_internal: requeue a thread that is still Running, then switch   *)
(* to the front of the ready queue or to the idle process.                  *)
Reschedule ==
    LET requeue == current # NoThread /\ state[current] = "Running"
        st == IF requeue THEN [state EXCEPT ![current] = "Ready"] ELSE state
        rq == IF requeue THEN Append(ready, current) ELSE ready
    IN  /\ IF rq = <<>>
           THEN /\ current' = NoThread
                /\ ready' = rq
                /\ state' = st
           ELSE /\ current' = Head(rq)
                /\ ready' = Tail(rq)
                /\ state' = [st EXCEPT ![Head(rq)] = "Running"]
        /\ UNCHANGED waiting

(* prepare_wait, for the thread; the caller appends it to its queue.        *)
PrepareWait(t) ==
    /\ state' = [state EXCEPT ![t] = "Blocked"]
    /\ waiting' = [waiting EXCEPT ![t] = TRUE]
    /\ UNCHANGED <<ready, current>>

(* finish_wait, for the thread; the caller takes it off its queue.          *)
FinishWait(t) ==
    /\ IF state[t] = "Blocked"
       THEN /\ state' = [state EXCEPT ![t] = "Running"]
            /\ waiting' = [waiting EXCEPT ![t] = FALSE]
       ELSE UNCHANGED <<state, waiting>>
    /\ UNCHANGED <<ready, current>>

(* A thread is linked into a queue once.                                    *)
Without(queue, t) ==
    IF t \in ToSet(queue)
    THEN RemoveAt(queue, CHOOSE i \in DOMAIN queue : queue[i] = t)
    ELSE queue

(* wake_one drops the entries of threads that need no wake-up and wakes the *)
(* first one that does.                                                     *)
Wakeable(t) == state[t] = "Blocked" \/ (current = t /\ waiting[t])

Candidates(queue) == {i \in DOMAIN queue : Wakeable(queue[i])}

(* The queue that wake_one leaves.                                          *)
AfterWake(queue) ==
    IF Candidates(queue) = {} THEN <<>>
    ELSE SubSeq(queue, Min(Candidates(queue)) + 1, Len(queue))

WakeOne(queue) ==
    /\ IF Candidates(queue) = {}
       THEN UNCHANGED <<state, waiting, ready>>
       ELSE LET t == queue[Min(Candidates(queue))]
            IN  /\ waiting' = [waiting EXCEPT ![t] = FALSE]
                /\ IF current = t
                   THEN /\ state' = [state EXCEPT ![t] = "Running"]
                        /\ UNCHANGED ready
                   ELSE /\ state' = [state EXCEPT ![t] = "Ready"]
                        /\ ready' = Append(ready, t)
    /\ UNCHANGED current

(* Types, and the bookkeeping of the scheduler: the Ready threads are the   *)
(* ones in the ready queue, each once, and the thread on the CPU is not     *)
(* one of them.                                                             *)
ThreadsTypeOK ==
    /\ state \in [Threads -> {"Ready", "Running", "Blocked"}]
    /\ waiting \in [Threads -> BOOLEAN]
    /\ ready \in Seq(Threads)
    /\ current \in Threads \cup {NoThread}
    /\ IsInjective(ready)
    /\ ToSet(ready) = {t \in Threads : state[t] = "Ready"}
    /\ \A t \in Threads : state[t] = "Running" => current = t
=============================================================================
