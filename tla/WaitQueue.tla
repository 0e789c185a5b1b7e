----------------------------- MODULE WaitQueue -----------------------------
(***************************************************************************)
(* The intrusive wait queues (kernel/src/task/process.rs, WaitQueue): a    *)
(* queue is a head and a tail, and the links are two fields of the process *)
(* control block, shared by every queue and by the scheduler's sleep       *)
(* queue.  Everything runs under SCHEDULER; the loop of wake_one is a      *)
(* sequence of steps during which the lock is held.                        *)
(***************************************************************************)
EXTENDS Integers, FiniteSets

CONSTANTS
    Pids, NoPid,    \* the processes, None
    Queues, NoQueue,
    SleepQueue,     \* Scheduler.sleep_queue
    Killable,       \* whether SIGKILL hits processes blocked on a queue
                    \* other than the sleep queue
    Purgeable       \* the processes that destroy_window removes

ASSUME WaitQueueAssumption ==
    /\ NoPid \notin Pids /\ NoQueue \notin Queues /\ SleepQueue \in Queues
    /\ Killable \in BOOLEAN /\ Purgeable \subseteq Pids

VARIABLES
    head, tail,     \* of each queue
    next, prev,     \* Process.wait_next, Process.wait_prev
    table,          \* the keys of Scheduler.table
    exited,         \* Process.exited
    waits,          \* the queue each process is blocked on
    waking          \* the queue whose wake_one holds SCHEDULER

wqVars == <<head, tail, next, prev, table, exited, waits, waking>>

Links == [Pids -> Pids \cup {NoPid}]

WqInit ==
    /\ head = [q \in Queues |-> NoPid]
    /\ tail = [q \in Queues |-> NoPid]
    /\ next = [p \in Pids |-> NoPid]
    /\ prev = [p \in Pids |-> NoPid]
    /\ table = Pids
    /\ exited = {}
    /\ waits = [p \in Pids |-> NoQueue]
    /\ waking = NoQueue

(* Mutant: the process joins in front.                                      *)
EnqueueInFront(p, q) ==
    /\ waking = NoQueue
    /\ p \in table \ exited
    /\ waits[p] = NoQueue
    /\ waits' = [waits EXCEPT ![p] = q]
    /\ next' = [next EXCEPT ![p] = head[q]]
    /\ prev' = [x \in Pids |-> IF x = p THEN NoPid
                               ELSE IF x = head[q] /\ x \in table THEN p
                               ELSE prev[x]]
    /\ head' = [head EXCEPT ![q] = p]
    /\ tail' = IF tail[q] = NoPid THEN [tail EXCEPT ![q] = p] ELSE tail
    /\ UNCHANGED <<table, exited, waking>>

(* enqueue_internal (prepare_wait) and enqueue_sleep: the current process   *)
(* joins a queue.                                                           *)
EnqueueInternal(p, q) ==
    /\ waking = NoQueue
    /\ p \in table \ exited
    /\ waits[p] = NoQueue
    /\ waits' = [waits EXCEPT ![p] = q]
    /\ prev' = [prev EXCEPT ![p] = tail[q]]
    /\ next' = [x \in Pids |-> IF x = p THEN NoPid
                               ELSE IF x = tail[q] /\ x \in table THEN p
                               ELSE next[x]]
    /\ head' = IF tail[q] = NoPid THEN [head EXCEPT ![q] = p] ELSE head
    /\ tail' = [tail EXCEPT ![q] = p]
    /\ UNCHANGED <<table, exited, waking>>

(* Mutant: the tail stays when the last entry leaves.                       *)
UnlinkKeepsTail(p, q) ==
    LET before == prev[p]
        after == next[p]
    IN  /\ next' = [x \in Pids |-> IF x = p THEN NoPid
                                   ELSE IF x = before /\ x \in table THEN after
                                   ELSE next[x]]
        /\ prev' = [x \in Pids |-> IF x = p THEN NoPid
                                   ELSE IF x = after /\ x \in table THEN before
                                   ELSE prev[x]]
        /\ head' = IF before = NoPid /\ head[q] = p
                   THEN [head EXCEPT ![q] = after] ELSE head
        /\ UNCHANGED tail

(* remove_internal, and remove_sleep, which is the same code on the fields  *)
(* of the sleep queue: p's neighbours are linked to each other, and the     *)
(* ends of queue q are moved if p is one of them.                           *)
Unlink(p, q) ==
    LET before == prev[p]
        after == next[p]
    IN  /\ next' = [x \in Pids |-> IF x = p THEN NoPid
                                   ELSE IF x = before /\ x \in table THEN after
                                   ELSE next[x]]
        /\ prev' = [x \in Pids |-> IF x = p THEN NoPid
                                   ELSE IF x = after /\ x \in table THEN before
                                   ELSE prev[x]]
        /\ head' = IF before = NoPid /\ head[q] = p
                   THEN [head EXCEPT ![q] = after] ELSE head
        /\ tail' = IF after = NoPid /\ tail[q] = p
                   THEN [tail EXCEPT ![q] = before] ELSE tail

(* finish_wait of a process that was not woken through its queue, or the    *)
(* wake-up of a sleeper by poll_sleeping_processes_locked.                  *)
LeaveQueue(p) ==
    /\ waking = NoQueue
    /\ p \in table
    /\ waits[p] # NoQueue
    /\ Unlink(p, waits[p])
    /\ waits' = [waits EXCEPT ![p] = NoQueue]
    /\ UNCHANGED <<table, exited, waking>>

(* wake_one takes the lock ...                                              *)
WakeBegin(q) ==
    /\ waking = NoQueue
    /\ q # SleepQueue
    /\ head[q] # NoPid
    /\ waking' = q
    /\ UNCHANGED <<head, tail, next, prev, table, exited, waits>>

(* ... dequeues the head: a waiter is woken, an entry of a process that no  *)
(* longer waits is dropped and the loop goes on ...                         *)
DequeueHead(q) ==
    /\ waking = q
    /\ head[q] \in table
    /\ LET p == head[q]
           after == next[p]
       IN  /\ next' = [next EXCEPT ![p] = NoPid]
           /\ prev' = [x \in Pids |-> IF x = p \/ (x = after /\ x \in table)
                                      THEN NoPid ELSE prev[x]]
           /\ head' = [head EXCEPT ![q] = after]
           /\ tail' = IF after = NoPid THEN [tail EXCEPT ![q] = NoPid] ELSE tail
           /\ waits' = [waits EXCEPT ![p] = NoQueue]
           /\ waking' = IF waits[p] = q THEN NoQueue ELSE waking
    /\ UNCHANGED <<table, exited>>

(* ... or repairs the queue when the head is not in the table: the process  *)
(* whose wait_prev is the missing one becomes the head, and if there is     *)
(* none the queue is emptied.                                               *)
Successors(p) == {x \in table : prev[x] = p}

DequeueMissing(q) ==
    /\ waking = q
    /\ head[q] # NoPid /\ head[q] \notin table
    /\ \/ /\ head[q] # tail[q]
          /\ \E x \in Successors(head[q]) :
                /\ head' = [head EXCEPT ![q] = x]
                /\ prev' = [prev EXCEPT ![x] = NoPid]
          /\ UNCHANGED tail
       \/ /\ head[q] = tail[q] \/ Successors(head[q]) = {}
          /\ head' = [head EXCEPT ![q] = NoPid]
          /\ tail' = [tail EXCEPT ![q] = NoPid]
          /\ UNCHANGED prev
    /\ UNCHANGED <<next, table, exited, waits, waking>>

WakeEnd(q) ==
    /\ waking = q
    /\ head[q] = NoPid
    /\ waking' = NoQueue
    /\ UNCHANGED <<head, tail, next, prev, table, exited, waits>>

(* exit_process on a blocked process: it stays linked.  wake_one will pass  *)
(* over it; in the sleep queue it stays until its time has come.            *)
Terminate(p) ==
    /\ waking = NoQueue
    /\ p \in table \ exited
    /\ waits' = IF waits[p] = SleepQueue THEN waits
                ELSE [waits EXCEPT ![p] = NoQueue]
    /\ exited' = exited \cup {p}
    /\ UNCHANGED <<head, tail, next, prev, table, waking>>

(* SIGKILL: remove_sleep whatever queue the process is blocked on.          *)
Kill(p) ==
    /\ waking = NoQueue
    /\ p \in table \ exited
    /\ waits[p] = SleepQueue \/ (Killable /\ waits[p] # NoQueue)
    /\ Unlink(p, SleepQueue)
    /\ waits' = [waits EXCEPT ![p] = NoQueue]
    /\ exited' = exited \cup {p}
    /\ UNCHANGED <<table, waking>>

(* purge_pid, as destroy_window calls it for a process other than the       *)
(* current one: the table entry goes, with its links.                       *)
Purge(p) ==
    /\ waking = NoQueue
    /\ p \in table \cap Purgeable
    /\ waits[p] # SleepQueue
    /\ table' = table \ {p}
    /\ waits' = [waits EXCEPT ![p] = NoQueue]
    /\ next' = [next EXCEPT ![p] = NoPid]
    /\ prev' = [prev EXCEPT ![p] = NoPid]
    /\ UNCHANGED <<head, tail, exited, waking>>

WqNext ==
    \/ \E q \in Queues : WakeBegin(q) \/ DequeueHead(q) \/ DequeueMissing(q) \/ WakeEnd(q)
    \/ \E p \in Pids :
          \/ \E q \in Queues : EnqueueInternal(p, q)
          \/ LeaveQueue(p)
          \/ Terminate(p)
          \/ Kill(p)
          \/ Purge(p)

WqSpec == WqInit /\ [][WqNext]_wqVars

(* Types; a queue has both ends or none.                                    *)
WqTypeOK ==
    /\ head \in [Queues -> Pids \cup {NoPid}]
    /\ tail \in [Queues -> Pids \cup {NoPid}]
    /\ next \in Links /\ prev \in Links
    /\ table \subseteq Pids /\ exited \subseteq Pids
    /\ waits \in [Pids -> Queues \cup {NoQueue}]
    /\ waking \in Queues \cup {NoQueue}
    /\ \A q \in Queues : head[q] = NoPid <=> tail[q] = NoPid
=============================================================================
