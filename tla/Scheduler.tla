----------------------------- MODULE Scheduler -----------------------------
(***************************************************************************)
(* The preemptive process scheduler (kernel/src/task/process.rs): the      *)
(* process table, the ready queue, the sleep queue, schedule_internal with *)
(* the timer and the IPC fast path as its callers, waitpid, exit, and the  *)
(* signals.  One CPU schedules: the application processors spin in         *)
(* ap_kernel_entry.  Concurrency is preemption: the timer may switch away  *)
(* from the current process between any two critical sections of           *)
(* SCHEDULER, and every action below is one such section.                  *)
(*                                                                         *)
(* The content of SCHEDULER is one record, so that a critical section is a *)
(* composition of the functions the code calls in it.  The intrusive list  *)
(* of a wait queue is a sequence here; module WaitQueue has the links.     *)
(***************************************************************************)
EXTENDS Integers, Sequences, SequencesExt, FiniteSetsExt

CONSTANTS
    Pids,           \* the processes, without the idle process
    Idle,           \* pid 0
    NoPid,          \* None
    Boot,           \* the bootstrap process, running when preemption starts
    QuantumTicks,   \* QUANTUM_TICKS
    Sleepers,       \* the processes that call sleep_ms
    SleepTicks,     \* the durations they sleep for
    Signals,        \* the signals sent with SYS_KILL
    UiKill,         \* whether the terminal or task manager ends processes
    Senders,        \* the processes that use the IPC fast path
    Leavers,        \* the processes that call exit_current
    MaxReady        \* bound on the ready queue, which the IPC fast path and
                    \* SIGSTOP followed by SIGCONT fill with stale entries

ASSUME SchedulerAssumption ==
    /\ Idle \notin Pids /\ NoPid \notin Pids \cup {Idle} /\ Boot \in Pids
    /\ QuantumTicks \in Nat \ {0}
    /\ Sleepers \subseteq Pids /\ SleepTicks \subseteq Nat
    /\ Signals \subseteq {"KILL", "STOP", "CONT", "TERM"}
    /\ UiKill \in BOOLEAN
    /\ Senders \subseteq Pids /\ Leavers \subseteq Pids \ {Boot}
    /\ MaxReady \in Nat

VARIABLES
    sched,      \* the content of SCHEDULER
    ticksLeft,  \* PerCpuBlock.ticks_left
    pc,         \* where each process continues in the kernel
    ctx         \* Process.ctx: where a process continued when it was last
                \* switched out

vars == <<sched, ticksLeft, pc, ctx>>

AllPids == Pids \cup {Idle}

States == {"Unused", "Ready", "Running", "Blocked", "Exiting", "Terminated",
           "Exited", "Reaped"}

(* BlockReason; a sleep's target tick is kept as the ticks still to go.     *)
None == [kind |-> "None"]
Generic == [kind |-> "Generic"]
Sleep(n) == [kind |-> "Sleep", left |-> n]
WaitPid(c) == [kind |-> "WaitPid", child |-> c]

(* The kernel code a process is in: its own code, the gap between blocking  *)
(* itself (why says on what) and calling schedule(), the code after that    *)
(* call, or the teardown of exit_current.                                   *)
Run == [at |-> "run"]
Prepared(why) == [at |-> "prepared", why |-> why]
Resumed(why) == [at |-> "resumed", why |-> why]
Yielding(t) == [at |-> "yield", to |-> t]
Teardown == [at |-> "teardown"]

-----------------------------------------------------------------------------
(* Functions of a scheduler record s *)

State(s, p) == s.table[p].state

SetState(s, p, st) == [s EXCEPT !.table[p].state = st]

Blocked(s, p, why) ==
    [s EXCEPT !.table[p].state = "Blocked", !.table[p].reason = why]

MakeReady(s, p) ==
    [s EXCEPT !.table[p].state = "Ready", !.table[p].reason = None,
              !.ready = Append(@, p)]

(* The entries of a queue that are in S, in their order.                    *)
Keeping(seq, S) ==
    LET kept[i \in 0 .. Len(seq)] ==
            IF i = 0 THEN << >>
            ELSE IF seq[i] \in S THEN Append(kept[i - 1], seq[i]) ELSE kept[i - 1]
    IN  kept[Len(seq)]

Unqueued(seq, p) == Keeping(seq, AllPids \ {p})

(* The end of finish_wait: the list node is gone, a process still marked    *)
(* Blocked runs.                                                            *)
FinishWait(s, p) ==
    LET t == [s EXCEPT !.waitq = Unqueued(@, p)]
    IN  IF State(t, p) = "Blocked"
        THEN [t EXCEPT !.table[p].state = "Running", !.table[p].reason = None]
        ELSE t

RemoveSleep(s, p) == [s EXCEPT !.sleepq = Unqueued(@, p)]

(* The processes wake_one accepts: a blocked one, or the one on the CPU     *)
(* that has not come to its schedule() yet.                                 *)
Wakeable(s, p) ==
    \/ State(s, p) = "Blocked"
    \/ s.current = p /\ s.table[p].reason # None

Candidates(s) == {i \in DOMAIN s.waitq : Wakeable(s, s.waitq[i])}

(* The process wake_one returns.                                            *)
Woken(s) == IF Candidates(s) = {} THEN NoPid ELSE s.waitq[Min(Candidates(s))]

(* wake_one: drop the nodes of processes that need no wake-up, wake the     *)
(* first that does.                                                         *)
WakeOne(s) ==
    IF Candidates(s) = {} THEN [s EXCEPT !.waitq = <<>>]
    ELSE LET i == Min(Candidates(s))
             p == s.waitq[i]
             t == [s EXCEPT !.waitq = SubSeq(@, i + 1, Len(@))]
         IN  IF s.current = p
             THEN [t EXCEPT !.table[p].state = "Running",
                            !.table[p].reason = None]
             ELSE MakeReady(t, p)

(* poll_sleeping_processes_locked: wake every sleeper whose tick has come,  *)
(* in queue order.                                                          *)
Due(s, p) == s.table[p].reason.kind = "Sleep" /\ s.table[p].reason.left = 0

(* Mutant: the walk wakes every sleeper, due or not.                        *)
PollSleepingAll(s) ==
    [s EXCEPT
       !.sleepq = <<>>,
       !.ready = @ \o s.sleepq,
       !.table = [p \in AllPids |->
                    IF p \in ToSet(s.sleepq)
                    THEN [@[p] EXCEPT !.state = "Ready", !.reason = None]
                    ELSE @[p]]]

PollSleeping(s) ==
    LET due == {p \in AllPids : Due(s, p)}
        woken == Keeping(s.sleepq, due)
    IN  [s EXCEPT
           !.sleepq = Keeping(@, AllPids \ due),
           !.ready = @ \o woken,
           !.table = [p \in AllPids |->
                        IF p \in ToSet(woken)
                        THEN [@[p] EXCEPT !.state = "Ready", !.reason = None]
                        ELSE @[p]]]

Dead(s, p) == s.table[p].exited \/ s.table[p].reaped

(* Mutant: the preempted process goes to the front.                         *)
RequeueFirst(s) ==
    IF s.current # NoPid /\ State(s, s.current) = "Running" /\ ~Dead(s, s.current)
    THEN [SetState(s, s.current, "Ready") EXCEPT !.ready = <<s.current>> \o @]
    ELSE s

Requeue(s) ==
    IF s.current # NoPid /\ State(s, s.current) = "Running" /\ ~Dead(s, s.current)
    THEN [SetState(s, s.current, "Ready") EXCEPT !.ready = Append(@, s.current)]
    ELSE s

(* The test of the scan of the ready queue; it does not look for Blocked.   *)
Runnable(s, p) == ~Dead(s, p) /\ State(s, p) \notin {"Terminated", "Exited"}

(* The test of the yield_to hint.                                           *)
HintTaken(s, p) ==
    p # NoPid /\ ~Dead(s, p) /\ State(s, p) \in {"Ready", "Running"}

SwitchTo(s, p) ==
    [s EXCEPT !.current = p, !.table[p].state = "Running"]

(* The choice of schedule_internal: the hint, which stays in the ready      *)
(* queue; or the first runnable entry, the ones before it being dropped; or *)
(* the idle process.                                                        *)
PickNext(s, hint) ==
    LET found == {i \in DOMAIN s.ready : Runnable(s, s.ready[i])}
    IN  IF HintTaken(s, hint) THEN SwitchTo(s, hint)
        ELSE IF found # {}
             THEN SwitchTo([s EXCEPT !.ready = SubSeq(@, Min(found) + 1, Len(@))],
                           s.ready[Min(found)])
             ELSE IF s.current = Idle THEN [s EXCEPT !.ready = <<>>]
                  ELSE SwitchTo([s EXCEPT !.ready = <<>>], Idle)

(* Mutant: the parent's own pid is compared with the child it waits for.    *)
WakeParentMixedUp(s, child) ==
    LET par == s.table[child].parent
    IN  IF par # NoPid /\ (IF s.table[par].reason.kind = "WaitPid"
                           THEN s.table[par].reason.child = par
                           ELSE State(s, par) = "Blocked")
        THEN MakeReady(s, par)
        ELSE s

(* exit_current and SIGKILL wake the parent if it waits for this child, or  *)
(* if it is blocked for any other reason.                                   *)
WakeParent(s, child) ==
    LET par == s.table[child].parent
    IN  IF par # NoPid /\ (IF s.table[par].reason.kind = "WaitPid"
                           THEN s.table[par].reason.child = child
                           ELSE State(s, par) = "Blocked")
        THEN MakeReady(s, par)
        ELSE s

(* The end of a process, in exit_current and in SIGKILL.                    *)
Terminated(s, p) ==
    [s EXCEPT !.table[p].state = "Terminated", !.table[p].exited = TRUE]

-----------------------------------------------------------------------------
(* schedule_internal on record s.  The caller continues at pcNext when it   *)
(* gets the CPU again; the process that is switched in continues where its  *)
(* saved context says.  on_cpu, which finish_switch maintains, is read only *)
(* to keep a second scheduling CPU away, and there is none.                 *)
ScheduleInternal(s, hint, pcNext) ==
    \E polled \in {PollSleeping(s)} :
    \E requeued \in {Requeue(polled)} :
    \E picked \in {PickNext(requeued, hint)} :
        LET me == requeued.current
            next == picked.current
        IN  /\ ticksLeft' = QuantumTicks
            /\ IF next = me
               THEN /\ sched' = picked
                    /\ pc' = pcNext
                    /\ UNCHANGED ctx
               ELSE /\ sched' = picked
                    /\ pc' = [pcNext EXCEPT ![next] = ctx[next]]
                    /\ ctx' = IF me = NoPid THEN ctx
                              ELSE [ctx EXCEPT ![me] = pcNext[me]]

Executing(p) == sched.current = p /\ p \in Pids

InOwnCode(p) == Executing(p) /\ pc[p] = Run

-----------------------------------------------------------------------------
(* Actions of the current process *)

Init ==
    /\ sched = [table |-> [p \in AllPids |->
                   [state |-> IF p = Boot THEN "Running"
                              ELSE IF p = Idle THEN "Ready" ELSE "Unused",
                    reason |-> None, exited |-> FALSE, reaped |-> FALSE,
                    parent |-> NoPid]],
                ready |-> <<>>, current |-> Boot, sleepq |-> <<>>, waitq |-> <<>>]
    /\ ticksLeft = QuantumTicks
    /\ pc = [p \in AllPids |-> Run]
    /\ ctx = [p \in AllPids |-> Run]

(* create_kernel_process or create_user_process: the new process is Ready.  *)
Create(p, child) ==
    /\ InOwnCode(p)
    /\ State(sched, child) = "Unused"
    /\ sched' = MakeReady([sched EXCEPT !.table[child].parent = p], child)
    /\ UNCHANGED <<ticksLeft, pc, ctx>>

(* block_current_on, up to the call of schedule().                          *)
BlockOn(p) ==
    /\ InOwnCode(p)
    /\ sched' = [Blocked(sched, p, Generic) EXCEPT !.waitq = Append(@, p)]
    /\ pc' = [pc EXCEPT ![p] = Prepared(Generic)]
    /\ UNCHANGED <<ticksLeft, ctx>>

(* sleep_ms, up to the call of schedule(): enqueue_sleep.                   *)
SleepMs(p, n) ==
    /\ InOwnCode(p)
    /\ sched' = [Blocked(sched, p, Sleep(n)) EXCEPT !.sleepq = Append(@, p)]
    /\ pc' = [pc EXCEPT ![p] = Prepared(Sleep(0))]
    /\ UNCHANGED <<ticksLeft, ctx>>

(* One turn of waitpid's loop: reap the child, or block until it ends.  A   *)
(* process waits for its own child, or for one without a parent, which it   *)
(* adopts.                                                                  *)
WaitTurn(p, child) ==
    /\ Executing(p)
    /\ pc[p] \in {Run, Resumed(WaitPid(child))}
    /\ child # p
    /\ State(sched, child) # "Unused"
    /\ sched.table[child].parent \in {p, NoPid}
    /\ \/ /\ sched.table[child].reaped
          /\ sched' = sched
          /\ pc' = [pc EXCEPT ![p] = Run]
       \/ /\ ~sched.table[child].reaped
          /\ sched.table[child].exited
          /\ sched' = [sched EXCEPT !.table[child].state = "Reaped",
                                   !.table[child].reaped = TRUE]
          /\ pc' = [pc EXCEPT ![p] = Run]
       \/ /\ ~Dead(sched, child)
          /\ sched' = [Blocked(sched, p, WaitPid(child))
                          EXCEPT !.table[child].parent = p]
          /\ pc' = [pc EXCEPT ![p] = Prepared(WaitPid(child))]
    /\ UNCHANGED <<ticksLeft, ctx>>

(* SYS_WAITPID: the non-blocking variant, callable for any process.         *)
SysWaitpid(p, target) ==
    /\ InOwnCode(p)
    /\ Dead(sched, target)
    /\ sched' = [sched EXCEPT !.table[target].reaped = TRUE]
    /\ UNCHANGED <<ticksLeft, pc, ctx>>

(* schedule(), called after blocking or simply to yield.                    *)
Schedule(p) ==
    /\ Executing(p)
    /\ \/ /\ pc[p].at = "prepared"
          /\ ScheduleInternal(sched, NoPid,
                              [pc EXCEPT ![p] = Resumed(pc[p].why)])
       \/ /\ pc[p] = Run
          /\ ScheduleInternal(sched, NoPid, pc)

(* The code after schedule() in block_current_on and in sleep_ms.           *)
AfterSchedule(p) ==
    /\ Executing(p)
    /\ \/ /\ pc[p] = Resumed(Generic)
          /\ sched' = FinishWait(sched, p)
       \/ /\ pc[p] = Resumed(Sleep(0))
          /\ sched' = RemoveSleep(sched, p)
    /\ pc' = [pc EXCEPT ![p] = Run]
    /\ UNCHANGED <<ticksLeft, ctx>>

(* wake_one on the wait queue, and wake_all, its repetition.                *)
Wake(p) ==
    /\ InOwnCode(p)
    /\ sched.waitq # <<>>
    /\ sched' = WakeOne(sched)
    /\ UNCHANGED <<ticksLeft, pc, ctx>>

(* The IPC fast path, in two critical sections: wake the receiver, then     *)
(* yield_to it (it may have run, blocked or exited in between).             *)
WakeReceiver(p) ==
    /\ InOwnCode(p)
    /\ Woken(sched) # NoPid
    /\ sched' = WakeOne(sched)
    /\ pc' = [pc EXCEPT ![p] = Yielding(Woken(sched))]
    /\ UNCHANGED <<ticksLeft, ctx>>

YieldTo(p) ==
    /\ Executing(p)
    /\ pc[p].at = "yield"
    /\ Len(sched.ready) < MaxReady
    /\ ScheduleInternal(sched, pc[p].to, [pc EXCEPT ![p] = Run])

(* exit_current, first critical section.                                    *)
ExitBegin(p) ==
    /\ InOwnCode(p)
    /\ sched' = RemoveSleep(SetState(sched, p, "Exiting"), p)
    /\ pc' = [pc EXCEPT ![p] = Teardown]
    /\ UNCHANGED <<ticksLeft, ctx>>

(* exit_current, last critical section, after the teardown (which runs with *)
(* interrupts enabled): terminate, wake the parent, and jump to the saved   *)
(* context of the front of the ready queue, whatever process that is; an    *)
(* empty queue leaves no current process and the CPU in the idle context.   *)
ExitEnd(p) ==
    /\ Executing(p)
    /\ pc[p] = Teardown
    /\ LET s == WakeParent(Terminated(sched, p), p)
           next == Head(s.ready)
       IN  \/ /\ s.ready = <<>>
              /\ sched' = [s EXCEPT !.current = NoPid]
              /\ UNCHANGED <<ticksLeft, pc>>
           \/ /\ s.ready # <<>>
              /\ sched' = SwitchTo([s EXCEPT !.ready = Tail(@)], next)
              /\ ticksLeft' = QuantumTicks
              /\ pc' = [pc EXCEPT ![next] = ctx[next]]
    /\ UNCHANGED ctx

-----------------------------------------------------------------------------
(* Signals, the task manager and the timer *)

Unblock(s, p) == [SetState(s, p, "Ready") EXCEPT !.ready = Append(@, p)]

(* send_signal on a process that has not ended.                             *)
SendSignal(p, target, sig) ==
    /\ InOwnCode(p)
    /\ State(sched, target) \notin {"Unused", "Terminated", "Reaped"}
    /\ ~sched.table[target].exited
    /\ \/ /\ sig = "KILL"
          /\ sched' = WakeParent(RemoveSleep(Terminated(sched, target), target), target)
       \/ /\ sig = "STOP"
          /\ sched' = SetState(sched, target, "Blocked")
       \/ /\ sig \in {"CONT", "TERM"}
          /\ State(sched, target) = "Blocked"
          /\ Len(sched.ready) < MaxReady
          /\ sched' = Unblock(sched, target)
    /\ UNCHANGED <<ticksLeft, pc, ctx>>

(* exit_process, as the terminal's kill command and the task manager call   *)
(* it on any process but the first.                                         *)
UiTerminate(p, target) ==
    /\ UiKill
    /\ InOwnCode(p)
    /\ target # Boot
    /\ State(sched, target) # "Unused"
    /\ ~sched.table[target].reaped
    /\ sched' = [sched EXCEPT !.table[target].state = "Exited",
                             !.table[target].exited = TRUE,
                             !.table[target].reaped = TRUE]
    /\ UNCHANGED <<ticksLeft, pc, ctx>>

(* One more tick has passed for every sleeper.                              *)
Aged(s) ==
    [s EXCEPT !.table = [p \in AllPids |->
        LET why == s.table[p].reason
        IN  IF why.kind = "Sleep" /\ why.left > 0
            THEN [s.table[p] EXCEPT !.reason = Sleep(why.left - 1)]
            ELSE s.table[p]]]

(* timer_tick: count down the quantum; when it is used up, or when a        *)
(* sleeper is due, schedule_internal.  EARLIEST_SLEEP_TICK may be older     *)
(* than every sleeper left in the queue, so a non-empty queue may make the  *)
(* timer reschedule early.                                                  *)
TimerTick ==
    \E s \in {Aged(sched)} :
        \/ /\ ticksLeft > 1
           /\ \A i \in DOMAIN s.sleepq : ~Due(s, s.sleepq[i])
           /\ sched' = s
           /\ ticksLeft' = ticksLeft - 1
           /\ UNCHANGED <<pc, ctx>>
        \/ /\ ticksLeft <= 1 \/ s.sleepq # <<>>
           /\ ScheduleInternal(s, NoPid, pc)

InKernel(p) ==
    \/ pc[p].at = "prepared" /\ Schedule(p)
    \/ AfterSchedule(p)
    \/ \E c \in Pids : pc[p].at = "resumed" /\ WaitTurn(p, c)
    \/ YieldTo(p)
    \/ ExitEnd(p)

Calls(p) ==
    \/ \E c \in Pids : Create(p, c) \/ SysWaitpid(p, c) \/ UiTerminate(p, c)
    \/ \E c \in Pids : pc[p] = Run /\ WaitTurn(p, c)
    \/ BlockOn(p)
    \/ p \in Sleepers /\ \E n \in SleepTicks : SleepMs(p, n)
    \/ pc[p] = Run /\ Schedule(p)
    \/ Wake(p)
    \/ p \in Senders /\ WakeReceiver(p)
    \/ p \in Leavers /\ ExitBegin(p)
    \/ \E t \in Pids, sig \in Signals : SendSignal(p, t, sig)

Next == TimerTick \/ \E p \in Pids : InKernel(p) \/ Calls(p)

(* The timer keeps firing, and a process that gets the CPU again and again  *)
(* while it is inside the kernel gets on: a quantum is several ticks long.  *)
Fairness ==
    /\ WF_vars(TimerTick)
    /\ \A p \in Pids : SF_vars(InKernel(p))

Spec == Init /\ [][Next]_vars /\ Fairness

-----------------------------------------------------------------------------
(* Properties *)

TypeOK ==
    /\ \A p \in AllPids : LET pcb == sched.table[p] IN
          /\ pcb.state \in States
          /\ pcb.reason.kind \in {"None", "Generic", "Sleep", "WaitPid"}
          /\ pcb.parent \in Pids \cup {NoPid}
          /\ pcb.state = "Reaped" => pcb.reaped
          /\ pcb.state = "Terminated" => pcb.exited
    /\ \A q \in {sched.ready, sched.sleepq, sched.waitq} : ToSet(q) \subseteq AllPids
    /\ sched.current \in AllPids \cup {NoPid}
    /\ ticksLeft \in 1 .. QuantumTicks

(* Nothing falls between the queues: a Ready process that has not ended is  *)
(* in the ready queue, or it would never run again, and a Running process   *)
(* is the current one.                                                      *)
ReadyIsQueued ==
    \A p \in Pids : ~Dead(sched, p) =>
        /\ State(sched, p) = "Ready" => p \in ToSet(sched.ready)
        /\ State(sched, p) = "Running" => sched.current = p

(* A blocked process can still be woken: it is linked into the queue its    *)
(* waker will look at, or the child it waits for is its own and has not     *)
(* ended.                                                                   *)
BlockedIsWakeable ==
    \A p \in Pids : State(sched, p) = "Blocked" =>
        LET why == sched.table[p].reason
        IN  CASE why.kind = "Generic" -> p \in ToSet(sched.waitq)
              [] why.kind = "Sleep" -> p \in ToSet(sched.sleepq)
              [] why.kind = "WaitPid" ->
                    /\ ~Dead(sched, why.child)
                    /\ sched.table[why.child].parent = p
              [] OTHER -> FALSE

(* Round robin starves nobody, and every sleep ends: a process that is      *)
(* ready or asleep gets the CPU again, or ends, in spite of other sleepers, *)
(* the IPC fast path and stale entries in the ready queue.                  *)
NoStarvation ==
    \A p \in Pids :
        (\/ State(sched, p) = "Ready"
         \/ State(sched, p) = "Blocked" /\ sched.table[p].reason.kind = "Sleep")
        ~> (sched.current = p \/ Dead(sched, p))

(* "Terminate the running process ... Never returns": a process that has    *)
(* exited, or was killed, is never given the CPU again.                     *)
ExitedNeverRuns ==
    [][\A p \in Pids : sched.table[p].exited /\ sched.current # p
                          => sched'.current # p]_vars

(* exit_current comes to its end: a process that begins to exit terminates, *)
(* so that its parent's waitpid can return.                                 *)
ExitCompletes ==
    \A p \in Pids : (pc[p] = Teardown) ~> sched.table[p].exited

(* A sleep is cut short by the end of a child only: no other step than the  *)
(* timer's makes a sleeping process ready before its time.                  *)
OnlyChildCutsSleep ==
    [][\A p \in Pids :
         /\ State(sched, p) = "Blocked" /\ sched.table[p].reason.kind = "Sleep"
         /\ sched'.table[p].state = "Ready"
         => \/ sched.table[p].reason.left <= 1
            \/ \E c \in Pids : /\ sched.table[c].parent = p
                              /\ ~sched.table[c].exited
                              /\ sched'.table[c].exited]_vars

(* The tables of the scheduler agree: who is ready is in the ready queue,    *)
(* who is blocked is where its waker looks, whatever the order of wakeups,   *)
(* sleeps, waits and exits (process.rs: Scheduler).                          *)
SchedulerSound == TypeOK /\ ReadyIsQueued /\ BlockedIsWakeable

(* Nobody starves and no sleep is cut short but by the end of a child        *)
(* (process.rs: timer_tick, poll_sleeping_processes_locked, waitpid).        *)
SchedulerMoves == NoStarvation /\ OnlyChildCutsSleep
=============================================================================
