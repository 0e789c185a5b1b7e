----------------------------- MODULE SyncProofs -----------------------------
(***************************************************************************)
(* What the blocking primitives of kernel/src/sync.rs keep, for every set  *)
(* of threads and every schedule: SleepMutex excludes, Semaphore conserves *)
(* its tokens, BlockingChannel delivers each message once and in order.    *)
(***************************************************************************)
EXTENDS SleepMutex, Semaphore, BlockingChannel, QueueLemmas

LEMMA OneRemoved ==
    ASSUME NEW S, NEW s \in Seq(S), NEW x
    PROVE  /\ Without(s, x) \in Seq(S)
           /\ \A y \in ToSet(s) : y # x => y \in ToSet(Without(s, x))
           /\ ToSet(Without(s, x)) \subseteq ToSet(s)
           /\ IsInjective(s) => IsInjective(Without(s, x)) /\ x \notin ToSet(Without(s, x))
<1>1. CASE x \notin ToSet(s)
  BY <1>1 DEF Without
<1>2. CASE x \in ToSet(s)
  <2> DEFINE k == CHOOSE i \in DOMAIN s : s[i] = x
  <2>1. \E i \in DOMAIN s : s[i] = x
    BY <1>2, Elements
  <2>2. k \in 1 .. Len(s) /\ s[k] = x /\ Without(s, x) = RemoveAt(s, k)
    BY <1>2, <2>1 DEF Without
  <2> HIDE DEF k
  <2> QED
    BY <2>2, Removed
<1> QED
  BY <1>1, <1>2

-----------------------------------------------------------------------------
(* The scheduler under the primitives *)

States == {"Ready", "Running", "Blocked"}

(* A thread on the CPU is not in the ready queue as well: so that it can    *)
(* block, or be requeued, without being there twice.                        *)
ThreadsInv ==
    /\ ThreadsTypeOK
    /\ current # NoThread => state[current] # "Ready"

LEMMA ThreadsInitOK == ThreadsInit => ThreadsInv
<1> SUFFICES ASSUME ThreadsInit PROVE ThreadsInv
  OBVIOUS
<1>1. Cardinality(Threads) \in Nat
  BY ThreadsAssumption, FS_CardinalityType
<1>2. /\ ready \in [1 .. Cardinality(Threads) -> Threads]
      /\ \A i, j \in 1 .. Cardinality(Threads) : i # j => ready[i] # ready[j]
  BY DEF ThreadsInit, SetToSeqs
<1>3. ready \in Seq(Threads) /\ IsInjective(ready)
  BY <1>1, <1>2 DEF IsInjective
<1>4. ToSet(ready) = Threads
  <2>1. ready \in Injection(1 .. Cardinality(Threads), Threads)
    BY <1>2, <1>3 DEF Injection
  <2>2. ready \in Surjection(1 .. Cardinality(Threads), Threads)
    <3>1. Cardinality(1 .. Cardinality(Threads)) = Cardinality(Threads)
      BY <1>1, FS_Interval
    <3> QED
      BY <2>1, <3>1, ThreadsAssumption, FS_Injection
  <2> QED
    BY <1>2, <2>2 DEF Surjection, ToSet
<1> QED
  BY <1>3, <1>4, ThreadsAssumption DEF ThreadsInit, ThreadsInv, ThreadsTypeOK

(* schedule_internal keeps the books, and neither blocks nor wakes anyone.  *)
LEMMA RescheduleKeeps ==
    ASSUME ThreadsInv, Reschedule
    PROVE  /\ ThreadsInv'
           /\ \A t \in Threads : state'[t] = "Blocked" <=> state[t] = "Blocked"
<1> DEFINE requeue == current # NoThread /\ state[current] = "Running"
           st == IF requeue THEN [state EXCEPT ![current] = "Ready"] ELSE state
           rq == IF requeue THEN Append(ready, current) ELSE ready
<1>1. /\ state \in [Threads -> States] /\ waiting' \in [Threads -> BOOLEAN]
      /\ ready \in Seq(Threads) /\ current \in Threads \cup {NoThread}
  BY DEF ThreadsInv, ThreadsTypeOK, Reschedule, States
<1>2. /\ st \in [Threads -> States] /\ rq \in Seq(Threads) /\ IsInjective(rq)
      /\ ToSet(rq) = {t \in Threads : st[t] = "Ready"}
      /\ \A t \in Threads : st[t] # "Running"
      /\ \A t \in Threads : st[t] = "Blocked" <=> state[t] = "Blocked"
  <2>1. CASE requeue
    <3>1. current \in Threads /\ current \notin ToSet(ready)
      BY <1>1, <2>1 DEF ThreadsInv, ThreadsTypeOK
    <3>2. rq \in Seq(Threads) /\ ToSet(rq) = ToSet(ready) \cup {current} /\ IsInjective(rq)
      BY <1>1, <2>1, <3>1, Appended DEF ThreadsInv, ThreadsTypeOK
    <3>3. st = [state EXCEPT ![current] = "Ready"]
      BY <2>1
    <3> HIDE DEF st, rq
    <3> QED
      BY <1>1, <2>1, <3>1, <3>2, <3>3 DEF ThreadsInv, ThreadsTypeOK, States
  <2>2. CASE ~requeue
    BY <1>1, <2>2, ThreadsAssumption DEF ThreadsInv, ThreadsTypeOK
  <2> QED
    BY <2>1, <2>2
<1>3. /\ rq = <<>> => current' = NoThread /\ ready' = rq /\ state' = st
      /\ rq # <<>> => /\ current' = Head(rq) /\ ready' = Tail(rq)
                      /\ state' = [st EXCEPT ![Head(rq)] = "Running"]
  BY DEF Reschedule
<1> HIDE DEF requeue, st, rq
<1>4. CASE rq = <<>>
  BY <1>1, <1>2, <1>3, <1>4 DEF ThreadsInv, ThreadsTypeOK, States
<1>5. CASE rq # <<>>
  <2>1. /\ Head(rq) \in Threads /\ st[Head(rq)] = "Ready" /\ Tail(rq) \in Seq(Threads)
        /\ IsInjective(Tail(rq)) /\ ToSet(Tail(rq)) = ToSet(rq) \ {Head(rq)}
    BY <1>2, <1>5, HeadTaken
  <2>2. /\ state' \in [Threads -> States] /\ ready' \in Seq(Threads) /\ IsInjective(ready')
        /\ ToSet(ready') = {t \in Threads : state'[t] = "Ready"}
        /\ \A t \in Threads : state'[t] = "Running" <=> t = current'
        /\ \A t \in Threads : state'[t] = "Blocked" <=> state[t] = "Blocked"
    BY <1>2, <1>3, <1>5, <2>1 DEF States
  <2> QED
    BY <1>1, <1>3, <1>5, <2>1, <2>2 DEF ThreadsInv, ThreadsTypeOK, States
<1> QED
  BY <1>4, <1>5

LEMMA PrepareKeeps ==
    ASSUME ThreadsInv, NEW t \in Threads, current = t, PrepareWait(t)
    PROVE  ThreadsInv'
<1>1. t \notin ToSet(ready) /\ state[t] # "Ready"
  BY ThreadsAssumption DEF ThreadsInv, ThreadsTypeOK
<1> QED
  BY <1>1 DEF ThreadsInv, ThreadsTypeOK, PrepareWait

LEMMA FinishKeeps ==
    ASSUME ThreadsInv, NEW t \in Threads, current = t, FinishWait(t)
    PROVE  /\ ThreadsInv' /\ state'[t] # "Blocked"
           /\ \A u \in Threads \ {t} : state'[u] = state[u]
BY ThreadsAssumption DEF ThreadsInv, ThreadsTypeOK, FinishWait

(* wake_one wakes the first thread of the queue that needs it, and leaves   *)
(* those behind it.                                                         *)
LEMMA WakeOneKeeps ==
    ASSUME ThreadsInv, NEW q \in Seq(Threads), WakeOne(q)
    PROVE  /\ ThreadsInv' /\ AfterWake(q) \in Seq(Threads)
           /\ IsInjective(q) => IsInjective(AfterWake(q))
           /\ ToSet(AfterWake(q)) \subseteq ToSet(q)
           /\ \/ /\ \A t \in ToSet(q) : ~Wakeable(t)
                 /\ state' = state
              \/ \E t \in ToSet(q) :
                    /\ Wakeable(t) /\ state'[t] # "Blocked"
                    /\ \A u \in Threads \ {t} : state'[u] = state[u]
                    /\ \A u \in ToSet(q) : u = t \/ ~Wakeable(u) \/ u \in ToSet(AfterWake(q))
<1>0. \A x : x \in ToSet(q) <=> \E i \in 1 .. Len(q) : q[i] = x
  BY Elements
<1>1. CASE Candidates(q) = {}
  <2>1. \A t \in ToSet(q) : ~Wakeable(t)
    BY <1>0, <1>1 DEF Candidates
  <2>2. AfterWake(q) = <<>> /\ UNCHANGED <<state, waiting, ready, current>>
    BY <1>1 DEF AfterWake, WakeOne
  <2>3. ToSet(<<>>) = {} /\ IsInjective(<<>>) /\ <<>> \in Seq(Threads)
    BY DEF ToSet, IsInjective
  <2> QED
    BY <2>1, <2>2, <2>3 DEF ThreadsInv, ThreadsTypeOK
<1>2. CASE Candidates(q) # {}
  <2> DEFINE k == Min(Candidates(q))
             t == q[k]
  <2>1. k \in Candidates(q) /\ \A i \in Candidates(q) : k <= i
    <3>1. Candidates(q) \in SUBSET Nat
      BY DEF Candidates
    <3>2. \E m \in Candidates(q) : \A i \in Candidates(q) : m <= i
      BY <1>2, <3>1, MinExists
    <3> QED
      BY <3>2 DEF Min
  <2>2. /\ waiting' = [waiting EXCEPT ![t] = FALSE] /\ current' = current
        /\ current = t => state' = [state EXCEPT ![t] = "Running"] /\ ready' = ready
        /\ current # t => state' = [state EXCEPT ![t] = "Ready"] /\ ready' = Append(ready, t)
        /\ AfterWake(q) = SubSeq(q, k + 1, Len(q))
    BY <1>2 DEF WakeOne, AfterWake
  <2>3. k \in 1 .. Len(q) /\ t \in Threads /\ Wakeable(t)
        /\ \A i \in 1 .. Len(q) : i < k => ~Wakeable(q[i])
    <3>1. k \in DOMAIN q /\ Wakeable(q[k])
      BY <2>1, Zenon DEF Candidates
    <3>2. ASSUME NEW i \in DOMAIN q, Wakeable(q[i])
          PROVE  k <= i
      BY <2>1, <3>2, Zenon DEF Candidates
    <3> HIDE DEF k
    <3> QED
      BY <3>1, <3>2
  <2> HIDE DEF k, t
  <2>4. ThreadsInv'
    <3>1. CASE current = t
      BY <2>2, <2>3, <3>1, ThreadsAssumption DEF ThreadsInv, ThreadsTypeOK
    <3>2. CASE current # t
      <4>1. state[t] = "Blocked" /\ t \notin ToSet(ready)
        BY <2>3, <3>2 DEF Wakeable, ThreadsInv, ThreadsTypeOK
      <4>2. ready' \in Seq(Threads) /\ IsInjective(ready') /\ ToSet(ready') = ToSet(ready) \cup {t}
        <5>1. ready \in Seq(Threads) /\ IsInjective(ready)
          BY DEF ThreadsInv, ThreadsTypeOK
        <5>2. ready' = Append(ready, t)
          BY <2>2, <3>2
        <5> QED
          BY <2>3, <4>1, <5>1, <5>2, Appended
      <4>3. ToSet(ready') = {u \in Threads : state'[u] = "Ready"}
        <5>1. state \in [Threads -> States] /\ ToSet(ready) = {u \in Threads : state[u] = "Ready"}
          BY DEF ThreadsInv, ThreadsTypeOK, States
        <5>2. state' = [state EXCEPT ![t] = "Ready"]
          BY <2>2, <3>2
        <5> QED
          BY <2>3, <4>2, <5>1, <5>2
      <4> QED
        BY <2>2, <2>3, <3>2, <4>1, <4>2, <4>3 DEF ThreadsInv, ThreadsTypeOK
    <3> QED
      BY <3>1, <3>2
  <2>5. /\ AfterWake(q) \in Seq(Threads)
        /\ IsInjective(q) => IsInjective(AfterWake(q))
        /\ ToSet(AfterWake(q)) = {q[i] : i \in k + 1 .. Len(q)}
    BY <2>2, <2>3, SuffixTaken
  <2>6. ToSet(AfterWake(q)) \subseteq ToSet(q)
    BY <1>0, <2>3, <2>5
  <2>7. state'[t] # "Blocked" /\ \A u \in Threads \ {t} : state'[u] = state[u]
    BY <2>2, <2>3 DEF ThreadsInv, ThreadsTypeOK
  <2>8. t \in ToSet(q)
    BY <1>0, <2>3 DEF t
  <2> USE <2>8
  <2>9. ASSUME NEW u \in ToSet(q)
        PROVE  u = t \/ ~Wakeable(u) \/ u \in ToSet(AfterWake(q))
    <3>1. PICK i \in 1 .. Len(q) : q[i] = u
      BY <1>0
    <3>2. i < k \/ i = k \/ i \in k + 1 .. Len(q)
      BY <2>3
    <3> QED
      BY <2>3, <2>5, <3>1, <3>2 DEF t
  <2>10. \E u \in ToSet(q) :
            /\ Wakeable(u) /\ state'[u] # "Blocked"
            /\ \A v \in Threads \ {u} : state'[v] = state[v]
            /\ \A v \in ToSet(q) : v = u \/ ~Wakeable(v) \/ v \in ToSet(AfterWake(q))
    <3> WITNESS t \in ToSet(q)
    <3> QED
      BY <2>3, <2>7, <2>9
  <2> QED
    BY <2>4, <2>5, <2>6, <2>10
<1> QED
  BY <1>1, <1>2

-----------------------------------------------------------------------------
(* SleepMutex *)

(* The part of the type invariant that exclusion rests on.                  *)
LockWordTypeOK == locked \in BOOLEAN /\ pc \in [Threads -> Pcs]

(* Exclusion is inductive together with these types: the lock word alone    *)
(* decides who gets the lock, wherever the threads are interrupted.         *)
LockInv == LockWordTypeOK /\ MutualExclusion

(* The threads holding the lock after a step in which only t moved.         *)
LEMMA HoldersOfGoto ==
    ASSUME NEW t \in Threads, NEW label \in Pcs, LockWordTypeOK, Goto(t, label)
    PROVE  /\ pc' \in [Threads -> Pcs]
           /\ label \in {"acquired", "held"} => Holders' = Holders \cup {t}
           /\ label \notin {"acquired", "held"} => Holders' = Holders \ {t}
BY DEF LockWordTypeOK, Goto, Holders

(* Every step keeps exclusion: the word changes only in the hands of the    *)
(* thread that finds it free or holds the guard.                            *)
LEMMA LockStep ==
    ASSUME LockInv, [Next]_vars
    PROVE  LockInv'
<1> USE DEF LockInv, Pcs
<1>1. CASE UNCHANGED <<locked, pc>>
  BY <1>1 DEF LockWordTypeOK, MutualExclusion, Holders
<1>2. CASE Preempt
  BY <1>1, <1>2 DEF Preempt
<1>3. ASSUME NEW t \in Threads, CallLock(t)
      PROVE  LockInv'
  <2>1. Goto(t, "try") /\ locked' = locked /\ pc[t] = "idle"
    BY <1>3 DEF CallLock, At
  <2> QED
    BY <2>1, HoldersOfGoto DEF LockWordTypeOK, MutualExclusion, Holders
<1>4. ASSUME NEW t \in Threads, TryLock(t)
      PROVE  LockInv'
  <2>1. CASE locked
    BY <1>1, <1>4, <2>1 DEF TryLock
  <2>2. CASE ~locked
    <3>1. locked' = TRUE /\ Goto(t, "held")
      BY <1>4, <2>2 DEF TryLock
    <3> QED
      BY <2>2, <3>1, HoldersOfGoto DEF LockWordTypeOK, MutualExclusion
  <2> QED
    BY <2>1, <2>2
<1>5. ASSUME NEW t \in Threads, Acquire(t)
      PROVE  LockInv'
  <2>1. ~locked /\ locked' = TRUE /\ Goto(t, "held")
    BY <1>5 DEF Acquire
  <2> QED
    BY <2>1, HoldersOfGoto DEF LockWordTypeOK, MutualExclusion
<1>6. ASSUME NEW t \in Threads, GiveUp(t) \/ Enqueue(t) \/ CallSchedule(t) \/ WakeNext(t)
      PROVE  LockInv'
  <2>1. PICK label \in {"contended", "recheck", "awake", "idle"} : Goto(t, label)
    BY <1>6 DEF GiveUp, Enqueue, CallSchedule, WakeNext
  <2>2. t \notin Holders /\ locked' = locked
    BY <1>6 DEF GiveUp, Enqueue, CallSchedule, WakeNext, At, Holders
  <2> QED
    BY <2>1, <2>2, HoldersOfGoto DEF LockWordTypeOK, MutualExclusion
<1>7. ASSUME NEW t \in Threads, Recheck(t)
      PROVE  LockInv'
  <2>1. CASE locked
    <3>1. locked' = locked /\ Goto(t, "sleep") /\ t \notin Holders
      BY <1>7, <2>1 DEF Recheck, At, Holders, LockWordTypeOK
    <3> QED
      BY <3>1, HoldersOfGoto DEF LockWordTypeOK, MutualExclusion
  <2>2. CASE ~locked
    <3>1. locked' = TRUE /\ Goto(t, "acquired")
      BY <1>7, <2>2 DEF Recheck
    <3> QED
      BY <2>2, <3>1, HoldersOfGoto DEF LockWordTypeOK, MutualExclusion
  <2> QED
    BY <2>1, <2>2 DEF LockWordTypeOK
<1>8. ASSUME NEW t \in Threads, Leave(t)
      PROVE  LockInv'
  <2>1. locked' = locked
    BY <1>8 DEF Leave
  <2>2. CASE At(t, "acquired") /\ Goto(t, "held")
    <3>1. t \in Holders
      BY <2>2 DEF At, Holders
    <3> QED
      BY <2>1, <2>2, <3>1, HoldersOfGoto DEF LockWordTypeOK, MutualExclusion
  <2>3. CASE At(t, "awake") /\ Goto(t, "try")
    <3>1. t \notin Holders
      BY <2>3 DEF At, Holders
    <3> QED
      BY <2>1, <2>3, <3>1, HoldersOfGoto DEF LockWordTypeOK, MutualExclusion
  <2> QED
    BY <1>8, <2>2, <2>3 DEF Leave
<1>9. ASSUME NEW t \in Threads, Release(t)
      PROVE  LockInv'
  <2>1. locked' = FALSE /\ Goto(t, "wake") /\ t \in Holders
    BY <1>9 DEF Release, At, Holders
  <2> QED
    BY <2>1, HoldersOfGoto DEF LockWordTypeOK, MutualExclusion
<1> QED
  BY <1>1, <1>2, <1>3, <1>4, <1>5, <1>6, <1>7, <1>8, <1>9 DEF Next, Step, vars

(* SleepMutex::lock and try_lock never let two threads in, and the lock     *)
(* word tells whether one is in: for any number of threads, any number of   *)
(* calls, and the timer firing between any two steps.                       *)
THEOREM Exclusion == Spec => []MutualExclusion
<1>1. Init => LockInv
  BY DEF Init, LockInv, LockWordTypeOK, MutualExclusion, Holders, Pcs
<1>2. LockInv /\ [Next]_vars => LockInv'
  BY LockStep
<1>3. LockInv => MutualExclusion
  BY DEF LockInv
<1> QED
  BY <1>1, <1>2, <1>3, PTL DEF Spec

(* What the queue of the sleepers is kept by: the scheduler's books.        *)
SleepersInv == ThreadsInv /\ TypeOK /\ SleeperIsQueued

LEMMA SleepersStep ==
    ASSUME SleepersInv, [Next]_vars
    PROVE  SleepersInv'
<1> USE DEF SleepersInv, TypeOK, SleeperIsQueued
<1>1. CASE UNCHANGED <<threadVars, queue>> /\ locked' \in BOOLEAN /\ pc' \in [Threads -> Pcs]
           /\ calls' \in [Threads -> Nat] /\ hit' \in BOOLEAN
  BY <1>1 DEF threadVars, ThreadsInv, ThreadsTypeOK
<1>2. CASE Preempt
  <2>1. ThreadsInv' /\ \A t \in Threads : state'[t] = "Blocked" <=> state[t] = "Blocked"
    BY <1>2, RescheduleKeeps DEF Preempt
  <2>2. hit' \in BOOLEAN
    BY <1>2 DEF Preempt
  <2> QED
    BY <1>2, <2>1, <2>2 DEF Preempt, ThreadsInv
<1>3. ASSUME NEW t \in Threads, UNCHANGED hit,
             \/ CallLock(t) \/ TryLock(t) \/ Acquire(t) \/ GiveUp(t) \/ Recheck(t) \/ Release(t)
      PROVE  SleepersInv'
  <2>1. UNCHANGED <<threadVars, queue>> /\ locked' \in BOOLEAN
    BY <1>3 DEF CallLock, TryLock, Acquire, GiveUp, Recheck, Release
  <2>2. pc' = pc \/ \E label \in Pcs : Goto(t, label)
    BY <1>3 DEF CallLock, TryLock, Acquire, GiveUp, Recheck, Release, Pcs
  <2>3. pc' \in [Threads -> Pcs]
    BY <2>2 DEF Goto
  <2>4. calls' = calls \/ calls' = [calls EXCEPT ![t] = @ + 1]
    BY <1>3 DEF CallLock, TryLock, Acquire, GiveUp, Recheck, Release
  <2> QED
    BY <1>1, <1>3, <2>1, <2>3, <2>4
<1>4. ASSUME NEW t \in Threads, UNCHANGED hit, Enqueue(t)
      PROVE  SleepersInv'
  <2>1. ThreadsInv'
    BY <1>4, PrepareKeeps DEF Enqueue, At
  <2>2. queue' \in Seq(Threads) /\ ToSet(queue') = ToSet(queue) \cup {t}
    BY <1>4, Appended DEF Enqueue
  <2>3. pc' \in [Threads -> Pcs] /\ UNCHANGED <<locked, calls>>
    BY <1>4 DEF Enqueue, Goto, Pcs
  <2>4. \A u \in Threads : u # t => state'[u] = state[u]
    BY <1>4 DEF Enqueue, PrepareWait, ThreadsInv, ThreadsTypeOK
  <2> QED
    BY <1>4, <2>1, <2>2, <2>3, <2>4 DEF ThreadsInv
<1>5. ASSUME NEW t \in Threads, UNCHANGED hit, Leave(t)
      PROVE  SleepersInv'
  <2>1. ThreadsInv' /\ state'[t] # "Blocked" /\ \A u \in Threads \ {t} : state'[u] = state[u]
    BY <1>5, FinishKeeps DEF Leave, At
  <2>2. queue' \in Seq(Threads) /\ \A u \in ToSet(queue) : u # t => u \in ToSet(queue')
    BY <1>5, OneRemoved DEF Leave
  <2>3. pc' \in [Threads -> Pcs] /\ UNCHANGED <<locked, calls>>
    BY <1>5 DEF Leave, Goto, Pcs
  <2> QED
    BY <1>5, <2>1, <2>2, <2>3 DEF ThreadsInv
<1>6. ASSUME NEW t \in Threads, UNCHANGED hit, CallSchedule(t)
      PROVE  SleepersInv'
  <2>1. ThreadsInv' /\ \A u \in Threads : state'[u] = "Blocked" <=> state[u] = "Blocked"
    BY <1>6, RescheduleKeeps DEF CallSchedule
  <2>2. pc' \in [Threads -> Pcs] /\ UNCHANGED <<locked, queue, calls>>
    BY <1>6 DEF CallSchedule, Goto, Pcs
  <2> QED
    BY <1>6, <2>1, <2>2 DEF ThreadsInv
<1>7. ASSUME NEW t \in Threads, UNCHANGED hit, WakeNext(t)
      PROVE  SleepersInv'
  <2>1. /\ ThreadsInv' /\ queue' \in Seq(Threads)
        /\ \/ (\A u \in ToSet(queue) : ~Wakeable(u)) /\ state' = state
           \/ \E v \in ToSet(queue) :
                 /\ state'[v] # "Blocked" /\ \A u \in Threads \ {v} : state'[u] = state[u]
                 /\ \A u \in ToSet(queue) : u = v \/ ~Wakeable(u) \/ u \in ToSet(queue')
    BY <1>7, WakeOneKeeps DEF WakeNext
  <2>2. pc' \in [Threads -> Pcs] /\ UNCHANGED <<locked, calls>>
    BY <1>7 DEF WakeNext, Goto, Pcs
  <2>3. ASSUME NEW u \in Threads, state'[u] = "Blocked"
        PROVE  u \in ToSet(queue')
    BY <2>1, <2>3 DEF Wakeable
  <2> QED
    BY <1>7, <2>1, <2>2, <2>3 DEF ThreadsInv
<1>8. CASE UNCHANGED vars
  BY <1>1, <1>8 DEF vars
<1> QED
  BY <1>2, <1>3, <1>4, <1>5, <1>6, <1>7, <1>8 DEF Next, Step

(* A thread that blocks in SleepMutex::lock is in the queue that drop()     *)
(* wakes, and the scheduler's books stay right, wherever the timer fires:   *)
(* nobody sleeps where no wake-up looks.                                    *)
THEOREM SleepersAreQueued == Spec => [](TypeOK /\ SleeperIsQueued)
<1>1. Init => SleepersInv
  <2> SUFFICES ASSUME Init PROVE SleepersInv
    OBVIOUS
  <2>1. ThreadsInv
    BY ThreadsInitOK DEF Init
  <2>2. \A t \in Threads : state[t] = "Ready"
    BY DEF Init, ThreadsInit
  <2>3. locked \in BOOLEAN /\ hit \in BOOLEAN
    BY Zenon DEF Init
  <2>4. queue \in Seq(Threads) /\ pc \in [Threads -> Pcs] /\ calls \in [Threads -> Nat]
    BY DEF Init, Pcs
  <2> QED
    BY <2>1, <2>2, <2>3, <2>4 DEF SleepersInv, ThreadsInv, TypeOK, SleeperIsQueued
<1>2. SleepersInv /\ [Next]_vars => SleepersInv'
  BY SleepersStep
<1>3. SleepersInv => TypeOK /\ SleeperIsQueued
  BY DEF SleepersInv
<1> QED
  BY <1>1, <1>2, <1>3, PTL DEF Spec

-----------------------------------------------------------------------------
(* Semaphore *)

(* The counter never goes below zero: a thread that is about to             *)
(* compare-exchange has seen a positive value, and the exchange succeeds    *)
(* only on the value it has seen.                                           *)
CounterTypeOK ==
    /\ count \in Nat /\ posted \in Nat /\ taken \in Nat
    /\ pc \in [Threads -> SemPcs] /\ seen \in [Threads -> Nat]
    /\ \A t \in Threads : (\E l \in TryLabels : pc[t] = Cas[l]) => seen[t] > 0

CounterInv == CounterTypeOK /\ TokensConserved

LEMMA CounterStep ==
    ASSUME CounterInv, [SemNext]_semVars
    PROVE  CounterInv'
<1> USE SemaphoreAssumption DEF CounterInv, CounterTypeOK, TokensConserved, SemPcs, TryLabels, Cas
<1>1. CASE UNCHANGED <<count, posted, taken, pc, seen>>
  BY <1>1
<1>2. ASSUME NEW t \in Threads, NEW l \in {"first", "poll"}, SemCall(t, l)
      PROVE  CounterInv'
  BY <1>2 DEF SemCall, Goto
<1>3. ASSUME NEW t \in Threads, Signal(t)
      PROVE  CounterInv'
  BY <1>3 DEF Signal, Goto
<1>4. ASSUME NEW t \in Threads, NEW l \in TryLabels, Load(t, l)
      PROVE  CounterInv'
  BY <1>4 DEF Load, Goto, OnZero
<1>5. ASSUME NEW t \in Threads, NEW l \in TryLabels, CompareExchange(t, l)
      PROVE  CounterInv'
  <2>1. CASE count = seen[t]
    BY <1>5, <2>1 DEF CompareExchange, At, Goto, OnSuccess
  <2>2. CASE count # seen[t]
    BY <1>5, <2>2 DEF CompareExchange, Goto, OnZero
  <2> QED
    BY <2>1, <2>2
<1>6. ASSUME NEW t \in Threads,
             SemEnqueue(t) \/ SemLeave(t) \/ SemSchedule(t) \/ SemWakeNext(t)
      PROVE  CounterInv'
  <2>1. PICK label \in {"second", "idle", "first", "awake"} : Goto(t, label)
    BY <1>6 DEF SemEnqueue, SemLeave, SemSchedule, SemWakeNext
  <2>2. UNCHANGED <<count, posted, taken, seen>>
    BY <1>6 DEF SemEnqueue, SemLeave, SemSchedule, SemWakeNext
  <2> QED
    BY <2>1, <2>2 DEF Goto
<1> QED
  BY <1>1, <1>2, <1>3, <1>4, <1>5, <1>6 DEF SemNext, SemStep, SemPreempt, semVars

(* Tokens of Semaphore are neither lost nor invented, for any number of     *)
(* threads whose loads and compare-exchanges interleave in any way.         *)
THEOREM Conservation == SemSpec => []TokensConserved
<1>1. SemInit => CounterInv
  BY SemaphoreAssumption
     DEF SemInit, CounterInv, CounterTypeOK, TokensConserved, SemPcs, TryLabels, Cas
<1>2. CounterInv /\ [SemNext]_semVars => CounterInv'
  BY CounterStep
<1>3. CounterInv => TokensConserved
  BY DEF CounterInv
<1> QED
  BY <1>1, <1>2, <1>3, PTL DEF SemSpec

(* The waiters of wait() are queued as those of lock() are.                 *)
WaiterIsQueued == \A t \in Threads : state[t] = "Blocked" => t \in ToSet(semQueue)

WaitersInv == ThreadsInv /\ CounterInv /\ SemTypeOK /\ WaiterIsQueued

LEMMA WaitersStep ==
    ASSUME WaitersInv, [SemNext]_semVars
    PROVE  WaitersInv'
<1> USE DEF WaitersInv, WaiterIsQueued, SemTypeOK
<1>0. CounterInv'
  BY CounterStep
<1>1. SUFFICES ThreadsInv' /\ semQueue' \in Seq(Threads) /\ WaiterIsQueued'
               /\ calls' \in [Threads -> Nat] /\ semHit' \in BOOLEAN
  BY <1>0 DEF CounterInv, CounterTypeOK, ThreadsInv
<1>2. CASE SemPreempt
  <2>1. ThreadsInv' /\ \A t \in Threads : state'[t] = "Blocked" <=> state[t] = "Blocked"
    BY <1>2, RescheduleKeeps DEF SemPreempt
  <2>2. semHit' \in BOOLEAN
    BY <1>2 DEF SemPreempt
  <2> QED
    BY <1>2, <2>1, <2>2 DEF SemPreempt
<1>3. CASE UNCHANGED <<threadVars, semQueue, semHit>> /\ calls' \in [Threads -> Nat]
  BY <1>3 DEF threadVars, ThreadsInv, ThreadsTypeOK
<1>4. ASSUME NEW t \in Threads, UNCHANGED semHit,
             \/ \E l \in {"first", "poll"} : SemCall(t, l)
             \/ Signal(t)
             \/ \E l \in TryLabels : Load(t, l) \/ CompareExchange(t, l)
      PROVE  ThreadsInv' /\ semQueue' \in Seq(Threads) /\ WaiterIsQueued'
             /\ calls' \in [Threads -> Nat] /\ semHit' \in BOOLEAN
  <2>1. UNCHANGED <<threadVars, semQueue>>
    BY <1>4 DEF SemCall, Signal, Load, CompareExchange
  <2>2. calls' = calls \/ calls' = [calls EXCEPT ![t] = @ + 1]
    BY <1>4 DEF SemCall, Signal, Load, CompareExchange
  <2> QED
    BY <1>3, <1>4, <2>1, <2>2
<1>5. ASSUME NEW t \in Threads, UNCHANGED semHit, SemEnqueue(t)
      PROVE  ThreadsInv' /\ semQueue' \in Seq(Threads) /\ WaiterIsQueued' /\ calls' = calls
  <2>1. ThreadsInv' /\ calls' = calls
    BY <1>5, PrepareKeeps DEF SemEnqueue, At
  <2>2. semQueue' \in Seq(Threads) /\ ToSet(semQueue') = ToSet(semQueue) \cup {t}
    BY <1>5, Appended DEF SemEnqueue
  <2>3. \A u \in Threads : u # t => state'[u] = state[u]
    BY <1>5 DEF SemEnqueue, PrepareWait, ThreadsInv, ThreadsTypeOK
  <2> QED
    BY <2>1, <2>2, <2>3
<1>6. ASSUME NEW t \in Threads, UNCHANGED semHit, SemLeave(t)
      PROVE  ThreadsInv' /\ semQueue' \in Seq(Threads) /\ WaiterIsQueued' /\ calls' = calls
  <2>1. /\ ThreadsInv' /\ calls' = calls /\ state'[t] # "Blocked"
        /\ \A u \in Threads \ {t} : state'[u] = state[u]
    BY <1>6, FinishKeeps DEF SemLeave, At
  <2>2. semQueue' \in Seq(Threads) /\ \A u \in ToSet(semQueue) : u # t => u \in ToSet(semQueue')
    BY <1>6, OneRemoved DEF SemLeave
  <2> QED
    BY <2>1, <2>2
<1>7. ASSUME NEW t \in Threads, UNCHANGED semHit, SemSchedule(t)
      PROVE  ThreadsInv' /\ semQueue' \in Seq(Threads) /\ WaiterIsQueued' /\ calls' = calls
  <2>1. ThreadsInv' /\ \A u \in Threads : state'[u] = "Blocked" <=> state[u] = "Blocked"
    BY <1>7, RescheduleKeeps DEF SemSchedule
  <2> QED
    BY <1>7, <2>1 DEF SemSchedule
<1>8. ASSUME NEW t \in Threads, UNCHANGED semHit, SemWakeNext(t)
      PROVE  ThreadsInv' /\ semQueue' \in Seq(Threads) /\ WaiterIsQueued' /\ calls' = calls
  <2>1. /\ ThreadsInv' /\ semQueue' \in Seq(Threads) /\ calls' = calls
        /\ \/ (\A u \in ToSet(semQueue) : ~Wakeable(u)) /\ state' = state
           \/ \E v \in ToSet(semQueue) :
                 /\ state'[v] # "Blocked" /\ \A u \in Threads \ {v} : state'[u] = state[u]
                 /\ \A u \in ToSet(semQueue) : u = v \/ ~Wakeable(u) \/ u \in ToSet(semQueue')
    BY <1>8, WakeOneKeeps DEF SemWakeNext
  <2>2. ASSUME NEW u \in Threads, state'[u] = "Blocked"
        PROVE  u \in ToSet(semQueue')
    BY <2>1, <2>2 DEF Wakeable
  <2> QED
    BY <2>1, <2>2
<1>9. CASE UNCHANGED semVars
  BY <1>3, <1>9 DEF semVars
<1> QED
  BY <1>2, <1>4, <1>5, <1>6, <1>7, <1>8, <1>9 DEF SemNext, SemStep

(* A thread that blocks in Semaphore::wait is in the queue that signal()    *)
(* wakes, and the counter never goes below zero.                            *)
THEOREM WaitersAreQueued == SemSpec => [](SemTypeOK /\ WaiterIsQueued)
<1>1. SemInit => WaitersInv
  <2> SUFFICES ASSUME SemInit PROVE WaitersInv
    OBVIOUS
  <2>1. ThreadsInv
    BY ThreadsInitOK DEF SemInit
  <2>2. \A t \in Threads : state[t] = "Ready"
    BY DEF SemInit, ThreadsInit
  <2>3. CounterInv
    BY SemaphoreAssumption
       DEF SemInit, CounterInv, CounterTypeOK, TokensConserved, SemPcs, TryLabels, Cas
  <2>4. semHit \in BOOLEAN
    BY Zenon DEF SemInit
  <2>5. semQueue \in Seq(Threads) /\ calls \in [Threads -> Nat]
    BY DEF SemInit
  <2> QED
    BY <2>1, <2>2, <2>3, <2>4, <2>5
       DEF WaitersInv, ThreadsInv, SemTypeOK, WaiterIsQueued, CounterInv, CounterTypeOK
<1>2. WaitersInv /\ [SemNext]_semVars => WaitersInv'
  BY WaitersStep
<1>3. WaitersInv => SemTypeOK /\ WaiterIsQueued
  BY DEF WaitersInv
<1> QED
  BY <1>1, <1>2, <1>3, PTL DEF SemSpec

-----------------------------------------------------------------------------
(* BlockingChannel *)

(* Who is linked into a queue of the channel is between prepare_wait and    *)
(* finish_wait of that queue, and who is blocked is linked.                 *)
LinksInv ==
    /\ IsInjective(notEmpty) /\ IsInjective(notFull)
    /\ \A t \in ToSet(notEmpty) : pc[t] \in {"recvSleep", "recvAwake"}
    /\ \A t \in ToSet(notFull) : pc[t] \in {"sendSleep", "sendAwake"}
    /\ \A t \in Threads : state[t] = "Blocked" => t \in ToSet(notEmpty) \cup ToSet(notFull)

ChanWaitersInv == ThreadsInv /\ ChanTypeOK /\ LinksInv

(* Where a blocked thread is.                                               *)
LEMMA BlockedIsBetween ==
    ASSUME ChanWaitersInv, NEW t \in Threads, state[t] = "Blocked"
    PROVE  pc[t] \in {"recvSleep", "recvAwake", "sendSleep", "sendAwake"}
BY DEF ChanWaitersInv, LinksInv

(* A move of one thread that leaves the scheduler and the queues alone.     *)
LEMMA ChanMove ==
    ASSUME ChanWaitersInv, NEW t \in Threads, NEW label \in ChanPcs, Goto(t, label),
           pc[t] \notin {"recvSleep", "recvAwake", "sendSleep", "sendAwake"},
           UNCHANGED <<threadVars, notEmpty, notFull>>, calls' \in [Threads -> Nat],
           buffer' \in Seq(Threads \X Nat), received' \in Seq(Threads \X Nat)
    PROVE  ChanWaitersInv'
<1>1. /\ notEmpty \in Seq(Threads) /\ notFull \in Seq(Threads) /\ pc \in [Threads -> ChanPcs]
      /\ ThreadsInv'
  BY DEF ChanWaitersInv, ChanTypeOK, threadVars, ThreadsInv, ThreadsTypeOK
<1>2. pc' \in [Threads -> ChanPcs] /\ \A u \in Threads : u # t => pc'[u] = pc[u]
  BY <1>1 DEF Goto
<1>3. ToSet(notEmpty) \subseteq Threads /\ ToSet(notFull) \subseteq Threads
  BY <1>1, Elements
<1>4. LinksInv'
  BY <1>2, <1>3 DEF ChanWaitersInv, LinksInv, threadVars
<1> QED
  BY <1>1, <1>2, <1>4 DEF ChanWaitersInv, ChanTypeOK, ThreadsInv

LEMMA ChanWaitersStep ==
    ASSUME ChanWaitersInv, [ChanNext]_channelVars
    PROVE  ChanWaitersInv'
<1>0. /\ ThreadsInv /\ notEmpty \in Seq(Threads) /\ notFull \in Seq(Threads)
      /\ pc \in [Threads -> ChanPcs] /\ calls \in [Threads -> Nat]
      /\ buffer \in Seq(Threads \X Nat) /\ received \in Seq(Threads \X Nat)
      /\ ToSet(notEmpty) \subseteq Threads /\ ToSet(notFull) \subseteq Threads
      /\ state \in [Threads -> States]
  BY Elements DEF ChanWaitersInv, ChanTypeOK, ThreadsInv, ThreadsTypeOK, States
<1>1. CASE UNCHANGED channelVars
  BY <1>1 DEF channelVars, threadVars, chanVars, ChanWaitersInv, ThreadsInv, ThreadsTypeOK,
             ChanTypeOK, LinksInv
<1>2. CASE ChanPreempt
  <2>1. ThreadsInv' /\ \A u \in Threads : state'[u] = "Blocked" <=> state[u] = "Blocked"
    BY <1>2, RescheduleKeeps DEF ChanPreempt, ChanWaitersInv
  <2> QED
    BY <1>2, <2>1 DEF ChanPreempt, chanVars, ChanWaitersInv, ChanTypeOK, LinksInv, ThreadsInv
<1>3. ASSUME NEW t \in Threads, NEW op \in {"send", "trySend", "recv", "tryRecv"}, ChanCall(t, op)
      PROVE  ChanWaitersInv'
  <2>1. /\ pc[t] = "idle" /\ Goto(t, op) /\ calls' = [calls EXCEPT ![t] = @ + 1]
        /\ UNCHANGED <<threadVars, notEmpty, notFull, buffer, received>>
    BY <1>3 DEF ChanCall, At
  <2>2. op \in ChanPcs /\ calls' \in [Threads -> Nat]
    BY <1>0, <2>1 DEF ChanPcs
  <2> QED
    BY <1>0, <2>1, <2>2, ChanMove
<1>4. ASSUME NEW t \in Threads, TrySendFull(t) \/ TryRecvEmpty(t)
      PROVE  ChanWaitersInv'
  <2>1. /\ pc[t] \in {"trySend", "tryRecv"} /\ Goto(t, "idle")
        /\ UNCHANGED <<threadVars, notEmpty, notFull, calls, buffer, received>>
    BY <1>4 DEF TrySendFull, TryRecvEmpty, At
  <2> QED
    BY <1>0, <2>1, ChanMove DEF ChanPcs
<1>5. ASSUME NEW t \in Threads, Push(t)
      PROVE  ChanWaitersInv'
  <2>1. buffer' \in Seq(Threads \X Nat)
    BY <1>0, <1>5 DEF Push, Message
  <2> QED
    BY <1>0, <1>5, <2>1, ChanMove DEF Push, At, ChanPcs
<1>6. ASSUME NEW t \in Threads, Pop(t)
      PROVE  ChanWaitersInv'
  <2>1. buffer' \in Seq(Threads \X Nat) /\ received' \in Seq(Threads \X Nat)
    BY <1>0, <1>6 DEF Pop
  <2> QED
    BY <1>0, <1>6, <2>1, ChanMove DEF Pop, At, ChanPcs
<1>7. ASSUME NEW t \in Threads, WaitNotFull(t)
      PROVE  ChanWaitersInv'
  <2>1. ThreadsInv' /\ pc[t] = "send" /\ \A u \in Threads : u # t => state'[u] = state[u]
    BY <1>0, <1>7, PrepareKeeps DEF WaitNotFull, At, PrepareWait
  <2>2. t \notin ToSet(notFull) /\ t \notin ToSet(notEmpty)
    BY <2>1 DEF ChanWaitersInv, LinksInv
  <2>3. notFull' \in Seq(Threads) /\ ToSet(notFull') = ToSet(notFull) \cup {t} /\ IsInjective(notFull')
    BY <1>0, <1>7, <2>2, Appended DEF WaitNotFull, ChanWaitersInv, LinksInv
  <2>4. pc' \in [Threads -> ChanPcs] /\ pc'[t] = "sendSleep" /\ \A u \in Threads : u # t => pc'[u] = pc[u]
    BY <1>0, <1>7 DEF WaitNotFull, Goto, ChanPcs
  <2>5. LinksInv'
    BY <1>0, <1>7, <2>1, <2>2, <2>3, <2>4 DEF ChanWaitersInv, LinksInv, WaitNotFull
  <2> QED
    BY <1>0, <1>7, <2>1, <2>3, <2>4, <2>5 DEF WaitNotFull, ChanWaitersInv, ChanTypeOK, ThreadsInv
<1>8. ASSUME NEW t \in Threads, WaitNotEmpty(t)
      PROVE  ChanWaitersInv'
  <2>1. ThreadsInv' /\ pc[t] = "recv" /\ \A u \in Threads : u # t => state'[u] = state[u]
    BY <1>0, <1>8, PrepareKeeps DEF WaitNotEmpty, At, PrepareWait
  <2>2. t \notin ToSet(notFull) /\ t \notin ToSet(notEmpty)
    BY <2>1 DEF ChanWaitersInv, LinksInv
  <2>3. notEmpty' \in Seq(Threads) /\ ToSet(notEmpty') = ToSet(notEmpty) \cup {t} /\ IsInjective(notEmpty')
    BY <1>0, <1>8, <2>2, Appended DEF WaitNotEmpty, ChanWaitersInv, LinksInv
  <2>4. pc' \in [Threads -> ChanPcs] /\ pc'[t] = "recvSleep" /\ \A u \in Threads : u # t => pc'[u] = pc[u]
    BY <1>0, <1>8 DEF WaitNotEmpty, Goto, ChanPcs
  <2>5. LinksInv'
    BY <1>0, <1>8, <2>1, <2>2, <2>3, <2>4 DEF ChanWaitersInv, LinksInv, WaitNotEmpty
  <2> QED
    BY <1>0, <1>8, <2>1, <2>3, <2>4, <2>5 DEF WaitNotEmpty, ChanWaitersInv, ChanTypeOK, ThreadsInv
<1>9. ASSUME NEW t \in Threads, WakeReceiver(t)
      PROVE  ChanWaitersInv'
  <2>1. /\ ThreadsInv' /\ notEmpty' \in Seq(Threads) /\ ToSet(notEmpty') \subseteq ToSet(notEmpty)
        /\ IsInjective(notEmpty) => IsInjective(notEmpty')
        /\ \/ (\A u \in ToSet(notEmpty) : ~Wakeable(u)) /\ state' = state
           \/ \E v \in ToSet(notEmpty) :
                 /\ state'[v] # "Blocked" /\ \A u \in Threads \ {v} : state'[u] = state[u]
                 /\ \A u \in ToSet(notEmpty) : u = v \/ ~Wakeable(u) \/ u \in ToSet(notEmpty')
    BY <1>0, <1>9, WakeOneKeeps DEF WakeReceiver
  <2>2. \A u \in Threads : state'[u] = "Blocked" =>
           state[u] = "Blocked" /\ (u \in ToSet(notEmpty) => u \in ToSet(notEmpty'))
    BY <2>1 DEF Wakeable
  <2>3. /\ pc[t] = "sendWake" /\ pc' \in [Threads -> ChanPcs]
        /\ \A u \in Threads : u # t => pc'[u] = pc[u]
    BY <1>0, <1>9 DEF WakeReceiver, At, Goto, ChanPcs
  <2>4. LinksInv'
    BY <1>0, <1>9, <2>1, <2>2, <2>3 DEF ChanWaitersInv, LinksInv, WakeReceiver
  <2> QED
    BY <1>0, <1>9, <2>1, <2>3, <2>4 DEF WakeReceiver, ChanWaitersInv, ChanTypeOK, ThreadsInv
<1>10. ASSUME NEW t \in Threads, WakeSender(t)
       PROVE  ChanWaitersInv'
  <2>1. /\ ThreadsInv' /\ notFull' \in Seq(Threads) /\ ToSet(notFull') \subseteq ToSet(notFull)
        /\ IsInjective(notFull) => IsInjective(notFull')
        /\ \/ (\A u \in ToSet(notFull) : ~Wakeable(u)) /\ state' = state
           \/ \E v \in ToSet(notFull) :
                 /\ state'[v] # "Blocked" /\ \A u \in Threads \ {v} : state'[u] = state[u]
                 /\ \A u \in ToSet(notFull) : u = v \/ ~Wakeable(u) \/ u \in ToSet(notFull')
    BY <1>0, <1>10, WakeOneKeeps DEF WakeSender
  <2>2. \A u \in Threads : state'[u] = "Blocked" =>
           state[u] = "Blocked" /\ (u \in ToSet(notFull) => u \in ToSet(notFull'))
    BY <2>1 DEF Wakeable
  <2>3. /\ pc[t] = "recvWake" /\ pc' \in [Threads -> ChanPcs]
        /\ \A u \in Threads : u # t => pc'[u] = pc[u]
    BY <1>0, <1>10 DEF WakeSender, At, Goto, ChanPcs
  <2>4. LinksInv'
    BY <1>0, <1>10, <2>1, <2>2, <2>3 DEF ChanWaitersInv, LinksInv, WakeSender
  <2> QED
    BY <1>0, <1>10, <2>1, <2>3, <2>4 DEF WakeSender, ChanWaitersInv, ChanTypeOK, ThreadsInv
<1>11. ASSUME NEW t \in Threads, ChanSchedule(t)
       PROVE  ChanWaitersInv'
  <2>1. ThreadsInv' /\ \A u \in Threads : state'[u] = "Blocked" <=> state[u] = "Blocked"
    BY <1>0, <1>11, RescheduleKeeps DEF ChanSchedule
  <2>2. /\ pc' \in [Threads -> ChanPcs] /\ \A u \in Threads : u # t => pc'[u] = pc[u]
        /\ \/ pc[t] = "sendSleep" /\ pc'[t] = "sendAwake"
           \/ pc[t] = "recvSleep" /\ pc'[t] = "recvAwake"
    BY <1>0, <1>11 DEF ChanSchedule, At, Goto, ChanPcs
  <2>3. LinksInv'
    BY <1>0, <1>11, <2>1, <2>2 DEF ChanWaitersInv, LinksInv, ChanSchedule
  <2> QED
    BY <1>0, <1>11, <2>1, <2>2, <2>3 DEF ChanSchedule, ChanWaitersInv, ChanTypeOK, ThreadsInv
<1>12. ASSUME NEW t \in Threads, ChanLeave(t)
       PROVE  ChanWaitersInv'
  <2>1. ThreadsInv' /\ state'[t] # "Blocked" /\ \A u \in Threads \ {t} : state'[u] = state[u]
    BY <1>0, <1>12, FinishKeeps DEF ChanLeave, At
  <2>2. CASE At(t, "sendAwake") /\ Goto(t, "send") /\ notFull' = Without(notFull, t) /\ UNCHANGED notEmpty
    <3>1. /\ notFull' \in Seq(Threads) /\ IsInjective(notFull') /\ t \notin ToSet(notFull')
          /\ ToSet(notFull') \subseteq ToSet(notFull)
          /\ \A u \in ToSet(notFull) : u # t => u \in ToSet(notFull')
      BY <1>0, <2>2, OneRemoved DEF ChanWaitersInv, LinksInv
    <3>2. /\ pc[t] = "sendAwake" /\ pc' \in [Threads -> ChanPcs]
          /\ \A u \in Threads : u # t => pc'[u] = pc[u]
      BY <1>0, <2>2 DEF At, Goto, ChanPcs
    <3>3. LinksInv'
      BY <1>0, <2>1, <2>2, <3>1, <3>2 DEF ChanWaitersInv, LinksInv
    <3> QED
      BY <1>0, <1>12, <2>1, <2>2, <3>1, <3>2, <3>3 DEF ChanLeave, ChanWaitersInv, ChanTypeOK, ThreadsInv
  <2>3. CASE At(t, "recvAwake") /\ Goto(t, "recv") /\ notEmpty' = Without(notEmpty, t) /\ UNCHANGED notFull
    <3>1. /\ notEmpty' \in Seq(Threads) /\ IsInjective(notEmpty') /\ t \notin ToSet(notEmpty')
          /\ ToSet(notEmpty') \subseteq ToSet(notEmpty)
          /\ \A u \in ToSet(notEmpty) : u # t => u \in ToSet(notEmpty')
      BY <1>0, <2>3, OneRemoved DEF ChanWaitersInv, LinksInv
    <3>2. /\ pc[t] = "recvAwake" /\ pc' \in [Threads -> ChanPcs]
          /\ \A u \in Threads : u # t => pc'[u] = pc[u]
      BY <1>0, <2>3 DEF At, Goto, ChanPcs
    <3>3. LinksInv'
      BY <1>0, <2>1, <2>3, <3>1, <3>2 DEF ChanWaitersInv, LinksInv
    <3> QED
      BY <1>0, <1>12, <2>1, <2>3, <3>1, <3>2, <3>3 DEF ChanLeave, ChanWaitersInv, ChanTypeOK, ThreadsInv
  <2> QED
    BY <1>12, <2>2, <2>3 DEF ChanLeave
<1> QED
  BY <1>1, <1>2, <1>3, <1>4, <1>5, <1>6, <1>7, <1>8, <1>9, <1>10, <1>11, <1>12 DEF ChanNext, ChanStep

(* A message in the channel or out of it carries a number its sender has    *)
(* reached, and not the one a send under way is going to use.               *)
Sending == {"send", "trySend", "sendSleep", "sendAwake"}
InOrder(all) ==
    \A i, j \in 1 .. Len(all) : i < j /\ all[i][1] = all[j][1] => all[i][2] < all[j][2]
Numbered(all) ==
    \A i \in 1 .. Len(all) :
        /\ all[i][2] <= calls[all[i][1]]
        /\ pc[all[i][1]] \in Sending => all[i][2] < calls[all[i][1]]
OrderInv ==
    /\ Len(buffer) <= Capacity
    /\ InOrder(received \o buffer)
    /\ Numbered(received \o buffer)

LEMMA OrderStep ==
    ASSUME ChanWaitersInv, OrderInv, [ChanNext]_channelVars
    PROVE  OrderInv'
<1> DEFINE all == received \o buffer
<1>0. /\ pc \in [Threads -> ChanPcs] /\ calls \in [Threads -> Nat]
      /\ buffer \in Seq(Threads \X Nat) /\ received \in Seq(Threads \X Nat)
  BY DEF ChanWaitersInv, ChanTypeOK
<1>1. /\ all \in Seq(Threads \X Nat) /\ Len(all) \in Nat
      /\ \A i \in 1 .. Len(all) : all[i][1] \in Threads /\ all[i][2] \in Nat
  BY <1>0
<1>2. ASSUME all' = all, Len(buffer') <= Capacity,
             \A u \in Threads : calls'[u] \in Nat /\ calls'[u] >= calls[u],
             \A u \in Threads : pc'[u] \in Sending => pc[u] \in Sending \/ calls'[u] > calls[u]
      PROVE  OrderInv'
  <2>1. InOrder(all) /\ Numbered(all)
    BY DEF OrderInv
  <2> HIDE DEF all
  <2>2. ASSUME NEW i \in 1 .. Len(all)
        PROVE  /\ all[i][2] <= calls'[all[i][1]]
               /\ pc'[all[i][1]] \in Sending => all[i][2] < calls'[all[i][1]]
    BY <1>0, <1>1, <1>2, <2>1 DEF Numbered
  <2>3. Numbered(all)'
    BY <1>2, <2>2 DEF Numbered
  <2>4. InOrder(all)'
    BY <1>2, <2>1 DEF InOrder
  <2> QED
    BY <1>2, <2>3, <2>4 DEF OrderInv, all
<1>3. ASSUME UNCHANGED <<buffer, received, calls>>,
             \A u \in Threads : pc'[u] \in Sending => pc[u] \in Sending
      PROVE  OrderInv'
  BY <1>0, <1>2, <1>3 DEF OrderInv
<1>4. CASE UNCHANGED channelVars \/ ChanPreempt
  BY <1>3, <1>4 DEF channelVars, chanVars, ChanPreempt
<1>5. ASSUME NEW t \in Threads, NEW op \in {"send", "trySend", "recv", "tryRecv"}, ChanCall(t, op)
      PROVE  OrderInv'
  <2>1. /\ Goto(t, op) /\ calls' = [calls EXCEPT ![t] = @ + 1] /\ UNCHANGED <<buffer, received>>
    BY <1>5 DEF ChanCall
  <2>2. \A u \in Threads : /\ calls'[u] \in Nat /\ calls'[u] >= calls[u]
                           /\ u = t \/ pc'[u] = pc[u]
                           /\ calls'[t] > calls[t]
    BY <1>0, <2>1 DEF Goto
  <2> QED
    BY <1>2, <2>1, <2>2 DEF OrderInv
<1>6. ASSUME NEW t \in Threads, Push(t)
      PROVE  OrderInv'
  <2>1. /\ pc[t] \in Sending /\ Len(buffer) < Capacity
        /\ buffer' = Append(buffer, <<t, calls[t]>>) /\ UNCHANGED <<received, calls>>
        /\ pc' = [pc EXCEPT ![t] = "sendWake"]
    BY <1>6 DEF Push, At, Goto, Message, Sending
  <2> DEFINE m == <<t, calls[t]>>
             new == all'
  <2>2. m \in Threads \X Nat /\ m[1] = t /\ m[2] = calls[t]
    BY <1>0
  <2>3. new = Append(all, m)
    <3>1. new = received \o Append(buffer, m)
      BY <2>1
    <3> HIDE DEF m
    <3>2. received \o Append(buffer, m) = Append(received \o buffer, m)
      BY <1>0, <2>2, PushedLast
    <3> QED
      BY <3>1, <3>2
  <2>4. /\ Len(new) = Len(all) + 1 /\ new[Len(all) + 1] = m
        /\ \A i \in 1 .. Len(all) : new[i] = all[i]
    BY <1>1, <2>2, <2>3
  <2>5. InOrder(all) /\ Numbered(all)
    BY DEF OrderInv
  <2> HIDE DEF all, new, m
  <2>6. \A i \in 1 .. Len(all) : all[i][1] = t => all[i][2] < calls[t]
    BY <1>1, <2>1, <2>5 DEF Numbered
  <2>7. InOrder(new)
    <3>1. SUFFICES ASSUME NEW i \in 1 .. Len(new), NEW j \in 1 .. Len(new), i < j,
                          new[i][1] = new[j][1]
                   PROVE  new[i][2] < new[j][2]
      BY DEF InOrder
    <3>2. i \in 1 .. Len(all) /\ new[i] = all[i]
      BY <1>1, <2>4, <3>1
    <3>3. CASE j \in 1 .. Len(all)
      BY <2>4, <2>5, <3>1, <3>2, <3>3 DEF InOrder
    <3>4. CASE j = Len(all) + 1
      BY <2>2, <2>4, <2>6, <3>1, <3>2, <3>4
    <3> QED
      BY <1>1, <2>4, <3>3, <3>4
  <2>8. ASSUME NEW i \in 1 .. Len(new)
        PROVE  /\ new[i][2] <= calls'[new[i][1]]
               /\ pc'[new[i][1]] \in Sending => new[i][2] < calls'[new[i][1]]
    <3>1. pc'[t] \notin Sending /\ \A u \in Threads : u # t => pc'[u] = pc[u]
      BY <1>0, <2>1 DEF Sending
    <3>2. CASE i \in 1 .. Len(all)
      BY <1>1, <2>1, <2>4, <2>5, <3>1, <3>2 DEF Numbered
    <3>3. CASE i = Len(all) + 1
      BY <1>0, <2>1, <2>2, <2>4, <3>1, <3>3
    <3> QED
      BY <1>1, <2>4, <3>2, <3>3
  <2>9. Len(buffer') <= Capacity
    BY <1>0, <2>1, <2>2, ChannelAssumption DEF m
  <2> QED
    BY <2>7, <2>8, <2>9 DEF OrderInv, Numbered, new, all
<1>7. ASSUME NEW t \in Threads, Pop(t)
      PROVE  OrderInv'
  <2>1. /\ buffer # <<>> /\ buffer' = Tail(buffer) /\ received' = Append(received, Head(buffer))
        /\ calls' = calls /\ pc' = [pc EXCEPT ![t] = "recvWake"]
    BY <1>7 DEF Pop, Goto
  <2>2. all' = all
    BY <1>0, <2>1, PoppedFirst
  <2>3. Len(buffer') <= Capacity
    BY <1>0, <2>1, ChannelAssumption DEF OrderInv
  <2>4. \A u \in Threads : /\ calls'[u] \in Nat /\ calls'[u] >= calls[u]
                           /\ pc'[u] \in Sending => pc[u] \in Sending
    BY <1>0, <2>1 DEF Sending
  <2> HIDE DEF all
  <2> QED
    BY <1>2, <2>2, <2>3, <2>4
<1>8. ASSUME NEW t \in Threads,
             \/ WaitNotFull(t) \/ TrySendFull(t) \/ WakeReceiver(t) \/ WaitNotEmpty(t)
             \/ TryRecvEmpty(t) \/ WakeSender(t) \/ ChanSchedule(t) \/ ChanLeave(t)
      PROVE  OrderInv'
  <2>1. UNCHANGED <<buffer, received, calls>>
    BY <1>8 DEF WaitNotFull, TrySendFull, WakeReceiver, WaitNotEmpty, TryRecvEmpty, WakeSender,
               ChanSchedule, ChanLeave
  <2>2. \E label \in {"idle", "recvSleep", "recvAwake", "recv"} \cup Sending :
           Goto(t, label) /\ (label \in Sending => pc[t] \in Sending)
    BY <1>8 DEF WaitNotFull, TrySendFull, WakeReceiver, WaitNotEmpty, TryRecvEmpty, WakeSender,
               ChanSchedule, ChanLeave, At, Sending
  <2>3. \A u \in Threads : pc'[u] \in Sending => pc[u] \in Sending
    BY <1>0, <2>2 DEF Goto
  <2> QED
    BY <1>3, <2>1, <2>3
<1> QED
  BY <1>4, <1>5, <1>6, <1>7, <1>8 DEF ChanNext, ChanStep

(* The threads that are on their way to take a message, or to wake one who  *)
(* takes it; and the same for places.                                       *)
ReceiverLabels == {"sendWake", "recv", "tryRecv", "recvSleep", "recvAwake"}
SenderLabels == {"recvWake", "send", "trySend", "sendSleep", "sendAwake"}
Stirring(labels) == {t \in Threads : pc[t] \in labels /\ state[t] # "Blocked"}

(* SleepIsJustified without its look at the CPU: a thread still on the CPU  *)
(* between prepare_wait and schedule() counts as asleep, so that the timer  *)
(* may take the CPU from it there.                                          *)
SomeAsleep(q) == \E t \in ToSet(q) : state[t] = "Blocked"
ReceiversJustified == SomeAsleep(notEmpty) => Len(buffer) <= Cardinality(Stirring(ReceiverLabels))
SendersJustified == SomeAsleep(notFull) => Capacity - Len(buffer) <= Cardinality(Stirring(SenderLabels))
SleepInv == ReceiversJustified /\ SendersJustified

(* How the number of threads under way changes with a step.                 *)
LEMMA Counting ==
    ASSUME NEW A \in SUBSET Threads, NEW B \in SUBSET Threads
    PROVE  /\ Cardinality(A) \in Nat /\ Cardinality(B) \in Nat
           /\ A \subseteq B => Cardinality(A) <= Cardinality(B)
           /\ \A t : A \ {t} \subseteq B => Cardinality(A) - 1 <= Cardinality(B)
           /\ \A t \in B \ A : A \subseteq B => Cardinality(A) + 1 <= Cardinality(B)
           /\ \A t \in A : \A u \in B \ A :
                 A \ {t} \subseteq B => Cardinality(A) <= Cardinality(B)
<1>1. IsFiniteSet(A) /\ IsFiniteSet(B) /\ Cardinality(A) \in Nat /\ Cardinality(B) \in Nat
  BY ThreadsAssumption, FS_Subset, FS_CardinalityType
<1>2. A \subseteq B => Cardinality(A) <= Cardinality(B)
  BY <1>1, FS_Subset
<1>3. ASSUME NEW t, A \ {t} \subseteq B
      PROVE  Cardinality(A) - 1 <= Cardinality(B)
  <2>1. Cardinality(A \ {t}) = IF t \in A THEN Cardinality(A) - 1 ELSE Cardinality(A)
    BY <1>1, FS_RemoveElement
  <2>2. Cardinality(A \ {t}) <= Cardinality(B)
    BY <1>1, <1>3, FS_Subset
  <2> QED
    BY <1>1, <2>1, <2>2
<1>4. ASSUME NEW t \in B \ A, A \subseteq B
      PROVE  Cardinality(A) + 1 <= Cardinality(B)
  <2>1. Cardinality(A \cup {t}) = Cardinality(A) + 1
    BY <1>1, FS_AddElement
  <2>2. Cardinality(A \cup {t}) <= Cardinality(B)
    BY <1>1, <1>4, FS_Subset
  <2> QED
    BY <2>1, <2>2
<1>5. ASSUME NEW t \in A, NEW u \in B \ A, A \ {t} \subseteq B
      PROVE  Cardinality(A) <= Cardinality(B)
  <2>1. IsFiniteSet(A \ {t}) /\ Cardinality(A \ {t}) = Cardinality(A) - 1
    BY <1>1, FS_RemoveElement
  <2>2. Cardinality((A \ {t}) \cup {u}) = Cardinality(A \ {t}) + 1
    BY <2>1, FS_AddElement
  <2>3. Cardinality((A \ {t}) \cup {u}) <= Cardinality(B)
    <3>1. (A \ {t}) \cup {u} \subseteq B
      BY <1>5
    <3> QED
      BY <1>1, <3>1, FS_Subset
  <2> QED
    BY <1>1, <2>1, <2>2, <2>3
<1> QED
  BY <1>1, <1>2, <1>3, <1>4, <1>5

LEMMA SleepStep ==
    ASSUME ChanWaitersInv, OrderInv, SleepInv, [ChanNext]_channelVars
    PROVE  SleepInv'
<1> DEFINE RA == Stirring(ReceiverLabels)
           RB == Stirring(ReceiverLabels)'
           SA == Stirring(SenderLabels)
           SB == Stirring(SenderLabels)'
<1>0. /\ ThreadsInv /\ notEmpty \in Seq(Threads) /\ notFull \in Seq(Threads)
      /\ pc \in [Threads -> ChanPcs] /\ state \in [Threads -> States]
      /\ buffer \in Seq(Threads \X Nat) /\ Len(buffer) \in Nat /\ Capacity \in Nat
      /\ ToSet(notEmpty) \subseteq Threads /\ ToSet(notFull) \subseteq Threads
      /\ calls \in [Threads -> Nat]
  BY Elements, ChannelAssumption DEF ChanWaitersInv, ChanTypeOK, ThreadsInv, ThreadsTypeOK, States
<1>1. /\ RA \in SUBSET Threads /\ RB \in SUBSET Threads /\ SA \in SUBSET Threads /\ SB \in SUBSET Threads
      /\ \A u \in Threads : /\ u \in RA <=> pc[u] \in ReceiverLabels /\ state[u] # "Blocked"
                            /\ u \in RB <=> pc'[u] \in ReceiverLabels /\ state'[u] # "Blocked"
                            /\ u \in SA <=> pc[u] \in SenderLabels /\ state[u] # "Blocked"
                            /\ u \in SB <=> pc'[u] \in SenderLabels /\ state'[u] # "Blocked"
  BY DEF Stirring
<1>2. ASSUME (SomeAsleep(notEmpty))' => Len(buffer') <= Cardinality(RB),
             (SomeAsleep(notFull))' => Capacity - Len(buffer') <= Cardinality(SB)
      PROVE  SleepInv'
  BY <1>2 DEF SleepInv, ReceiversJustified, SendersJustified
<1>3. /\ SomeAsleep(notEmpty) => Len(buffer) <= Cardinality(RA)
      /\ SomeAsleep(notFull) => Capacity - Len(buffer) <= Cardinality(SA)
  BY DEF SleepInv, ReceiversJustified, SendersJustified
<1>4. \A u \in Threads : state[u] = "Blocked" =>
         pc[u] \in {"recvSleep", "recvAwake", "sendSleep", "sendAwake"}
  BY BlockedIsBetween
<1> HIDE DEF RA, RB, SA, SB
<1> USE DEF ReceiverLabels, SenderLabels
(* Nobody blocks, and everyone under way stays under way.                   *)
<1>5. ASSUME \A u \in Threads : state'[u] = "Blocked" => state[u] = "Blocked",
             ToSet(notEmpty') \subseteq ToSet(notEmpty), ToSet(notFull') \subseteq ToSet(notFull),
             Len(buffer') = Len(buffer), RA \subseteq RB, SA \subseteq SB
      PROVE  SleepInv'
  <2>1. (SomeAsleep(notEmpty))' => SomeAsleep(notEmpty)
    BY <1>0, <1>5 DEF SomeAsleep
  <2>2. (SomeAsleep(notFull))' => SomeAsleep(notFull)
    BY <1>0, <1>5 DEF SomeAsleep
  <2>3. Cardinality(RA) <= Cardinality(RB) /\ Cardinality(SA) <= Cardinality(SB)
        /\ Cardinality(RA) \in Nat /\ Cardinality(RB) \in Nat
        /\ Cardinality(SA) \in Nat /\ Cardinality(SB) \in Nat
    BY <1>1, <1>5, Counting
  <2> QED
    BY <1>0, <1>2, <1>3, <1>5, <2>1, <2>2, <2>3
<1>6. CASE UNCHANGED channelVars
  BY <1>1, <1>5, <1>6 DEF channelVars, threadVars, chanVars
<1>7. CASE ChanPreempt
  <2>1. \A u \in Threads : state'[u] = "Blocked" <=> state[u] = "Blocked"
    BY <1>0, <1>7, RescheduleKeeps DEF ChanPreempt
  <2> QED
    BY <1>1, <1>5, <1>7, <2>1 DEF ChanPreempt, chanVars
<1>8. ASSUME NEW t \in Threads, NEW op \in {"send", "trySend", "recv", "tryRecv"}, ChanCall(t, op)
      PROVE  SleepInv'
  <2>1. pc[t] = "idle" /\ Goto(t, op) /\ UNCHANGED <<state, notEmpty, notFull, buffer>>
    BY <1>8 DEF ChanCall, At, threadVars
  <2>2. \A u \in Threads : u # t => pc'[u] = pc[u]
    BY <1>0, <2>1 DEF Goto
  <2> QED
    BY <1>1, <1>5, <2>1, <2>2
<1>9. ASSUME NEW t \in Threads, ChanSchedule(t)
      PROVE  SleepInv'
  <2>1. \A u \in Threads : state'[u] = "Blocked" <=> state[u] = "Blocked"
    BY <1>0, <1>9, RescheduleKeeps DEF ChanSchedule
  <2>2. /\ \A u \in Threads : u # t => pc'[u] = pc[u]
        /\ \/ pc[t] = "sendSleep" /\ pc'[t] = "sendAwake"
           \/ pc[t] = "recvSleep" /\ pc'[t] = "recvAwake"
        /\ UNCHANGED <<notEmpty, notFull, buffer>>
    BY <1>0, <1>9 DEF ChanSchedule, At, Goto
  <2> QED
    BY <1>1, <1>5, <2>1, <2>2
<1>10. ASSUME NEW t \in Threads, ChanLeave(t)
       PROVE  SleepInv'
  <2>1. state'[t] # "Blocked" /\ \A u \in Threads \ {t} : state'[u] = state[u]
    BY <1>0, <1>10, FinishKeeps DEF ChanLeave, At
  <2>2. ToSet(notEmpty') \subseteq ToSet(notEmpty) /\ ToSet(notFull') \subseteq ToSet(notFull)
    BY <1>0, <1>10, OneRemoved DEF ChanLeave
  <2>3. /\ \A u \in Threads : u # t => pc'[u] = pc[u]
        /\ \/ pc[t] = "sendAwake" /\ pc'[t] = "send"
           \/ pc[t] = "recvAwake" /\ pc'[t] = "recv"
        /\ UNCHANGED buffer
    BY <1>0, <1>10 DEF ChanLeave, At, Goto
  <2> QED
    BY <1>1, <1>5, <2>1, <2>2, <2>3
<1>11. ASSUME NEW t \in Threads, Push(t)
       PROVE  SleepInv'
  <2>1. /\ pc[t] \in {"send", "trySend"} /\ UNCHANGED <<state, notEmpty, notFull>>
        /\ pc'[t] = "sendWake" /\ \A u \in Threads : u # t => pc'[u] = pc[u]
        /\ Len(buffer') = Len(buffer) + 1
    BY <1>0, <1>11 DEF Push, At, Goto, threadVars, Message
  <2>2. RA \subseteq RB /\ t \in RB \ RA /\ SA \ {t} \subseteq SB
    BY <1>1, <1>4, <2>1
  <2>3. Cardinality(RA) + 1 <= Cardinality(RB) /\ Cardinality(SA) - 1 <= Cardinality(SB)
        /\ Cardinality(RA) \in Nat /\ Cardinality(RB) \in Nat
        /\ Cardinality(SA) \in Nat /\ Cardinality(SB) \in Nat
    BY <1>1, <2>2, Counting
  <2>4. /\ (SomeAsleep(notEmpty))' => SomeAsleep(notEmpty)
        /\ (SomeAsleep(notFull))' => SomeAsleep(notFull)
    BY <2>1 DEF SomeAsleep
  <2>5. Len(buffer) \in Nat /\ Capacity \in Nat /\ Len(buffer') = Len(buffer) + 1
    BY <1>0, <2>1
  <2>6. (SomeAsleep(notEmpty))' => Len(buffer') <= Cardinality(RB)
    BY <1>3, <2>3, <2>4, <2>5
  <2>7. (SomeAsleep(notFull))' => Capacity - Len(buffer') <= Cardinality(SB)
    BY <1>3, <2>3, <2>4, <2>5
  <2> QED
    BY <1>2, <2>6, <2>7
<1>12. ASSUME NEW t \in Threads, Pop(t)
       PROVE  SleepInv'
  <2>1. /\ pc[t] \in {"recv", "tryRecv"} /\ UNCHANGED <<state, notEmpty, notFull>>
        /\ pc'[t] = "recvWake" /\ \A u \in Threads : u # t => pc'[u] = pc[u]
        /\ Len(buffer') = Len(buffer) - 1
    BY <1>0, <1>12 DEF Pop, At, Goto, threadVars
  <2>2. SA \subseteq SB /\ t \in SB \ SA /\ RA \ {t} \subseteq RB
    BY <1>1, <1>4, <2>1
  <2>3. Cardinality(SA) + 1 <= Cardinality(SB) /\ Cardinality(RA) - 1 <= Cardinality(RB)
        /\ Cardinality(RA) \in Nat /\ Cardinality(RB) \in Nat
        /\ Cardinality(SA) \in Nat /\ Cardinality(SB) \in Nat
    BY <1>1, <2>2, Counting
  <2>4. /\ (SomeAsleep(notEmpty))' => SomeAsleep(notEmpty)
        /\ (SomeAsleep(notFull))' => SomeAsleep(notFull)
    BY <2>1 DEF SomeAsleep
  <2>5. Len(buffer) \in Nat /\ Capacity \in Nat /\ Len(buffer') = Len(buffer) - 1
    BY <1>0, <2>1
  <2>6. (SomeAsleep(notEmpty))' => Len(buffer') <= Cardinality(RB)
    BY <1>3, <2>3, <2>4, <2>5
  <2>7. (SomeAsleep(notFull))' => Capacity - Len(buffer') <= Cardinality(SB)
    BY <1>3, <2>3, <2>4, <2>5
  <2> QED
    BY <1>2, <2>6, <2>7
<1>13. ASSUME NEW t \in Threads, WaitNotFull(t) \/ TrySendFull(t)
       PROVE  SleepInv'
  <2>1. /\ pc[t] \in {"send", "trySend"} /\ Len(buffer) >= Capacity /\ UNCHANGED <<notEmpty, buffer>>
        /\ pc'[t] \in {"sendSleep", "idle"} /\ \A u \in Threads : u # t => pc'[u] = pc[u]
        /\ \A u \in Threads : u # t => state'[u] = state[u]
    BY <1>0, <1>13 DEF WaitNotFull, TrySendFull, At, Goto, threadVars, PrepareWait
  <2>2. RA \subseteq RB
    BY <1>1, <2>1
  <2>3. t \notin ToSet(notEmpty)
    BY <2>1 DEF ChanWaitersInv, LinksInv
  <2>4. (SomeAsleep(notEmpty))' => SomeAsleep(notEmpty)
    BY <1>0, <2>1, <2>3 DEF SomeAsleep
  <2>5. Cardinality(RA) <= Cardinality(RB) /\ Cardinality(RA) \in Nat /\ Cardinality(RB) \in Nat
        /\ Cardinality(SB) \in Nat
    BY <1>1, <2>2, Counting
  <2> QED
    BY <1>0, <1>2, <1>3, <2>1, <2>4, <2>5
<1>14. ASSUME NEW t \in Threads, WaitNotEmpty(t) \/ TryRecvEmpty(t)
       PROVE  SleepInv'
  <2>1. /\ pc[t] \in {"recv", "tryRecv"} /\ Len(buffer) = 0 /\ UNCHANGED <<notFull, buffer>>
        /\ pc'[t] \in {"recvSleep", "idle"} /\ \A u \in Threads : u # t => pc'[u] = pc[u]
        /\ \A u \in Threads : u # t => state'[u] = state[u]
    BY <1>0, <1>14 DEF WaitNotEmpty, TryRecvEmpty, At, Goto, threadVars, PrepareWait
  <2>2. SA \subseteq SB
    BY <1>1, <2>1
  <2>3. t \notin ToSet(notFull)
    BY <2>1 DEF ChanWaitersInv, LinksInv
  <2>4. (SomeAsleep(notFull))' => SomeAsleep(notFull)
    BY <1>0, <2>1, <2>3 DEF SomeAsleep
  <2>5. Cardinality(SA) <= Cardinality(SB) /\ Cardinality(SA) \in Nat /\ Cardinality(SB) \in Nat
        /\ Cardinality(RB) \in Nat
    BY <1>1, <2>2, Counting
  <2> QED
    BY <1>0, <1>2, <1>3, <2>1, <2>4, <2>5
<1>15. ASSUME NEW t \in Threads, WakeReceiver(t)
       PROVE  SleepInv'
  <2>1. /\ ToSet(notEmpty') \subseteq ToSet(notEmpty)
        /\ \/ (\A u \in ToSet(notEmpty) : ~Wakeable(u)) /\ state' = state
           \/ \E v \in ToSet(notEmpty) :
                 /\ Wakeable(v) /\ state'[v] # "Blocked"
                 /\ \A u \in Threads \ {v} : state'[u] = state[u]
    BY <1>0, <1>15, WakeOneKeeps DEF WakeReceiver
  <2>2. /\ pc[t] = "sendWake" /\ current = t /\ pc'[t] = "idle"
        /\ \A u \in Threads : u # t => pc'[u] = pc[u]
        /\ UNCHANGED <<notFull, buffer>>
    BY <1>0, <1>15 DEF WakeReceiver, At, Goto
  <2>3. CASE (\A u \in ToSet(notEmpty) : ~Wakeable(u)) /\ state' = state
    <3>1. ~(SomeAsleep(notEmpty))'
      BY <2>1, <2>3 DEF SomeAsleep, Wakeable
    <3>2. (SomeAsleep(notFull))' => SomeAsleep(notFull)
      BY <2>2, <2>3 DEF SomeAsleep
    <3>3. SA \subseteq SB
      BY <1>1, <2>2, <2>3
    <3>4. Cardinality(SA) <= Cardinality(SB) /\ Cardinality(SA) \in Nat /\ Cardinality(SB) \in Nat
      BY <1>1, <3>3, Counting
    <3> QED
      BY <1>0, <1>2, <1>3, <2>2, <3>1, <3>2, <3>4
  <2>4. ASSUME NEW v \in ToSet(notEmpty), Wakeable(v), state'[v] # "Blocked",
               \A u \in Threads \ {v} : state'[u] = state[u]
        PROVE  SleepInv'
    <3>1. v \in Threads /\ pc[v] \in {"recvSleep", "recvAwake"} /\ v # t
      BY <1>0, <2>2 DEF ChanWaitersInv, LinksInv
    <3>2. state[v] = "Blocked"
      BY <2>2, <2>4, <3>1 DEF Wakeable
    <3>3. (SomeAsleep(notEmpty))' => SomeAsleep(notEmpty)
      BY <1>0, <2>1, <2>4 DEF SomeAsleep
    <3>4. (SomeAsleep(notFull))' => SomeAsleep(notFull)
      BY <1>0, <2>2, <2>4 DEF SomeAsleep
    <3>5. t \in RA /\ v \in RB \ RA /\ RA \ {t} \subseteq RB /\ SA \subseteq SB
      BY <1>1, <1>4, <2>2, <2>4, <3>1, <3>2
    <3>6. Cardinality(RA) <= Cardinality(RB) /\ Cardinality(SA) <= Cardinality(SB)
          /\ Cardinality(RA) \in Nat /\ Cardinality(RB) \in Nat
          /\ Cardinality(SA) \in Nat /\ Cardinality(SB) \in Nat
      BY <1>1, <3>5, Counting
    <3> QED
      BY <1>0, <1>2, <1>3, <2>2, <3>3, <3>4, <3>6
  <2> QED
    BY <2>1, <2>3, <2>4
<1>16. ASSUME NEW t \in Threads, WakeSender(t)
       PROVE  SleepInv'
  <2>1. /\ ToSet(notFull') \subseteq ToSet(notFull)
        /\ \/ (\A u \in ToSet(notFull) : ~Wakeable(u)) /\ state' = state
           \/ \E v \in ToSet(notFull) :
                 /\ Wakeable(v) /\ state'[v] # "Blocked"
                 /\ \A u \in Threads \ {v} : state'[u] = state[u]
    BY <1>0, <1>16, WakeOneKeeps DEF WakeSender
  <2>2. /\ pc[t] = "recvWake" /\ current = t /\ pc'[t] = "idle"
        /\ \A u \in Threads : u # t => pc'[u] = pc[u]
        /\ UNCHANGED <<notEmpty, buffer>>
    BY <1>0, <1>16 DEF WakeSender, At, Goto
  <2>3. CASE (\A u \in ToSet(notFull) : ~Wakeable(u)) /\ state' = state
    <3>1. ~(SomeAsleep(notFull))'
      BY <2>1, <2>3 DEF SomeAsleep, Wakeable
    <3>2. (SomeAsleep(notEmpty))' => SomeAsleep(notEmpty)
      BY <2>2, <2>3 DEF SomeAsleep
    <3>3. RA \subseteq RB
      BY <1>1, <2>2, <2>3
    <3>4. Cardinality(RA) <= Cardinality(RB) /\ Cardinality(RA) \in Nat /\ Cardinality(RB) \in Nat
      BY <1>1, <3>3, Counting
    <3> QED
      BY <1>0, <1>2, <1>3, <2>2, <3>1, <3>2, <3>4
  <2>4. ASSUME NEW v \in ToSet(notFull), Wakeable(v), state'[v] # "Blocked",
               \A u \in Threads \ {v} : state'[u] = state[u]
        PROVE  SleepInv'
    <3>1. v \in Threads /\ pc[v] \in {"sendSleep", "sendAwake"} /\ v # t
      BY <1>0, <2>2 DEF ChanWaitersInv, LinksInv
    <3>2. state[v] = "Blocked"
      BY <2>2, <2>4, <3>1 DEF Wakeable
    <3>3. (SomeAsleep(notFull))' => SomeAsleep(notFull)
      BY <1>0, <2>1, <2>4 DEF SomeAsleep
    <3>4. (SomeAsleep(notEmpty))' => SomeAsleep(notEmpty)
      BY <1>0, <2>2, <2>4 DEF SomeAsleep
    <3>5. t \in SA /\ v \in SB \ SA /\ SA \ {t} \subseteq SB /\ RA \subseteq RB
      BY <1>1, <1>4, <2>2, <2>4, <3>1, <3>2
    <3>6. Cardinality(RA) <= Cardinality(RB) /\ Cardinality(SA) <= Cardinality(SB)
          /\ Cardinality(RA) \in Nat /\ Cardinality(RB) \in Nat
          /\ Cardinality(SA) \in Nat /\ Cardinality(SB) \in Nat
      BY <1>1, <3>5, Counting
    <3> QED
      BY <1>0, <1>2, <1>3, <2>2, <3>3, <3>4, <3>6
  <2> QED
    BY <2>1, <2>3, <2>4
<1> QED
  BY <1>6, <1>7, <1>8, <1>9, <1>10, <1>11, <1>12, <1>13, <1>14, <1>15, <1>16 DEF ChanNext, ChanStep

ChannelInv == ChanWaitersInv /\ OrderInv /\ SleepInv

LEMMA ChannelInvariance == ChanSpec => []ChannelInv
<1>1. ChanInit => ChannelInv
  <2> SUFFICES ASSUME ChanInit PROVE ChannelInv
    OBVIOUS
  <2>1. ThreadsInv
    BY ThreadsInitOK DEF ChanInit
  <2>2. /\ buffer = <<>> /\ received = <<>> /\ notEmpty = <<>> /\ notFull = <<>>
        /\ pc = [t \in Threads |-> "idle"] /\ calls = [t \in Threads |-> 0]
        /\ \A t \in Threads : state[t] = "Ready"
    BY DEF ChanInit, ThreadsInit
  <2>3. /\ ToSet(notEmpty) = {} /\ ToSet(notFull) = {} /\ IsInjective(notEmpty) /\ IsInjective(notFull)
        /\ notEmpty \in Seq(Threads) /\ notFull \in Seq(Threads)
    BY <2>2 DEF ToSet, IsInjective
  <2>4. ChanWaitersInv
    BY <2>1, <2>2, <2>3 DEF ChanWaitersInv, ChanTypeOK, LinksInv, ThreadsInv, ChanPcs
  <2>5. OrderInv
    BY <2>2, ChannelAssumption DEF OrderInv, InOrder, Numbered
  <2>6. SleepInv
    BY <2>3 DEF SleepInv, ReceiversJustified, SendersJustified, SomeAsleep
  <2> QED
    BY <2>4, <2>5, <2>6 DEF ChannelInv
<1>2. ChannelInv /\ [ChanNext]_channelVars => ChannelInv'
  BY ChanWaitersStep, OrderStep, SleepStep DEF ChannelInv
<1> QED
  BY <1>1, <1>2, PTL DEF ChanSpec

(* A BlockingChannel delivers every message once and in its sender's order, *)
(* never holds more than its capacity, and nobody sleeps on a message or a  *)
(* place that no thread is on its way to: for any number of threads, any    *)
(* capacity, and the timer firing between any two steps.                    *)
THEOREM ChannelIsSound == ChanSpec => []ChannelSound
<1>1. ChannelInv => ExactlyOnceInOrder
  <2> SUFFICES ASSUME ChannelInv PROVE ExactlyOnceInOrder
    OBVIOUS
  <2>1. received \o buffer \in Seq(Threads \X Nat)
    BY DEF ChannelInv, ChanWaitersInv, ChanTypeOK
  <2>2. DOMAIN (received \o buffer) = 1 .. Len(received \o buffer)
    BY <2>1
  <2> QED
    BY <2>2 DEF ChannelInv, OrderInv, InOrder, ExactlyOnceInOrder
<1>2. ChannelInv => SleepIsJustified
  BY DEF ChannelInv, SleepInv, ReceiversJustified, SendersJustified, SomeAsleep, Stirring,
         ReceiverLabels, SenderLabels, SleepIsJustified
<1> QED
  BY <1>1, <1>2, ChannelInvariance, PTL DEF ChannelSound

(* A thread that blocks in send or recv is in one of the two queues of the  *)
(* channel, where the next wake_one looks.                                  *)
THEOREM ChannelWaitersAreQueued == ChanSpec => [](ChanTypeOK /\ LinksInv)
<1>1. ChannelInv => ChanTypeOK /\ LinksInv
  BY DEF ChannelInv, ChanWaitersInv
<1> QED
  BY <1>1, ChannelInvariance, PTL
=============================================================================
