-------------------------- MODULE SchedulerProofs ---------------------------
(***************************************************************************)
(* Proofs about the scheduler of process.rs, for any number of processes,  *)
(* any quantum and any use of the sleep, wait, exit and signal calls: a    *)
(* ready process is always in the ready queue, and a blocked one is always *)
(* where its waker looks.                                                  *)
(***************************************************************************)
EXTENDS Scheduler, QueueLemmas

(* The states of the record behind SCHEDULER.                               *)
Reasons ==
    [kind : {"None", "Generic"}] \cup [kind : {"Sleep"}, left : Nat]
       \cup [kind : {"WaitPid"}, child : Pids]

Pcbs == [state : States, reason : Reasons, exited : BOOLEAN, reaped : BOOLEAN,
         parent : Pids \cup {NoPid}]

Scheds == [table : [AllPids -> Pcbs], ready : Seq(AllPids),
           current : AllPids \cup {NoPid}, sleepq : Seq(AllPids), waitq : Seq(Pids)]

(* The points of the kernel where a process continues.                      *)
Points ==
    [at : {"run", "teardown"}] \cup [at : {"prepared", "resumed"}, why : Reasons]
       \cup [at : {"yield"}, to : Pids]

(* The flags that go with an ended state; a process not made yet has no     *)
(* parent.                                                                  *)
Marked(s) ==
    \A p \in AllPids :
        /\ State(s, p) = "Reaped" => s.table[p].reaped
        /\ State(s, p) = "Terminated" => s.table[p].exited
        /\ State(s, p) = "Unused" => s.table[p].parent = NoPid

(* ReadyIsQueued of a record.                                               *)
Queued(s) ==
    \A p \in Pids : ~Dead(s, p) =>
        /\ State(s, p) = "Ready" => p \in ToSet(s.ready)
        /\ State(s, p) = "Running" => s.current = p

(* What waking a blocked process takes, by the reason it is blocked for.    *)
Found(s, p) ==
    LET why == s.table[p].reason
    IN  /\ why.kind # "None"
        /\ why.kind = "Generic" => p \in ToSet(s.waitq)
        /\ why.kind = "Sleep" => p \in ToSet(s.sleepq)
        /\ why.kind = "WaitPid" => ~Dead(s, why.child) /\ s.table[why.child].parent = p

(* BlockedIsWakeable of a record, and the same for every process but those  *)
(* that wait for c, its parent, to be woken by c's end.                     *)
Waits(s, p, c) ==
    s.table[p].reason.kind = "WaitPid" /\ s.table[p].reason.child = c /\ s.table[c].parent = p

AllFound(s) == \A p \in Pids : State(s, p) = "Blocked" => Found(s, p)
FoundBut(s, c) == \A p \in Pids : State(s, p) = "Blocked" => Found(s, p) \/ Waits(s, p, c)

Good(s) == s \in Scheds /\ Marked(s) /\ Queued(s)

-----------------------------------------------------------------------------
(* Queues and records *)

(* What Keeping leaves of a queue.                                          *)
LEMMA Kept ==
    ASSUME NEW S, NEW q \in Seq(S), NEW T
    PROVE  Keeping(q, T) \in Seq(S) /\ ToSet(Keeping(q, T)) = ToSet(q) \cap T
<1> DEFINE n == Len(q)
           step == [a \in (1 .. n) \X Seq(S) |->
                      IF q[a[1]] \in T THEN Append(a[2], q[a[1]]) ELSE a[2]]
           Body(f) == [i \in 0 .. n |->
                         IF i = 0 THEN << >>
                         ELSE IF q[i] \in T THEN Append(f[i - 1], q[i]) ELSE f[i - 1]]
           kept == CHOOSE f : f = Body(f)
<1>1. n \in Nat /\ << >> \in Seq(S) /\ \A i \in 1 .. n : q[i] \in S
  OBVIOUS
<1>2. \A i \in 1 .. n : \A x \in Seq(S) :
         step[<<i, x>>] \in Seq(S) /\ step[<<i, x>>] = IF q[i] \in T THEN Append(x, q[i]) ELSE x
  BY <1>1
<1> HIDE DEF n, step
<1>3. PICK f \in [0 .. n -> Seq(S)] :
         f[0] = << >> /\ \A i \in 1 .. n : f[i] = step[<<i, f[i - 1]>>]
  <2>1. step \in [(1 .. n) \X Seq(S) -> Seq(S)]
    BY <1>1 DEF step
  <2>2. \E f \in [0 .. n -> Seq(S)] : Computes(f, n, << >>, step)
    BY <1>1, <2>1, Iterated
  <2> QED BY <2>2 DEF Computes
<1>4. f = Body(f)
  <2>1. ASSUME NEW i \in 0 .. n
        PROVE  f[i] = IF i = 0 THEN << >>
                      ELSE IF q[i] \in T THEN Append(f[i - 1], q[i]) ELSE f[i - 1]
    <3>1. CASE i = 0
      BY <1>3, <3>1
    <3>2. CASE i \in 1 .. n
      <4>1. f[i - 1] \in Seq(S) /\ i # 0
        BY <1>3, <1>1, <3>2
      <4> QED BY <1>2, <1>3, <3>2, <4>1
    <3> QED BY <1>1, <3>1, <3>2
  <2> QED BY <2>1, <1>3
<1>5. kept = Body(kept)
  BY <1>4, Zenon
<1>6. Keeping(q, T) = kept[n]
  BY Zenon DEF Keeping, n
<1> HIDE DEF kept
<1>7. kept[0] = << >> /\ \A i \in 1 .. n : kept[i] = IF q[i] \in T THEN Append(kept[i - 1], q[i]) ELSE kept[i - 1]
  <2>1. ASSUME NEW i \in 0 .. n
        PROVE  kept[i] = IF i = 0 THEN << >>
                         ELSE IF q[i] \in T THEN Append(kept[i - 1], q[i]) ELSE kept[i - 1]
    BY <1>5, Zenon
  <2>2. 0 \in 0 .. n /\ \A i \in 1 .. n : i \in 0 .. n /\ i # 0
    BY <1>1
  <2> QED BY <2>1, <2>2, Zenon
<1> DEFINE Upto(i) == {q[j] : j \in 1 .. i}
           G == {i \in 0 .. n : kept[i] \in Seq(S) /\ ToSet(kept[i]) = Upto(i) \cap T}
<1>8. 0 \in G
  <2>1. ToSet(<< >>) = {} /\ Upto(0) = {}
    BY DEF ToSet
  <2>2. kept[0] \in Seq(S) /\ ToSet(kept[0]) = Upto(0) \cap T
    BY <1>1, <1>7, <2>1, Zenon
  <2> QED BY <1>1, <2>2
<1>9. ASSUME NEW i \in 1 .. n, i - 1 \in G
      PROVE  i \in G
  <2>1. kept[i - 1] \in Seq(S) /\ ToSet(kept[i - 1]) = Upto(i - 1) \cap T
    BY <1>9
  <2>2. Upto(i) = Upto(i - 1) \cup {q[i]}
    OBVIOUS
  <2> HIDE DEF Upto
  <2>3. CASE q[i] \in T
    <3>1. kept[i] = Append(kept[i - 1], q[i])
      BY <1>7, <2>3
    <3>2. kept[i] \in Seq(S) /\ ToSet(kept[i]) = ToSet(kept[i - 1]) \cup {q[i]}
      BY <3>1, <2>1, <1>1, Appended
    <3> QED BY <3>2, <2>1, <2>2, <2>3
  <2>4. CASE q[i] \notin T
    <3>1. kept[i] = kept[i - 1]
      BY <1>7, <2>4
    <3> QED BY <3>1, <2>1, <2>2, <2>4
  <2> QED BY <2>3, <2>4
<1>10. n \in G
  <2> HIDE DEF G
  <2>1. \A i \in 0 .. n : i \in G
    BY <1>1, <1>8, <1>9, Climbed
  <2> QED BY <1>1, <2>1
<1>11. Upto(n) = ToSet(q)
  <2>1. \A x : x \in ToSet(q) <=> \E i \in 1 .. Len(q) : q[i] = x
    BY Elements
  <2> QED BY <2>1 DEF n
<1> QED BY <1>6, <1>10, <1>11

LEMMA SchedFacts ==
    /\ Idle \notin Pids /\ NoPid \notin AllPids /\ Boot \in Pids /\ Pids \subseteq AllPids
    /\ NoPid \notin Pids /\ Idle \in AllPids /\ QuantumTicks \in Nat \ {0} /\ SleepTicks \subseteq Nat
    /\ Sleepers \subseteq Pids /\ Leavers \subseteq Pids
BY SchedulerAssumption DEF AllPids

LEMMA ReasonFacts ==
    /\ None \in Reasons /\ Generic \in Reasons /\ None.kind = "None" /\ Generic.kind = "Generic"
    /\ \A n \in Nat : Sleep(n) \in Reasons /\ Sleep(n).kind = "Sleep" /\ Sleep(n).left = n
    /\ \A c \in Pids : WaitPid(c) \in Reasons /\ WaitPid(c).kind = "WaitPid" /\ WaitPid(c).child = c
    /\ \A r \in Reasons : /\ r.kind \in {"None", "Generic", "Sleep", "WaitPid"}
                          /\ r.kind = "Sleep" => r.left \in Nat
                          /\ r.kind = "WaitPid" => r.child \in Pids
                          /\ r.kind = "None" <=> r = None
<1>1. /\ None \in Reasons /\ Generic \in Reasons /\ None.kind = "None" /\ Generic.kind = "Generic"
  BY DEF None, Generic, Reasons
<1>2. \A n \in Nat : Sleep(n) \in Reasons /\ Sleep(n).kind = "Sleep" /\ Sleep(n).left = n
  BY DEF Sleep, Reasons
<1>3. \A c \in Pids : WaitPid(c) \in Reasons /\ WaitPid(c).kind = "WaitPid" /\ WaitPid(c).child = c
  BY DEF WaitPid, Reasons
<1>4. ASSUME NEW r \in Reasons
      PROVE  /\ r.kind \in {"None", "Generic", "Sleep", "WaitPid"}
             /\ r.kind = "Sleep" => r.left \in Nat
             /\ r.kind = "WaitPid" => r.child \in Pids
  BY DEF Reasons
<1>5. ASSUME NEW r \in Reasons
      PROVE  r.kind = "None" <=> r = None
  BY DEF Reasons, None
<1> QED BY <1>1, <1>2, <1>3, <1>4, <1>5

LEMMA PcbFacts ==
    ASSUME NEW s \in Scheds, NEW p \in AllPids
    PROVE  /\ s.table[p] \in Pcbs /\ s.table[p].state \in States /\ s.table[p].reason \in Reasons
           /\ s.table[p].parent \in Pids \cup {NoPid}
           /\ s.ready \in Seq(AllPids) /\ s.sleepq \in Seq(AllPids) /\ s.waitq \in Seq(Pids)
           /\ s.current \in AllPids \cup {NoPid} /\ s.table \in [AllPids -> Pcbs]
<1>1. s.table \in [AllPids -> Pcbs]
  BY DEF Scheds
<1>2. s.table[p] \in Pcbs
  BY <1>1
<1> QED BY <1>1, <1>2 DEF Scheds, Pcbs

(* Two records agree on every process but p, and on who has ended.          *)
Others(s, t, p) == \A q \in AllPids : q # p => t.table[q] = s.table[q]
SameLife(s, t) ==
    \A q \in AllPids : /\ t.table[q].exited = s.table[q].exited
                       /\ t.table[q].reaped = s.table[q].reaped
                       /\ t.table[q].parent = s.table[q].parent

-----------------------------------------------------------------------------
(* What the functions of the code do to the record *)

LEMMA SetStateFields ==
    ASSUME NEW s \in Scheds, NEW p \in AllPids, NEW st \in States
    PROVE  LET t == SetState(s, p, st)
           IN  /\ t \in Scheds /\ Others(s, t, p) /\ SameLife(s, t)
               /\ t.table[p].state = st /\ t.table[p].reason = s.table[p].reason
               /\ t.ready = s.ready /\ t.current = s.current
               /\ t.sleepq = s.sleepq /\ t.waitq = s.waitq
<1>1. s.table \in [AllPids -> Pcbs] /\ s.table[p] \in Pcbs
  BY PcbFacts
<1> DEFINE e == [s.table[p] EXCEPT !.state = st]
           t == SetState(s, p, st)
<1>2. /\ e \in Pcbs /\ e.state = st /\ e.reason = s.table[p].reason
      /\ e.exited = s.table[p].exited /\ e.reaped = s.table[p].reaped /\ e.parent = s.table[p].parent
  BY <1>1 DEF Pcbs
<1>3. t = [s EXCEPT !.table = [s.table EXCEPT ![p] = e]]
  BY DEF SetState
<1> HIDE DEF e, t
<1>4. t.table = [s.table EXCEPT ![p] = e] /\ t.ready = s.ready /\ t.current = s.current
      /\ t.sleepq = s.sleepq /\ t.waitq = s.waitq /\ t \in Scheds
  BY <1>1, <1>2, <1>3 DEF Scheds
<1>5. t.table[p] = e /\ Others(s, t, p)
  BY <1>1, <1>4 DEF Others
<1>6. SameLife(s, t)
  BY <1>2, <1>5 DEF SameLife, Others
<1> QED BY <1>2, <1>4, <1>5, <1>6 DEF t

LEMMA BlockedFields ==
    ASSUME NEW s \in Scheds, NEW p \in AllPids, NEW why \in Reasons
    PROVE  LET t == Blocked(s, p, why)
           IN  /\ t \in Scheds /\ Others(s, t, p) /\ SameLife(s, t)
               /\ t.table[p].state = "Blocked" /\ t.table[p].reason = why
               /\ t.ready = s.ready /\ t.current = s.current
               /\ t.sleepq = s.sleepq /\ t.waitq = s.waitq
<1>1. s.table \in [AllPids -> Pcbs] /\ s.table[p] \in Pcbs
  BY PcbFacts
<1> DEFINE e == [s.table[p] EXCEPT !.state = "Blocked", !.reason = why]
           t == Blocked(s, p, why)
<1>2. /\ e \in Pcbs /\ e.state = "Blocked" /\ e.reason = why
      /\ e.exited = s.table[p].exited /\ e.reaped = s.table[p].reaped /\ e.parent = s.table[p].parent
  BY <1>1 DEF Pcbs, States
<1>3. t = [s EXCEPT !.table = [s.table EXCEPT ![p] = e]]
  BY <1>1 DEF Blocked, Scheds, Pcbs
<1> HIDE DEF e, t
<1>4. t.table = [s.table EXCEPT ![p] = e] /\ t.ready = s.ready /\ t.current = s.current
      /\ t.sleepq = s.sleepq /\ t.waitq = s.waitq /\ t \in Scheds
  BY <1>1, <1>2, <1>3 DEF Scheds
<1>5. t.table[p] = e /\ Others(s, t, p)
  BY <1>1, <1>4 DEF Others
<1>6. SameLife(s, t)
  BY <1>2, <1>5 DEF SameLife, Others
<1> QED BY <1>2, <1>4, <1>5, <1>6 DEF t

LEMMA MakeReadyFields ==
    ASSUME NEW s \in Scheds, NEW p \in AllPids
    PROVE  LET t == MakeReady(s, p)
           IN  /\ t \in Scheds /\ Others(s, t, p) /\ SameLife(s, t)
               /\ t.table[p].state = "Ready" /\ t.table[p].reason = None
               /\ t.ready = Append(s.ready, p) /\ ToSet(t.ready) = ToSet(s.ready) \cup {p}
               /\ t.current = s.current /\ t.sleepq = s.sleepq /\ t.waitq = s.waitq
<1>1. s.table \in [AllPids -> Pcbs] /\ s.table[p] \in Pcbs /\ s.ready \in Seq(AllPids)
  BY PcbFacts
<1> DEFINE e == [s.table[p] EXCEPT !.state = "Ready", !.reason = None]
           r == Append(s.ready, p)
           t == MakeReady(s, p)
<1>2. /\ e \in Pcbs /\ e.state = "Ready" /\ e.reason = None
      /\ e.exited = s.table[p].exited /\ e.reaped = s.table[p].reaped /\ e.parent = s.table[p].parent
  BY <1>1, ReasonFacts DEF Pcbs, States
<1>3. r \in Seq(AllPids) /\ ToSet(r) = ToSet(s.ready) \cup {p}
  BY <1>1, Appended
<1>4. t = [s EXCEPT !.table = [s.table EXCEPT ![p] = e], !.ready = r]
  BY <1>1 DEF MakeReady, Scheds, Pcbs
<1> HIDE DEF e, t, r
<1>5. t.table = [s.table EXCEPT ![p] = e] /\ t.ready = r /\ t.current = s.current
      /\ t.sleepq = s.sleepq /\ t.waitq = s.waitq /\ t \in Scheds
  BY <1>1, <1>2, <1>3, <1>4 DEF Scheds
<1>6. t.table[p] = e /\ Others(s, t, p)
  BY <1>1, <1>5 DEF Others
<1>7. SameLife(s, t)
  BY <1>2, <1>6 DEF SameLife, Others
<1> QED BY <1>2, <1>3, <1>5, <1>6, <1>7 DEF t, r

LEMMA TerminatedFields ==
    ASSUME NEW s \in Scheds, NEW p \in AllPids
    PROVE  LET t == Terminated(s, p)
           IN  /\ t \in Scheds /\ Others(s, t, p)
               /\ t.table[p].state = "Terminated" /\ t.table[p].reason = s.table[p].reason
               /\ t.table[p].exited /\ t.table[p].reaped = s.table[p].reaped
               /\ t.table[p].parent = s.table[p].parent
               /\ t.ready = s.ready /\ t.current = s.current
               /\ t.sleepq = s.sleepq /\ t.waitq = s.waitq
<1>1. s.table \in [AllPids -> Pcbs] /\ s.table[p] \in Pcbs
  BY PcbFacts
<1> DEFINE e == [s.table[p] EXCEPT !.state = "Terminated", !.exited = TRUE]
           t == Terminated(s, p)
<1>2. /\ e \in Pcbs /\ e.state = "Terminated" /\ e.reason = s.table[p].reason
      /\ e.exited = TRUE /\ e.reaped = s.table[p].reaped /\ e.parent = s.table[p].parent
  BY <1>1 DEF Pcbs, States
<1>3. t = [s EXCEPT !.table = [s.table EXCEPT ![p] = e]]
  BY <1>1 DEF Terminated, Scheds, Pcbs
<1> HIDE DEF e, t
<1>4. t.table = [s.table EXCEPT ![p] = e] /\ t.ready = s.ready /\ t.current = s.current
      /\ t.sleepq = s.sleepq /\ t.waitq = s.waitq /\ t \in Scheds
  BY <1>1, <1>2, <1>3 DEF Scheds
<1>5. t.table[p] = e /\ Others(s, t, p)
  BY <1>1, <1>4 DEF Others
<1> QED BY <1>2, <1>4, <1>5 DEF t

LEMMA SwitchToFields ==
    ASSUME NEW s \in Scheds, NEW p \in AllPids
    PROVE  LET t == SwitchTo(s, p)
           IN  /\ t \in Scheds /\ Others(s, t, p) /\ SameLife(s, t)
               /\ t.table[p].state = "Running" /\ t.table[p].reason = s.table[p].reason
               /\ t.ready = s.ready /\ t.current = p
               /\ t.sleepq = s.sleepq /\ t.waitq = s.waitq
<1>1. s.table \in [AllPids -> Pcbs] /\ s.table[p] \in Pcbs
  BY PcbFacts
<1> DEFINE e == [s.table[p] EXCEPT !.state = "Running"]
           t == SwitchTo(s, p)
<1>2. /\ e \in Pcbs /\ e.state = "Running" /\ e.reason = s.table[p].reason
      /\ e.exited = s.table[p].exited /\ e.reaped = s.table[p].reaped /\ e.parent = s.table[p].parent
  BY <1>1 DEF Pcbs, States
<1>3. t = [s EXCEPT !.table = [s.table EXCEPT ![p] = e], !.current = p]
  BY <1>1 DEF SwitchTo, Scheds, Pcbs
<1> HIDE DEF e, t
<1>4. t.table = [s.table EXCEPT ![p] = e] /\ t.ready = s.ready /\ t.current = p
      /\ t.sleepq = s.sleepq /\ t.waitq = s.waitq /\ t \in Scheds
  BY <1>1, <1>2, <1>3 DEF Scheds
<1>5. t.table[p] = e /\ Others(s, t, p)
  BY <1>1, <1>4 DEF Others
<1>6. SameLife(s, t)
  BY <1>2, <1>5 DEF SameLife, Others
<1> QED BY <1>2, <1>4, <1>5, <1>6 DEF t

-----------------------------------------------------------------------------
(* A step on one process *)

(* A step that changes process p only, and takes nobody out of the ready    *)
(* queue, keeps the queues in order when it leaves p in order.              *)
LEMMA GoodAfter ==
    ASSUME NEW s, Good(s), NEW t \in Scheds, NEW p \in AllPids, Others(s, t, p), SameLife(s, t),
           t.current = s.current, ToSet(s.ready) \subseteq ToSet(t.ready),
           \/ t.table[p].state \in {"Running", "Blocked", "Exiting"}
           \/ t.table[p].state = "Ready" /\ p \in ToSet(t.ready),
           t.table[p].state = "Running" => t.current = p
    PROVE  Good(t)
<1>1. Marked(t)
  BY DEF Marked, Good, State, Others, SameLife
<1>2. \A q \in Pids : Dead(t, q) <=> Dead(s, q)
  BY SchedFacts DEF Dead, SameLife
<1>3. Queued(t)
  <2> SUFFICES ASSUME NEW q \in Pids, ~Dead(t, q)
               PROVE  /\ State(t, q) = "Ready" => q \in ToSet(t.ready)
                      /\ State(t, q) = "Running" => t.current = q
    BY DEF Queued
  <2>1. CASE q = p
    BY <2>1 DEF State
  <2>2. CASE q # p
    <3>1. State(t, q) = State(s, q) /\ ~Dead(s, q)
      BY <1>2, <2>2, SchedFacts DEF State, Others
    <3> QED BY <3>1 DEF Good, Queued
  <2> QED BY <2>1, <2>2
<1> QED BY <1>1, <1>3 DEF Good

(* ... and so for those who are blocked.                                    *)
LEMMA FoundAfter ==
    ASSUME NEW s \in Scheds, NEW c, AllFound(s) \/ FoundBut(s, c), NEW t \in Scheds, NEW p \in AllPids,
           Others(s, t, p), SameLife(s, t),
           \A q \in Pids : q # p /\ State(s, q) = "Blocked" =>
                             /\ q \in ToSet(s.waitq) => q \in ToSet(t.waitq)
                             /\ q \in ToSet(s.sleepq) => q \in ToSet(t.sleepq),
           p \in Pids /\ State(t, p) = "Blocked" => Found(t, p)
    PROVE  /\ AllFound(s) => AllFound(t)
           /\ c \in Pids /\ FoundBut(s, c) => FoundBut(t, c)
<1>1. \A q \in Pids : Dead(t, q) <=> Dead(s, q)
  BY SchedFacts DEF Dead, SameLife
<1>2. ASSUME NEW q \in Pids, q # p, State(s, q) = "Blocked", Found(s, q)
      PROVE  Found(t, q)
  <2>1. t.table[q] = s.table[q] /\ s.table[q].reason \in Reasons
    BY <1>2, SchedFacts, PcbFacts DEF Others
  <2>2. s.table[q].reason.kind = "WaitPid" =>
           /\ s.table[q].reason.child \in Pids
           /\ s.table[s.table[q].reason.child].parent = t.table[s.table[q].reason.child].parent
    BY <2>1, SchedFacts, ReasonFacts DEF SameLife
  <2> QED BY <1>1, <1>2, <2>1, <2>2 DEF Found
<1>3. ASSUME NEW q \in Pids, q # p, c \in Pids, Waits(s, q, c)
      PROVE  Waits(t, q, c)
  BY <1>3, SchedFacts DEF Waits, Others, SameLife
<1>4. ASSUME NEW q \in Pids, q # p
      PROVE  State(t, q) = State(s, q)
  BY <1>4, SchedFacts DEF Others, State
<1>5. AllFound(s) => AllFound(t)
  BY <1>2, <1>4 DEF AllFound
<1>6. c \in Pids /\ FoundBut(s, c) => FoundBut(t, c)
  BY <1>2, <1>3, <1>4 DEF FoundBut
<1> QED BY <1>5, <1>6

LEMMA MakeReadyKeeps ==
    ASSUME NEW s, Good(s), NEW p \in AllPids
    PROVE  /\ Good(MakeReady(s, p))
           /\ AllFound(s) => AllFound(MakeReady(s, p))
<1>1. s \in Scheds
  BY DEF Good
<1> DEFINE t == MakeReady(s, p)
<1>2. /\ t \in Scheds /\ Others(s, t, p) /\ SameLife(s, t) /\ t.table[p].state = "Ready"
      /\ ToSet(t.ready) = ToSet(s.ready) \cup {p}
      /\ t.current = s.current /\ t.sleepq = s.sleepq /\ t.waitq = s.waitq
  BY <1>1, MakeReadyFields
<1> HIDE DEF t
<1>3. Good(t)
  BY <1>2, GoodAfter
<1>4. AllFound(s) => AllFound(t)
  BY <1>1, <1>2, FoundAfter DEF State
<1> QED BY <1>3, <1>4 DEF t

(* The end of a child: its parent, if it waits for it, is found by it.      *)
LEMMA WakeParentKeeps ==
    ASSUME NEW s, Good(s), NEW c \in Pids, State(s, c) = "Terminated"
    PROVE  /\ Good(WakeParent(s, c))
           /\ FoundBut(s, c) => AllFound(WakeParent(s, c))
           /\ WakeParent(s, c).current = s.current
           /\ \A q \in Pids : State(s, q) # "Blocked" => State(WakeParent(s, c), q) # "Blocked"
           /\ SameLife(s, WakeParent(s, c))
<1> DEFINE par == s.table[c].parent
           wakes == par # NoPid /\ (IF s.table[par].reason.kind = "WaitPid"
                                    THEN s.table[par].reason.child = c
                                    ELSE State(s, par) = "Blocked")
           t == WakeParent(s, c)
<1>1. s \in Scheds /\ par \in Pids \cup {NoPid} /\ c \in AllPids
  BY SchedFacts, PcbFacts DEF Good
<1>2. t = IF wakes THEN MakeReady(s, par) ELSE s
  BY DEF WakeParent
<1>3. CASE wakes
  <2>1. par \in Pids /\ par \in AllPids /\ t = MakeReady(s, par)
    BY <1>1, <1>2, <1>3, SchedFacts
  <2>2. Good(t)
    BY <2>1, MakeReadyKeeps
  <2>3. /\ t \in Scheds /\ Others(s, t, par) /\ SameLife(s, t) /\ t.table[par].state = "Ready"
        /\ t.table[par].reason = None
        /\ t.current = s.current /\ t.sleepq = s.sleepq /\ t.waitq = s.waitq
    BY <1>1, <2>1, MakeReadyFields
  <2>4. \A q \in Pids : State(s, q) # "Blocked" => State(t, q) # "Blocked"
    BY <2>3, SchedFacts DEF State, Others
  <2>5. ASSUME FoundBut(s, c)
        PROVE  AllFound(t)
    <3>1. FoundBut(t, c)
      <4> HIDE DEF t, par
      <4> QED BY <1>1, <2>1, <2>3, <2>5, FoundAfter DEF State
    <3>2. ASSUME NEW q \in Pids, State(t, q) = "Blocked"
          PROVE  Found(t, q)
      <4>1. q # par
        BY <3>2, <2>3 DEF State
      <4>2. ~Waits(t, q, c)
        BY <4>1, <2>3, <1>1 DEF Waits, SameLife
      <4> QED BY <3>1, <3>2, <4>2 DEF FoundBut
    <3> QED BY <3>2 DEF AllFound
  <2> QED BY <2>2, <2>3, <2>4, <2>5
<1>4. CASE ~wakes
  <2>1. t = s
    BY <1>2, <1>4
  <2>2. ASSUME FoundBut(s, c), NEW q \in Pids, State(s, q) = "Blocked"
        PROVE  Found(s, q)
    <3>1. ~Waits(s, q, c)
      BY <1>4, SchedFacts DEF Waits
    <3> QED BY <2>2, <3>1 DEF FoundBut
  <2>3. SameLife(s, s)
    BY DEF SameLife
  <2> QED BY <2>1, <2>2, <2>3 DEF AllFound
<1> QED BY <1>3, <1>4

(* Taking p out of a queue.                                                 *)
LEMMA UnqueuedFacts ==
    ASSUME NEW S, S \subseteq AllPids, NEW q \in Seq(S), NEW p
    PROVE  Unqueued(q, p) \in Seq(S) /\ ToSet(Unqueued(q, p)) = ToSet(q) \ {p}
<1>1. Unqueued(q, p) \in Seq(S) /\ ToSet(Unqueued(q, p)) = ToSet(q) \cap (AllPids \ {p})
  BY Kept DEF Unqueued
<1>2. ToSet(q) \subseteq S
  BY Elements
<1> QED BY <1>1, <1>2

LEMMA RemoveSleepFields ==
    ASSUME NEW s \in Scheds, NEW p \in AllPids
    PROVE  LET t == RemoveSleep(s, p)
           IN  /\ t \in Scheds /\ t.table = s.table /\ t.ready = s.ready /\ t.current = s.current
               /\ ToSet(t.sleepq) = ToSet(s.sleepq) \ {p} /\ t.waitq = s.waitq
<1> DEFINE r == Unqueued(s.sleepq, p)
           t == RemoveSleep(s, p)
<1>1. r \in Seq(AllPids) /\ ToSet(r) = ToSet(s.sleepq) \ {p}
  BY PcbFacts, UnqueuedFacts
<1>2. t = [s EXCEPT !.sleepq = r]
  BY DEF RemoveSleep
<1> HIDE DEF r, t
<1>3. t \in Scheds /\ t.table = s.table /\ t.ready = s.ready /\ t.current = s.current
      /\ t.sleepq = r /\ t.waitq = s.waitq
  BY <1>1, <1>2 DEF Scheds
<1> QED BY <1>1, <1>3 DEF t

LEMMA RemoveSleepKeeps ==
    ASSUME NEW s, Good(s), NEW p \in AllPids, NEW c \in Pids
    PROVE  /\ Good(RemoveSleep(s, p))
           /\ AllFound(s) /\ State(s, p) # "Blocked" => AllFound(RemoveSleep(s, p))
           /\ FoundBut(s, c) /\ State(s, p) # "Blocked" => FoundBut(RemoveSleep(s, p), c)
<1> DEFINE t == RemoveSleep(s, p)
<1>1. /\ s \in Scheds /\ t \in Scheds /\ t.table = s.table /\ t.ready = s.ready /\ t.current = s.current
      /\ ToSet(t.sleepq) = ToSet(s.sleepq) \ {p} /\ t.waitq = s.waitq
  BY RemoveSleepFields DEF Good
<1> HIDE DEF t
<1>2. Good(t)
  BY <1>1 DEF Good, Marked, Queued, State, Dead
<1>3. Others(s, t, p) /\ SameLife(s, t) /\ State(t, p) = State(s, p)
  BY <1>1 DEF Others, SameLife, State
<1>4. AllFound(s) /\ State(s, p) # "Blocked" => AllFound(t)
  BY <1>1, <1>3, FoundAfter
<1>5. FoundBut(s, c) /\ State(s, p) # "Blocked" => FoundBut(t, c)
  BY <1>1, <1>3, FoundAfter
<1> QED BY <1>2, <1>4, <1>5 DEF t

(* finish_wait, for the process that runs it.                               *)
LEMMA FinishWaitKeeps ==
    ASSUME NEW s, Good(s), NEW p \in Pids, s.current = p
    PROVE  /\ Good(FinishWait(s, p))
           /\ AllFound(s) => AllFound(FinishWait(s, p))
           /\ FinishWait(s, p).current = s.current
           /\ State(FinishWait(s, p), p) # "Blocked"
<1> DEFINE r == Unqueued(s.waitq, p)
           u == [s EXCEPT !.waitq = r]
           e == [s.table[p] EXCEPT !.state = "Running", !.reason = None]
           v == [u EXCEPT !.table = [s.table EXCEPT ![p] = e]]
           t == FinishWait(s, p)
<1>1. s \in Scheds /\ p \in AllPids /\ s.table \in [AllPids -> Pcbs] /\ s.table[p] \in Pcbs
      /\ s.waitq \in Seq(Pids)
  BY SchedFacts, PcbFacts DEF Good
<1>2. r \in Seq(Pids) /\ ToSet(r) = ToSet(s.waitq) \ {p}
  BY <1>1, UnqueuedFacts, SchedFacts
<1>3. /\ e \in Pcbs /\ e.state = "Running" /\ e.exited = s.table[p].exited
      /\ e.reaped = s.table[p].reaped /\ e.parent = s.table[p].parent
  BY <1>1, ReasonFacts DEF Pcbs, States
<1>4. t = IF State(s, p) = "Blocked" THEN v ELSE u
  BY <1>1 DEF FinishWait, Scheds, Pcbs, State
<1> HIDE DEF r
<1>5. /\ u \in Scheds /\ u.table = s.table /\ u.ready = s.ready /\ u.current = s.current
      /\ u.sleepq = s.sleepq /\ u.waitq = r
  BY <1>1, <1>2 DEF Scheds
<1> HIDE DEF u, e
<1>6. /\ v \in Scheds /\ v.table = [s.table EXCEPT ![p] = e] /\ v.ready = s.ready
      /\ v.current = s.current /\ v.sleepq = s.sleepq /\ v.waitq = r
  BY <1>1, <1>3, <1>5 DEF Scheds
<1> HIDE DEF v, t
<1>7. CASE State(s, p) = "Blocked"
  <2>1. /\ t \in Scheds /\ t.table = [s.table EXCEPT ![p] = e] /\ t.ready = s.ready
        /\ t.current = s.current /\ t.sleepq = s.sleepq /\ t.waitq = r
    BY <1>4, <1>6, <1>7
  <2>2. t.table[p] = e /\ Others(s, t, p) /\ SameLife(s, t)
    BY <1>1, <1>3, <2>1 DEF Others, SameLife
  <2>3. Good(t)
    BY <1>1, <1>3, <2>1, <2>2, GoodAfter
  <2>4. AllFound(s) => AllFound(t)
    BY <1>1, <1>2, <1>3, <2>1, <2>2, FoundAfter DEF State
  <2> QED BY <2>1, <2>2, <2>3, <2>4, <1>3 DEF t, State
<1>8. CASE State(s, p) # "Blocked"
  <2>1. t \in Scheds /\ t.table = s.table /\ t.ready = s.ready /\ t.current = s.current
        /\ t.sleepq = s.sleepq /\ t.waitq = r
    BY <1>4, <1>5, <1>8
  <2>2. Others(s, t, p) /\ SameLife(s, t) /\ State(t, p) = State(s, p)
    BY <2>1 DEF Others, SameLife, State
  <2>3. Good(t)
    BY <2>1 DEF Good, Marked, Queued, State, Dead
  <2>4. AllFound(s) => AllFound(t)
    BY <1>1, <1>2, <1>8, <2>1, <2>2, FoundAfter
  <2> QED BY <2>1, <2>2, <2>3, <2>4, <1>8 DEF t
<1> QED BY <1>7, <1>8

(* wake_one: whoever is dropped from the queue needs no wake-up.            *)
LEMMA WakeOneKeeps ==
    ASSUME NEW s, Good(s)
    PROVE  /\ Good(WakeOne(s))
           /\ AllFound(s) => AllFound(WakeOne(s))
           /\ WakeOne(s).current = s.current
           /\ \A p \in Pids : State(s, p) # "Blocked" => State(WakeOne(s), p) # "Blocked"
           /\ Woken(s) \in Pids \cup {NoPid}
<1> DEFINE C == Candidates(s)
           t == WakeOne(s)
<1>1. s \in Scheds /\ s.waitq \in Seq(Pids) /\ C \in SUBSET Nat /\ C \subseteq 1 .. Len(s.waitq)
      /\ Len(s.waitq) \in Nat /\ DOMAIN s.waitq = 1 .. Len(s.waitq)
  <2>1. s \in Scheds /\ s.waitq \in Seq(Pids)
    BY SchedFacts, PcbFacts DEF Good
  <2> QED BY <2>1 DEF Candidates
<1>2. \A i \in DOMAIN s.waitq : s.waitq[i] \in Pids /\ (State(s, s.waitq[i]) = "Blocked" => i \in C)
  BY <1>1 DEF Candidates, Wakeable
<1>3. \A q \in ToSet(s.waitq) : State(s, q) = "Blocked" => \E i \in C : s.waitq[i] = q
  BY <1>1, <1>2, Elements
<1>4. CASE C = {}
  <2>1. t = [s EXCEPT !.waitq = << >>] /\ Woken(s) = NoPid
    BY <1>4 DEF WakeOne, Woken
  <2> HIDE DEF t
  <2>2. t \in Scheds /\ t.table = s.table /\ t.ready = s.ready /\ t.current = s.current
        /\ t.sleepq = s.sleepq
    <3>1. << >> \in Seq(Pids)
      OBVIOUS
    <3> QED BY <1>1, <2>1, <3>1 DEF Scheds
  <2>3. Good(t)
    BY <2>2 DEF Good, Marked, Queued, State, Dead
  <2>4. \A q \in Pids : State(s, q) = "Blocked" => q \notin ToSet(s.waitq)
    BY <1>3, <1>4
  <2>5. AllFound(s) => AllFound(t)
    BY <2>2, <2>4 DEF AllFound, Found, State, Dead
  <2> QED BY <2>1, <2>2, <2>3, <2>5 DEF t, State
<1>5. CASE C # {}
  <2> DEFINE i == Min(C)
             p == s.waitq[i]
             r == SubSeq(s.waitq, i + 1, Len(s.waitq))
             u == [s EXCEPT !.waitq = r]
             e == [s.table[p] EXCEPT !.state = "Running", !.reason = None]
             v == [u EXCEPT !.table = [s.table EXCEPT ![p] = e]]
  <2>1. i \in C /\ \A j \in C : i <= j
    <3>1. \E m \in C : \A j \in C : m <= j
      BY <1>1, <1>5, MinExists
    <3> QED BY <3>1, Zenon DEF Min
  <2> HIDE DEF i
  <2>2. i \in 1 .. Len(s.waitq) /\ p \in Pids /\ p \in AllPids /\ i \in Nat
    BY <1>1, <1>2, <2>1, SchedFacts
  <2>3. r \in Seq(Pids) /\ ToSet(r) = {s.waitq[j] : j \in i + 1 .. Len(s.waitq)}
    BY <1>1, <2>2, SuffixTaken
  <2>4. \A q \in ToSet(s.waitq) : State(s, q) = "Blocked" /\ q # p => q \in ToSet(r)
    <3> SUFFICES ASSUME NEW q \in ToSet(s.waitq), State(s, q) = "Blocked", q # p
                 PROVE  q \in ToSet(r)
      OBVIOUS
    <3>1. PICK j \in C : s.waitq[j] = q
      BY <1>3
    <3>2. j # i /\ i <= j /\ j \in 1 .. Len(s.waitq)
      BY <1>1, <2>1, <3>1
    <3>3. j \in i + 1 .. Len(s.waitq)
      BY <1>1, <2>2, <3>2
    <3> QED BY <2>3, <3>1, <3>3
  <2>5. Woken(s) = p
    BY <1>5 DEF Woken, i
  <2>6. t = IF s.current = p
            THEN [u EXCEPT !.table[p].state = "Running", !.table[p].reason = None]
            ELSE MakeReady(u, p)
    BY <1>5 DEF WakeOne, i
  <2> HIDE DEF r, t, p
  <2>7. /\ u \in Scheds /\ u.table = s.table /\ u.ready = s.ready /\ u.current = s.current
        /\ u.sleepq = s.sleepq /\ u.waitq = r
    BY <1>1, <2>3 DEF Scheds
  <2> HIDE DEF u
  <2>8. CASE s.current = p
    <3>1. s.table \in [AllPids -> Pcbs] /\ s.table[p] \in Pcbs
      BY <1>1, <2>2, PcbFacts
    <3>2. /\ e \in Pcbs /\ e.state = "Running" /\ e.exited = s.table[p].exited
          /\ e.reaped = s.table[p].reaped /\ e.parent = s.table[p].parent
      BY <3>1, ReasonFacts DEF Pcbs, States
    <3> HIDE DEF e
    <3>3. /\ t \in Scheds /\ t.table = [s.table EXCEPT ![p] = e] /\ t.ready = s.ready
          /\ t.current = s.current /\ t.sleepq = s.sleepq /\ t.waitq = r
      <4>1. t = v
        BY <2>2, <2>6, <2>7, <2>8, <3>1 DEF Scheds, Pcbs, e
      <4> QED BY <2>7, <3>1, <3>2, <4>1 DEF Scheds
    <3>4. t.table[p] = e /\ Others(s, t, p) /\ SameLife(s, t)
      BY <2>2, <3>1, <3>2, <3>3 DEF Others, SameLife
    <3>5. Good(t)
      BY <2>2, <2>8, <3>2, <3>3, <3>4, GoodAfter
    <3>6. AllFound(s) => AllFound(t)
      <4>1. \A q \in Pids : q # p /\ State(s, q) = "Blocked" =>
                            /\ q \in ToSet(s.waitq) => q \in ToSet(t.waitq)
                            /\ q \in ToSet(s.sleepq) => q \in ToSet(t.sleepq)
        BY <2>4, <3>3
      <4>2. State(t, p) # "Blocked"
        BY <3>2, <3>4 DEF State
      <4> QED BY <1>1, <2>2, <3>3, <3>4, <4>1, <4>2, FoundAfter
    <3>7. \A q \in Pids : State(s, q) # "Blocked" => State(t, q) # "Blocked"
      BY <3>2, <3>4, SchedFacts DEF State, Others
    <3> QED BY <3>3, <3>5, <3>6, <3>7, <2>2, <2>5 DEF t
  <2>9. CASE s.current # p
    <3>1. t = MakeReady(u, p)
      BY <2>6, <2>9
    <3>2. Good(u)
      BY <2>7 DEF Good, Marked, Queued, State, Dead
    <3>3. /\ t \in Scheds /\ Others(u, t, p) /\ SameLife(u, t) /\ t.table[p].state = "Ready"
          /\ t.current = u.current /\ t.sleepq = u.sleepq /\ t.waitq = u.waitq
      BY <2>2, <2>7, <3>1, MakeReadyFields
    <3>4. Good(t)
      BY <2>2, <3>1, <3>2, MakeReadyKeeps
    <3>5. Others(s, t, p) /\ SameLife(s, t)
      BY <2>7, <3>3 DEF Others, SameLife
    <3>6. AllFound(s) => AllFound(t)
      <4>1. \A q \in Pids : q # p /\ State(s, q) = "Blocked" =>
                            /\ q \in ToSet(s.waitq) => q \in ToSet(t.waitq)
                            /\ q \in ToSet(s.sleepq) => q \in ToSet(t.sleepq)
        BY <2>4, <2>7, <3>3
      <4>2. State(t, p) # "Blocked"
        BY <3>3 DEF State
      <4> QED BY <1>1, <2>2, <3>3, <3>5, <4>1, <4>2, FoundAfter
    <3>7. \A q \in Pids : State(s, q) # "Blocked" => State(t, q) # "Blocked"
      BY <3>3, <3>5, SchedFacts DEF State, Others
    <3> QED BY <2>7, <3>3, <3>4, <3>6, <3>7, <2>2, <2>5 DEF t
  <2> QED BY <2>8, <2>9
<1> QED BY <1>4, <1>5

-----------------------------------------------------------------------------
(* schedule_internal *)

LEMMA PollSleepingKeeps ==
    ASSUME NEW s, Good(s)
    PROVE  /\ Good(PollSleeping(s))
           /\ AllFound(s) => AllFound(PollSleeping(s))
           /\ PollSleeping(s).current = s.current
<1> DEFINE due == {p \in AllPids : Due(s, p)}
           woken == Keeping(s.sleepq, due)
           rest == Keeping(s.sleepq, AllPids \ due)
           tab == [p \in AllPids |->
                     IF p \in ToSet(woken)
                     THEN [s.table[p] EXCEPT !.state = "Ready", !.reason = None]
                     ELSE s.table[p]]
           rdy == s.ready \o woken
           t == PollSleeping(s)
<1>1. s \in Scheds /\ s.table \in [AllPids -> Pcbs] /\ s.ready \in Seq(AllPids)
      /\ s.sleepq \in Seq(AllPids)
  BY SchedFacts, PcbFacts DEF Good
<1>2. woken \in Seq(AllPids) /\ ToSet(woken) = ToSet(s.sleepq) \cap due
  BY <1>1, Kept
<1>3. rest \in Seq(AllPids) /\ ToSet(rest) = ToSet(s.sleepq) \cap (AllPids \ due)
  BY <1>1, Kept
<1>4. rdy \in Seq(AllPids) /\ ToSet(rdy) = ToSet(s.ready) \cup ToSet(woken)
  <2> HIDE DEF woken
  <2> QED BY <1>1, <1>2, Joined
<1>5. t = [s EXCEPT !.sleepq = rest, !.ready = rdy, !.table = tab]
  BY DEF PollSleeping
<1> HIDE DEF woken, rest, rdy
<1>6. ASSUME NEW p \in AllPids
      PROVE  /\ tab[p] \in Pcbs
             /\ p \in ToSet(woken) => tab[p].state = "Ready" /\ tab[p].reason = None
             /\ p \notin ToSet(woken) => tab[p] = s.table[p]
             /\ tab[p].exited = s.table[p].exited /\ tab[p].reaped = s.table[p].reaped
             /\ tab[p].parent = s.table[p].parent
  <2>1. s.table[p] \in Pcbs
    BY <1>1
  <2> QED BY <2>1, ReasonFacts DEF Pcbs, States
<1>7. tab \in [AllPids -> Pcbs]
  BY <1>6
<1> HIDE DEF tab, t
<1>8. /\ t \in Scheds /\ t.table = tab /\ t.ready = rdy /\ t.current = s.current
      /\ t.sleepq = rest /\ t.waitq = s.waitq
  BY <1>1, <1>3, <1>4, <1>5, <1>7 DEF Scheds
<1>9. SameLife(s, t)
  BY <1>6, <1>8 DEF SameLife
<1>10. \A q \in Pids : Dead(t, q) <=> Dead(s, q)
  BY <1>9, SchedFacts DEF Dead, SameLife
<1>11. Marked(t)
  BY <1>6, <1>8 DEF Good, Marked, State
<1>12. Queued(t)
  <2> SUFFICES ASSUME NEW q \in Pids, ~Dead(t, q)
               PROVE  /\ State(t, q) = "Ready" => q \in ToSet(t.ready)
                      /\ State(t, q) = "Running" => t.current = q
    BY DEF Queued
  <2>1. CASE q \in ToSet(woken)
    BY <2>1, <1>4, <1>6, <1>8, SchedFacts DEF State
  <2>2. CASE q \notin ToSet(woken)
    <3>1. State(t, q) = State(s, q) /\ ~Dead(s, q)
      BY <2>2, <1>6, <1>8, <1>10, SchedFacts DEF State
    <3> QED BY <3>1, <1>4, <1>8 DEF Good, Queued
  <2> QED BY <2>1, <2>2
<1>13. ASSUME AllFound(s), NEW q \in Pids, State(t, q) = "Blocked"
       PROVE  Found(t, q)
  <2>1. q \notin ToSet(woken) /\ t.table[q] = s.table[q] /\ s.table[q].reason \in Reasons
    BY <1>1, <1>6, <1>8, <1>13, SchedFacts, PcbFacts DEF State
  <2>2. Found(s, q)
    BY <1>13, <2>1 DEF AllFound, State
  <2>3. q \in ToSet(s.sleepq) => q \in ToSet(t.sleepq)
    BY <1>2, <1>3, <1>8, <2>1, SchedFacts
  <2>4. s.table[q].reason.kind = "WaitPid" =>
           /\ s.table[q].reason.child \in Pids
           /\ s.table[s.table[q].reason.child].parent = t.table[s.table[q].reason.child].parent
    BY <2>1, <1>9, SchedFacts, ReasonFacts DEF SameLife
  <2> QED BY <1>8, <1>10, <2>1, <2>2, <2>3, <2>4 DEF Found
<1>14. AllFound(s) => AllFound(t)
  BY <1>13 DEF AllFound
<1> QED BY <1>8, <1>11, <1>12, <1>14 DEF Good, t

(* No process but the one on the CPU runs.                                  *)
NoneRuns(s) == \A p \in Pids : ~Dead(s, p) => State(s, p) # "Running"

LEMMA RequeueKeeps ==
    ASSUME NEW s, Good(s)
    PROVE  /\ Good(Requeue(s)) /\ NoneRuns(Requeue(s))
           /\ AllFound(s) => AllFound(Requeue(s))
           /\ Requeue(s).current = s.current
<1> DEFINE c == s.current
           again == c # NoPid /\ State(s, c) = "Running" /\ ~Dead(s, c)
           t == Requeue(s)
<1>1. s \in Scheds /\ c \in AllPids \cup {NoPid} /\ s.ready \in Seq(AllPids)
  BY SchedFacts, PcbFacts DEF Good
<1>2. CASE again
  <2>1. c \in AllPids /\ c # NoPid
    BY <1>1, <1>2
  <2> DEFINE u == SetState(s, c, "Ready")
             r == Append(s.ready, c)
  <2>2. /\ u \in Scheds /\ Others(s, u, c) /\ SameLife(s, u) /\ u.table[c].state = "Ready"
        /\ u.ready = s.ready /\ u.current = s.current /\ u.sleepq = s.sleepq /\ u.waitq = s.waitq
    <3>1. "Ready" \in States
      BY DEF States
    <3> HIDE DEF c
    <3> QED BY <1>1, <2>1, <3>1, SetStateFields
  <2>3. r \in Seq(AllPids) /\ ToSet(r) = ToSet(s.ready) \cup {c}
    BY <1>1, <2>1, Appended
  <2>4. t = [u EXCEPT !.ready = Append(@, c)]
    BY <1>2 DEF Requeue
  <2> HIDE DEF u
  <2>5. t = [u EXCEPT !.ready = r]
    BY <2>2, <2>4
  <2> HIDE DEF t, r
  <2>6. /\ t \in Scheds /\ t.table = u.table /\ t.ready = r /\ t.current = s.current
        /\ t.sleepq = s.sleepq /\ t.waitq = s.waitq
    BY <2>2, <2>3, <2>5 DEF Scheds
  <2>7. Others(s, t, c) /\ SameLife(s, t) /\ t.table[c].state = "Ready"
    BY <2>2, <2>6 DEF Others, SameLife
  <2> HIDE DEF c
  <2>8. Good(t)
    BY <2>1, <2>3, <2>6, <2>7, GoodAfter
  <2>9. AllFound(s) => AllFound(t)
    BY <1>1, <2>1, <2>6, <2>7, FoundAfter DEF State
  <2>10. NoneRuns(t)
    <3> SUFFICES ASSUME NEW q \in Pids, ~Dead(t, q), State(t, q) = "Running"
                 PROVE  FALSE
      BY DEF NoneRuns
    <3>1. t.current = q
      BY <2>8 DEF Good, Queued
    <3> QED BY <3>1, <2>6, <2>7 DEF State, c
  <2> QED BY <2>6, <2>8, <2>9, <2>10 DEF t
<1>3. CASE ~again
  <2>1. t = s
    BY <1>3 DEF Requeue
  <2>2. NoneRuns(s)
    <3> SUFFICES ASSUME NEW q \in Pids, ~Dead(s, q), State(s, q) = "Running"
                 PROVE  FALSE
      BY DEF NoneRuns
    <3>1. c = q
      BY DEF Good, Queued
    <3> QED BY <3>1, <1>3, SchedFacts
  <2> QED BY <2>1, <2>2
<1> QED BY <1>2, <1>3

(* The switch to p, when the ready queue keeps all that are ready but p.    *)
LEMMA SwitchToKeeps ==
    ASSUME NEW s \in Scheds, Marked(s), NEW p \in AllPids,
           \A q \in Pids : q # p /\ ~Dead(s, q) =>
              /\ State(s, q) # "Running"
              /\ State(s, q) = "Ready" => q \in ToSet(s.ready)
    PROVE  /\ Good(SwitchTo(s, p))
           /\ AllFound(s) => AllFound(SwitchTo(s, p))
           /\ SwitchTo(s, p).current = p /\ State(SwitchTo(s, p), p) = "Running"
<1> DEFINE t == SwitchTo(s, p)
<1>1. /\ t \in Scheds /\ Others(s, t, p) /\ SameLife(s, t)
      /\ t.table[p].state = "Running" /\ t.ready = s.ready /\ t.current = p
      /\ t.sleepq = s.sleepq /\ t.waitq = s.waitq
  BY SwitchToFields
<1> HIDE DEF t
<1>2. Marked(t)
  BY <1>1 DEF Marked, State, Others, SameLife
<1>3. \A q \in Pids : Dead(t, q) <=> Dead(s, q)
  BY <1>1, SchedFacts DEF Dead, SameLife
<1>4. Queued(t)
  <2> SUFFICES ASSUME NEW q \in Pids, ~Dead(t, q)
               PROVE  /\ State(t, q) = "Ready" => q \in ToSet(t.ready)
                      /\ State(t, q) = "Running" => t.current = q
    BY DEF Queued
  <2>1. CASE q = p
    BY <1>1, <2>1 DEF State
  <2>2. CASE q # p
    <3>1. State(t, q) = State(s, q) /\ ~Dead(s, q)
      BY <1>1, <1>3, <2>2, SchedFacts DEF State, Others
    <3> QED BY <3>1, <1>1, <2>2
  <2> QED BY <2>1, <2>2
<1>5. AllFound(s) => AllFound(t)
  BY <1>1, FoundAfter DEF State
<1> QED BY <1>1, <1>2, <1>4, <1>5 DEF Good, t, State

LEMMA PickNextKeeps ==
    ASSUME NEW s, Good(s), NoneRuns(s), NEW hint \in Pids \cup {NoPid}
    PROVE  LET t == PickNext(s, hint)
           IN  /\ Good(t) /\ (AllFound(s) => AllFound(t)) /\ t.current \in AllPids
               /\ t.current \in Pids => State(t, t.current) = "Running"
<1> DEFINE found == {i \in DOMAIN s.ready : Runnable(s, s.ready[i])}
           t == PickNext(s, hint)
<1>1. s \in Scheds /\ Marked(s) /\ s.ready \in Seq(AllPids) /\ DOMAIN s.ready = 1 .. Len(s.ready)
      /\ Len(s.ready) \in Nat
  <2>1. s \in Scheds /\ Marked(s) /\ s.ready \in Seq(AllPids)
    BY SchedFacts, PcbFacts DEF Good
  <2> QED BY <2>1
<1>2. \A q \in Pids : ~Dead(s, q) => /\ State(s, q) # "Running"
                                     /\ State(s, q) = "Ready" => q \in ToSet(s.ready)
  BY DEF Good, Queued, NoneRuns
<1>3. CASE HintTaken(s, hint)
  <2>1. t = SwitchTo(s, hint) /\ hint \in AllPids
    BY <1>3, SchedFacts DEF PickNext, HintTaken
  <2> QED BY <1>1, <1>2, <2>1, SwitchToKeeps
<1>4. CASE ~HintTaken(s, hint) /\ found # {}
  <2> DEFINE k == Min(found)
             p == s.ready[k]
             r == SubSeq(s.ready, k + 1, Len(s.ready))
             u == [s EXCEPT !.ready = r]
  <2>1. k \in found /\ \A j \in found : k <= j
    <3>1. found \in SUBSET Nat
      BY <1>1
    <3>2. \E m \in found : \A j \in found : m <= j
      <4> HIDE DEF found
      <4> QED BY <1>4, <3>1, MinExists
    <3> QED BY <3>2, Zenon DEF Min
  <2>2. t = SwitchTo(u, p)
    BY <1>4 DEF PickNext
  <2> HIDE DEF k
  <2>3. k \in 1 .. Len(s.ready) /\ k \in Nat /\ p \in AllPids
    BY <1>1, <2>1
  <2>4. r \in Seq(AllPids) /\ ToSet(r) = {s.ready[j] : j \in k + 1 .. Len(s.ready)}
    BY <1>1, <2>3, SuffixTaken
  <2>5. ASSUME NEW q \in Pids, q # p, ~Dead(s, q), State(s, q) = "Ready"
        PROVE  q \in ToSet(r)
    <3>1. PICK j \in 1 .. Len(s.ready) : s.ready[j] = q
      BY <1>1, <1>2, <2>5, Elements
    <3>2. j \in found
      BY <1>1, <2>5, <3>1 DEF Runnable
    <3>3. j # k /\ k <= j
      BY <2>1, <2>5, <3>1, <3>2
    <3>4. j \in k + 1 .. Len(s.ready)
      BY <1>1, <2>3, <3>3
    <3> QED BY <2>4, <3>1, <3>4
  <2> HIDE DEF r, p, found, t
  <2>6. /\ u \in Scheds /\ u.table = s.table /\ u.ready = r /\ u.current = s.current
        /\ u.sleepq = s.sleepq /\ u.waitq = s.waitq
    BY <1>1, <2>4 DEF Scheds
  <2> HIDE DEF u
  <2>7. Marked(u) /\ (AllFound(s) => AllFound(u))
    BY <1>1, <2>6 DEF Marked, AllFound, Found, State, Dead
  <2>8. \A q \in Pids : q # p /\ ~Dead(u, q) =>
              /\ State(u, q) # "Running"
              /\ State(u, q) = "Ready" => q \in ToSet(u.ready)
    BY <1>2, <2>5, <2>6 DEF State, Dead
  <2>9. /\ Good(t) /\ (AllFound(u) => AllFound(t)) /\ t.current = p /\ State(t, p) = "Running"
    BY <2>2, <2>3, <2>6, <2>7, <2>8, SwitchToKeeps
  <2> QED BY <2>3, <2>7, <2>9 DEF t
<1>5. CASE ~HintTaken(s, hint) /\ found = {}
  <2> DEFINE u == [s EXCEPT !.ready = << >>]
  <2>1. t = IF s.current = Idle THEN u ELSE SwitchTo(u, Idle)
    BY <1>5 DEF PickNext
  <2>2. ASSUME NEW q \in Pids, ~Dead(s, q)
        PROVE  State(s, q) # "Running" /\ State(s, q) # "Ready"
    <3>1. ASSUME State(s, q) = "Ready" PROVE FALSE
      <4>1. PICK j \in 1 .. Len(s.ready) : s.ready[j] = q
        BY <1>1, <1>2, <2>2, <3>1, Elements
      <4>2. j \in found
        BY <1>1, <2>2, <3>1, <4>1 DEF Runnable
      <4> QED BY <1>5, <4>2
    <3> QED BY <1>2, <2>2, <3>1
  <2> HIDE DEF found, t
  <2>3. /\ u \in Scheds /\ u.table = s.table /\ u.current = s.current
        /\ u.sleepq = s.sleepq /\ u.waitq = s.waitq
    <3>0. << >> \in Seq(AllPids)
      OBVIOUS
    <3>1. PICK e \in Seq(AllPids) : e = << >>
      BY <3>0, Zenon
    <3>2. u = [s EXCEPT !.ready = e]
      BY <3>1
    <3> HIDE DEF u
    <3> QED BY <1>1, <3>2 DEF Scheds
  <2> HIDE DEF u
  <2>4. Marked(u) /\ (AllFound(s) => AllFound(u))
    BY <1>1, <2>3 DEF Marked, AllFound, Found, State, Dead
  <2>5. \A q \in Pids : ~Dead(u, q) => State(u, q) # "Running" /\ State(u, q) # "Ready"
    BY <2>2, <2>3 DEF State, Dead
  <2>6. CASE s.current = Idle
    <3>1. t = u /\ Good(u)
      BY <2>1, <2>3, <2>4, <2>5, <2>6 DEF Good, Queued
    <3> QED BY <2>3, <2>4, <2>6, <3>1, SchedFacts DEF t
  <2>7. CASE s.current # Idle
    <3>1. t = SwitchTo(u, Idle) /\ Idle \in AllPids
      BY <2>1, <2>7, SchedFacts
    <3>2. /\ Good(t) /\ (AllFound(u) => AllFound(t)) /\ t.current = Idle
      BY <2>3, <2>4, <2>5, <3>1, SwitchToKeeps
    <3> QED BY <2>4, <3>1, <3>2, SchedFacts DEF t
  <2> QED BY <2>6, <2>7
<1> QED BY <1>3, <1>4, <1>5

(* One tick passes for the sleepers.                                        *)
LEMMA AgedKeeps ==
    ASSUME NEW s, Good(s)
    PROVE  /\ Good(Aged(s)) /\ (AllFound(s) => AllFound(Aged(s)))
           /\ Aged(s).current = s.current
           /\ \A p \in AllPids : State(Aged(s), p) = State(s, p)
<1> DEFINE tab == [p \in AllPids |->
                     IF s.table[p].reason.kind = "Sleep" /\ s.table[p].reason.left > 0
                     THEN [s.table[p] EXCEPT !.reason = Sleep(s.table[p].reason.left - 1)]
                     ELSE s.table[p]]
           t == Aged(s)
<1>1. s \in Scheds
  BY DEF Good
<1>2. t = [s EXCEPT !.table = tab]
  BY Zenon DEF Aged
<1>3. ASSUME NEW p \in AllPids
      PROVE  /\ tab[p] \in Pcbs /\ tab[p].state = s.table[p].state
             /\ tab[p].reason.kind = s.table[p].reason.kind
             /\ tab[p].reason.kind # "Sleep" => tab[p].reason = s.table[p].reason
             /\ tab[p].exited = s.table[p].exited /\ tab[p].reaped = s.table[p].reaped
             /\ tab[p].parent = s.table[p].parent
  <2>1. s.table[p] \in Pcbs /\ s.table[p].reason \in Reasons
    BY <1>1, PcbFacts
  <2>2. CASE s.table[p].reason.kind = "Sleep" /\ s.table[p].reason.left > 0
    <3>1. s.table[p].reason.left - 1 \in Nat
      BY <2>1, <2>2, ReasonFacts
    <3>2. PICK r \in Reasons : r = Sleep(s.table[p].reason.left - 1) /\ r.kind = "Sleep"
      BY <3>1, ReasonFacts
    <3>3. tab[p] = [s.table[p] EXCEPT !.reason = r]
      BY <2>2, <3>2
    <3> HIDE DEF tab
    <3> QED BY <2>1, <2>2, <3>2, <3>3 DEF Pcbs
  <2>3. CASE ~(s.table[p].reason.kind = "Sleep" /\ s.table[p].reason.left > 0)
    <3>1. tab[p] = s.table[p]
      BY <2>3
    <3> HIDE DEF tab
    <3> QED BY <2>1, <3>1
  <2> QED BY <2>2, <2>3
<1>4. tab \in [AllPids -> Pcbs]
  BY <1>3
<1> HIDE DEF tab, t
<1>5. /\ t \in Scheds /\ t.table = tab /\ t.ready = s.ready /\ t.current = s.current
      /\ t.sleepq = s.sleepq /\ t.waitq = s.waitq
  BY <1>1, <1>2, <1>4 DEF Scheds
<1>6. Marked(t)
  BY <1>3, <1>5 DEF Good, Marked, State
<1>7. \A q \in AllPids : (Dead(t, q) <=> Dead(s, q)) /\ State(t, q) = State(s, q)
  BY <1>3, <1>5 DEF Dead, State
<1>8. Queued(t)
  BY <1>5, <1>7, SchedFacts DEF Good, Queued
<1>9. ASSUME AllFound(s), NEW q \in Pids, State(t, q) = "Blocked"
      PROVE  Found(t, q)
  <2>1. q \in AllPids /\ s.table[q].reason \in Reasons /\ Found(s, q)
    BY <1>1, <1>7, <1>9, SchedFacts, PcbFacts DEF AllFound
  <2>2. /\ t.table[q].reason.kind = s.table[q].reason.kind
        /\ t.table[q].reason.kind # "Sleep" => t.table[q].reason = s.table[q].reason
    BY <1>3, <1>5, <2>1
  <2>3. s.table[q].reason.kind = "WaitPid" =>
           /\ s.table[q].reason.child \in AllPids
           /\ s.table[s.table[q].reason.child].parent = t.table[s.table[q].reason.child].parent
    BY <2>1, <1>3, <1>5, SchedFacts, ReasonFacts
  <2> QED BY <1>5, <1>7, <2>1, <2>2, <2>3 DEF Found
<1> QED BY <1>5, <1>6, <1>7, <1>8, <1>9 DEF Good, AllFound, t

(* The steps of schedule_internal together.                                 *)
LEMMA Rescheduled ==
    ASSUME NEW s, Good(s), NEW hint \in Pids \cup {NoPid}
    PROVE  LET u == Requeue(PollSleeping(s))
               t == PickNext(u, hint)
           IN  /\ Good(t) /\ (AllFound(s) => AllFound(t)) /\ t.current \in AllPids
               /\ t.current \in Pids => State(t, t.current) = "Running"
               /\ u.current = s.current
<1>1. PICK a : a = PollSleeping(s)
  BY Zenon
<1>2. Good(a) /\ (AllFound(s) => AllFound(a)) /\ a.current = s.current
  BY <1>1, PollSleepingKeeps
<1>3. PICK u : u = Requeue(a)
  BY Zenon
<1>4. Good(u) /\ NoneRuns(u) /\ (AllFound(a) => AllFound(u)) /\ u.current = a.current
  BY <1>2, <1>3, RequeueKeeps
<1>5. PICK t : t = PickNext(u, hint)
  BY Zenon
<1>6. /\ Good(t) /\ (AllFound(u) => AllFound(t)) /\ t.current \in AllPids
      /\ t.current \in Pids => State(t, t.current) = "Running"
  BY <1>4, <1>5, PickNextKeeps
<1>7. t = PickNext(Requeue(PollSleeping(s)), hint) /\ u = Requeue(PollSleeping(s))
  BY <1>1, <1>3, <1>5, Zenon
<1> QED BY <1>2, <1>4, <1>6, <1>7

-----------------------------------------------------------------------------
(* The specification *)

(* Where the processes are, and the record in order.                        *)
Sound1 ==
    /\ Good(sched)
    /\ pc \in [AllPids -> Points] /\ ctx \in [AllPids -> Points]
    /\ ticksLeft \in 1 .. QuantumTicks

(* A process that is blocked while it is on the CPU is on its way to        *)
(* schedule(): it is not past it.                                           *)
BlockedIsPrepared ==
    \A p \in Pids : sched.current = p /\ State(sched, p) = "Blocked" => pc[p].at = "prepared"

Sound2 == AllFound(sched) /\ BlockedIsPrepared

LEMMA PointFacts ==
    /\ Run \in Points /\ Run.at = "run" /\ Teardown \in Points /\ Teardown.at = "teardown"
    /\ \A w \in Reasons : /\ Prepared(w) \in Points /\ Prepared(w).at = "prepared"
                          /\ Resumed(w) \in Points /\ Resumed(w).at = "resumed"
    /\ \A t \in Pids : Yielding(t) \in Points /\ Yielding(t).at = "yield"
    /\ \A x \in Points : /\ x.at = "prepared" => x.why \in Reasons
                         /\ x.at = "yield" => x.to \in Pids
<1>1. Run \in Points /\ Run.at = "run" /\ Teardown \in Points /\ Teardown.at = "teardown"
  BY DEF Run, Teardown, Points
<1>2. ASSUME NEW w \in Reasons
      PROVE  /\ Prepared(w) \in Points /\ Prepared(w).at = "prepared"
             /\ Resumed(w) \in Points /\ Resumed(w).at = "resumed"
  BY DEF Prepared, Resumed, Points
<1>3. \A t \in Pids : Yielding(t) \in Points /\ Yielding(t).at = "yield"
  BY DEF Yielding, Points
<1>4. \A x \in Points : /\ x.at = "prepared" => x.why \in Reasons
                        /\ x.at = "yield" => x.to \in Pids
  BY DEF Points
<1> QED BY <1>1, <1>2, <1>3, <1>4

LEMMA ScheduleInternalKeeps ==
    ASSUME NEW s, Good(s), NEW hint \in Pids \cup {NoPid}, NEW pn \in [AllPids -> Points],
           ctx \in [AllPids -> Points], ScheduleInternal(s, hint, pn)
    PROVE  Sound1' /\ (AllFound(s) => Sound2')
<1>1. PICK u : u = Requeue(PollSleeping(s))
  BY Zenon
<1>2. PICK t : t = PickNext(u, hint)
  BY Zenon
<1>3. /\ Good(t) /\ (AllFound(s) => AllFound(t)) /\ t.current \in AllPids
      /\ t.current \in Pids => State(t, t.current) = "Running"
      /\ u.current = s.current
  BY <1>1, <1>2, Rescheduled
<1>4. /\ sched' = t /\ ticksLeft' = QuantumTicks
      /\ pc' = pn \/ pc' = [pn EXCEPT ![t.current] = ctx[t.current]]
      /\ \/ ctx' = ctx
         \/ ctx' = [ctx EXCEPT ![u.current] = pn[u.current]] /\ u.current # NoPid
  BY <1>1, <1>2, Zenon DEF ScheduleInternal
<1>5. u.current \in AllPids \cup {NoPid}
  BY <1>3 DEF Good, Scheds
<1>6. pc' \in [AllPids -> Points]
  BY <1>3, <1>4
<1>7. ctx' \in [AllPids -> Points]
  BY <1>4, <1>5
<1>8. ticksLeft' \in 1 .. QuantumTicks
  BY <1>4, SchedFacts
<1>9. Sound1'
  BY <1>3, <1>4, <1>6, <1>7, <1>8 DEF Sound1
<1>10. AllFound(s) => Sound2'
  BY <1>3, <1>4 DEF Sound2, BlockedIsPrepared
<1> QED BY <1>9, <1>10

-----------------------------------------------------------------------------
(* The steps of the processes *)

(* A step of the current process that leaves the contexts and the quantum   *)
(* alone, by what it makes of the record and of its own place.              *)
LEMMA StepKeeps ==
    ASSUME Sound1, NEW s, Good(s), sched' = s, pc' \in [AllPids -> Points],
           ctx' = ctx, ticksLeft' = ticksLeft
    PROVE  Sound1'
BY DEF Sound1

LEMMA RunsInOrder ==
    ASSUME Sound1, NEW p \in Pids, Executing(p), pc[p].at # "prepared"
    PROVE  /\ Good(sched) /\ sched.current = p /\ p \in AllPids /\ sched \in Scheds
           /\ pc \in [AllPids -> Points]
           /\ Sound2 => AllFound(sched) /\ State(sched, p) # "Blocked"
BY SchedFacts DEF Sound1, Sound2, BlockedIsPrepared, Executing, Good

LEMMA OwnCode ==
    ASSUME NEW p \in Pids, InOwnCode(p)
    PROVE  Executing(p) /\ pc[p] = Run /\ pc[p].at # "prepared"
BY PointFacts DEF InOwnCode

LEMMA CreateKeeps ==
    ASSUME Sound1, NEW p \in Pids, NEW c \in Pids, Create(p, c)
    PROVE  Sound1' /\ (Sound2 => Sound2')
<1>1. InOwnCode(p) /\ State(sched, c) = "Unused"
      /\ sched' = MakeReady([sched EXCEPT !.table[c].parent = p], c)
      /\ UNCHANGED <<ticksLeft, pc, ctx>>
  BY DEF Create
<1>2. /\ Good(sched) /\ sched.current = p /\ p \in AllPids /\ c \in AllPids
      /\ Sound2 => AllFound(sched) /\ State(sched, p) # "Blocked"
  BY <1>1, OwnCode, RunsInOrder, SchedFacts
<1>3. PICK s : s = sched
  OBVIOUS
<1> DEFINE e == [s.table[c] EXCEPT !.parent = p]
           u == [s EXCEPT !.table = [s.table EXCEPT ![c] = e]]
           t == MakeReady(u, c)
<1>4. s \in Scheds /\ Good(s) /\ s.table \in [AllPids -> Pcbs] /\ s.table[c] \in Pcbs
  BY <1>2, <1>3, PcbFacts DEF Good
<1>5. /\ e \in Pcbs /\ e.state = s.table[c].state /\ e.reason = s.table[c].reason
      /\ e.exited = s.table[c].exited /\ e.reaped = s.table[c].reaped
  BY <1>4 DEF Pcbs
<1>6. sched' = t
  BY <1>1, <1>3
<1> HIDE DEF e
<1>7. /\ u \in Scheds /\ u.table = [s.table EXCEPT ![c] = e] /\ u.ready = s.ready
      /\ u.current = s.current /\ u.sleepq = s.sleepq /\ u.waitq = s.waitq
  BY <1>4, <1>5 DEF Scheds
<1>8. u.table[c] = e /\ Others(s, u, c)
  BY <1>2, <1>4, <1>7 DEF Others
<1> HIDE DEF u
<1>9. /\ t \in Scheds /\ Others(u, t, c) /\ SameLife(u, t)
      /\ t.table[c].state = "Ready" /\ t.table[c].reason = None
      /\ ToSet(t.ready) = ToSet(u.ready) \cup {c}
      /\ t.current = u.current /\ t.sleepq = u.sleepq /\ t.waitq = u.waitq
  BY <1>2, <1>7, MakeReadyFields
<1> HIDE DEF t
<1>10. \A q \in AllPids : /\ q # c => t.table[q] = s.table[q]
                          /\ Dead(t, q) <=> Dead(s, q)
  BY <1>2, <1>5, <1>8, <1>9 DEF Others, SameLife, Dead
<1>11. Marked(t)
  BY <1>4, <1>9, <1>10 DEF Good, Marked, State
<1>12. Queued(t)
  BY <1>2, <1>3, <1>4, <1>7, <1>9, <1>10, SchedFacts DEF Good, Queued, State
<1>13. Good(t) /\ t.current = p
  BY <1>2, <1>3, <1>7, <1>9, <1>11, <1>12 DEF Good
<1>14. Sound1'
  BY <1>1, <1>6, <1>13, StepKeeps DEF Sound1
<1>15. ASSUME Sound2
       PROVE  Sound2'
  <2>1. State(s, c) = "Unused" /\ s.table[c].parent = NoPid /\ AllFound(s)
    BY <1>1, <1>2, <1>3, <1>4, <1>15 DEF Good, Marked
  <2>2. ASSUME NEW q \in Pids, State(t, q) = "Blocked"
        PROVE  Found(t, q)
    <3>1. q # c /\ t.table[q] = s.table[q] /\ s.table[q].reason \in Reasons
      BY <1>4, <1>9, <1>10, <2>2, SchedFacts, PcbFacts DEF State
    <3>2. Found(s, q)
      BY <2>1, <2>2, <3>1 DEF AllFound, State
    <3>3. s.table[q].reason.kind = "WaitPid" =>
             /\ s.table[q].reason.child \in AllPids
             /\ s.table[q].reason.child # c
      BY <2>1, <3>1, <3>2, SchedFacts, ReasonFacts DEF Found
    <3> QED BY <1>7, <1>9, <1>10, <3>1, <3>2, <3>3 DEF Found
  <2>3. AllFound(t)
    BY <2>2 DEF AllFound
  <2>4. State(t, p) # "Blocked"
    BY <1>2, <1>3, <1>9, <1>10, <1>15 DEF State
  <2> QED BY <1>6, <1>13, <2>3, <2>4 DEF Sound2, BlockedIsPrepared
<1> QED BY <1>14, <1>15

LEMMA BlockOnKeeps ==
    ASSUME Sound1, NEW p \in Pids, BlockOn(p)
    PROVE  Sound1' /\ (Sound2 => Sound2')
<1>1. /\ InOwnCode(p)
      /\ sched' = [Blocked(sched, p, Generic) EXCEPT !.waitq = Append(@, p)]
      /\ pc' = [pc EXCEPT ![p] = Prepared(Generic)] /\ UNCHANGED <<ticksLeft, ctx>>
  BY DEF BlockOn
<1>2. /\ Good(sched) /\ sched.current = p /\ p \in AllPids /\ pc \in [AllPids -> Points]
      /\ Sound2 => AllFound(sched)
  BY <1>1, OwnCode, RunsInOrder
<1>3. PICK s : s = sched
  OBVIOUS
<1> DEFINE u == Blocked(s, p, Generic)
           r == Append(s.waitq, p)
           t == [u EXCEPT !.waitq = r]
<1>4. s \in Scheds /\ Good(s) /\ s.waitq \in Seq(Pids)
  BY <1>2, <1>3, PcbFacts DEF Good
<1>5. /\ u \in Scheds /\ Others(s, u, p) /\ SameLife(s, u)
      /\ u.table[p].state = "Blocked" /\ u.table[p].reason = Generic
      /\ u.ready = s.ready /\ u.current = s.current /\ u.sleepq = s.sleepq /\ u.waitq = s.waitq
  BY <1>2, <1>4, BlockedFields, ReasonFacts
<1> HIDE DEF u
<1>6. r \in Seq(Pids) /\ ToSet(r) = ToSet(s.waitq) \cup {p}
  BY <1>4, Appended
<1>7. sched' = t
  BY <1>1, <1>3, <1>5 DEF u
<1> HIDE DEF r
<1>8. /\ t \in Scheds /\ t.table = u.table /\ t.ready = s.ready /\ t.current = s.current
      /\ t.sleepq = s.sleepq /\ t.waitq = r
  BY <1>5, <1>6 DEF Scheds
<1> HIDE DEF t
<1>9. Others(s, t, p) /\ SameLife(s, t) /\ t.table[p].state = "Blocked" /\ t.table[p].reason = Generic
  BY <1>5, <1>8 DEF Others, SameLife
<1>10. Good(t)
  BY <1>2, <1>4, <1>8, <1>9, GoodAfter
<1>11. pc' \in [AllPids -> Points] /\ pc'[p].at = "prepared"
  BY <1>1, <1>2, PointFacts, ReasonFacts
<1>12. Sound1'
  BY <1>1, <1>7, <1>10, <1>11, StepKeeps
<1>13. ASSUME Sound2
       PROVE  Sound2'
  <2>1. Found(t, p)
    BY <1>6, <1>8, <1>9, ReasonFacts DEF Found
  <2>2. AllFound(t)
    BY <1>2, <1>3, <1>4, <1>6, <1>8, <1>9, <1>13, <2>1, FoundAfter
  <2> QED BY <1>2, <1>3, <1>7, <1>8, <1>11, <2>2 DEF Sound2, BlockedIsPrepared
<1> QED BY <1>12, <1>13

LEMMA SleepMsKeeps ==
    ASSUME Sound1, NEW p \in Pids, NEW n \in Nat, SleepMs(p, n)
    PROVE  Sound1' /\ (Sound2 => Sound2')
<1>1. /\ InOwnCode(p)
      /\ sched' = [Blocked(sched, p, Sleep(n)) EXCEPT !.sleepq = Append(@, p)]
      /\ pc' = [pc EXCEPT ![p] = Prepared(Sleep(0))] /\ UNCHANGED <<ticksLeft, ctx>>
  BY DEF SleepMs
<1>2. /\ Good(sched) /\ sched.current = p /\ p \in AllPids /\ pc \in [AllPids -> Points]
      /\ Sound2 => AllFound(sched)
  BY <1>1, OwnCode, RunsInOrder
<1>3. PICK s : s = sched
  OBVIOUS
<1> DEFINE u == Blocked(s, p, Sleep(n))
           r == Append(s.sleepq, p)
           t == [u EXCEPT !.sleepq = r]
<1>4. s \in Scheds /\ Good(s) /\ s.sleepq \in Seq(AllPids)
  BY <1>2, <1>3, PcbFacts DEF Good
<1>5. /\ u \in Scheds /\ Others(s, u, p) /\ SameLife(s, u)
      /\ u.table[p].state = "Blocked" /\ u.table[p].reason = Sleep(n)
      /\ u.ready = s.ready /\ u.current = s.current /\ u.sleepq = s.sleepq /\ u.waitq = s.waitq
  BY <1>2, <1>4, BlockedFields, ReasonFacts
<1> HIDE DEF u
<1>6. r \in Seq(AllPids) /\ ToSet(r) = ToSet(s.sleepq) \cup {p}
  BY <1>2, <1>4, Appended
<1>7. sched' = t
  BY <1>1, <1>3, <1>5 DEF u
<1> HIDE DEF r
<1>8. /\ t \in Scheds /\ t.table = u.table /\ t.ready = s.ready /\ t.current = s.current
      /\ t.sleepq = r /\ t.waitq = s.waitq
  BY <1>5, <1>6 DEF Scheds
<1> HIDE DEF t
<1>9. /\ Others(s, t, p) /\ SameLife(s, t) /\ t.table[p].state = "Blocked"
      /\ t.table[p].reason = Sleep(n)
  BY <1>5, <1>8 DEF Others, SameLife
<1>10. Good(t)
  BY <1>2, <1>4, <1>8, <1>9, GoodAfter
<1>11. pc' \in [AllPids -> Points] /\ pc'[p].at = "prepared"
  <2>1. Sleep(0) \in Reasons
    BY ReasonFacts
  <2>2. Prepared(Sleep(0)) \in Points /\ Prepared(Sleep(0)).at = "prepared"
    BY <2>1, PointFacts
  <2> QED BY <1>1, <1>2, <2>2
<1>12. Sound1'
  BY <1>1, <1>7, <1>10, <1>11, StepKeeps
<1>13. ASSUME Sound2
       PROVE  Sound2'
  <2>1. Found(t, p)
    <3>1. Sleep(n).kind = "Sleep"
      BY ReasonFacts
    <3> QED BY <1>6, <1>8, <1>9, <3>1 DEF Found
  <2>2. AllFound(t)
    BY <1>2, <1>3, <1>4, <1>6, <1>8, <1>9, <1>13, <2>1, FoundAfter
  <2> QED BY <1>2, <1>3, <1>7, <1>8, <1>11, <2>2 DEF Sound2, BlockedIsPrepared
<1> QED BY <1>12, <1>13

(* A step that ends process c, or reaps it, and changes nothing else.       *)
LEMMA EndKeeps ==
    ASSUME NEW s, Good(s), NEW t \in Scheds, NEW c \in Pids, Others(s, t, c), Dead(t, c),
           t.current = s.current, t.ready = s.ready, t.sleepq = s.sleepq, t.waitq = s.waitq,
           t.table[c].parent = s.table[c].parent, t.table[c].reason = s.table[c].reason,
           State(t, c) = "Reaped" => t.table[c].reaped,
           State(t, c) = "Terminated" => t.table[c].exited,
           State(t, c) = "Unused" => State(s, c) = "Unused"
    PROVE  /\ Good(t)
           /\ AllFound(s) /\ Dead(s, c) /\ (State(t, c) = "Blocked" => State(s, c) = "Blocked")
              => AllFound(t)
           /\ AllFound(s) /\ State(t, c) # "Blocked" => FoundBut(t, c)
<1>1. s \in Scheds /\ c \in AllPids
  BY SchedFacts DEF Good
<1>2. \A q \in AllPids : q # c => t.table[q] = s.table[q] /\ (Dead(t, q) <=> Dead(s, q))
  BY DEF Others, Dead
<1>3. Marked(t)
  BY <1>1, <1>2 DEF Good, Marked, State
<1>4. Queued(t)
  BY <1>2, SchedFacts DEF Good, Queued, State
<1>5. \A q \in AllPids : t.table[q].parent = s.table[q].parent /\ t.table[q].reason = s.table[q].reason
  BY <1>2
<1>6. ASSUME NEW q \in Pids, Found(s, q)
      PROVE  Found(t, q) \/ (~Dead(s, c) /\ Waits(t, q, c))
  <2>1. s.table[q].reason \in Reasons /\ t.table[q].reason = s.table[q].reason
    BY <1>1, <1>5, SchedFacts, PcbFacts
  <2>2. CASE s.table[q].reason.kind = "WaitPid"
    <3>1. PICK d \in AllPids : d = s.table[q].reason.child
      BY <2>1, <2>2, SchedFacts, ReasonFacts
    <3>2. ~Dead(s, d) /\ s.table[d].parent = q
      BY <1>6, <2>2, <3>1 DEF Found
    <3>3. CASE d = c
      BY <1>5, <2>1, <2>2, <3>1, <3>2, <3>3 DEF Waits
    <3>4. CASE d # c
      BY <1>2, <1>5, <2>1, <2>2, <3>1, <3>2, <3>4 DEF Found
    <3> QED BY <3>3, <3>4
  <2>3. CASE s.table[q].reason.kind # "WaitPid"
    BY <1>6, <2>1, <2>3 DEF Found
  <2> QED BY <2>2, <2>3
<1>7. AllFound(s) /\ Dead(s, c) /\ (State(t, c) = "Blocked" => State(s, c) = "Blocked") => AllFound(t)
  BY <1>2, <1>6, SchedFacts DEF AllFound, State
<1>8. AllFound(s) /\ State(t, c) # "Blocked" => FoundBut(t, c)
  BY <1>2, <1>6, SchedFacts DEF AllFound, FoundBut, State
<1> QED BY <1>3, <1>4, <1>7, <1>8 DEF Good

LEMMA WaitTurnKeeps ==
    ASSUME Sound1, NEW p \in Pids, NEW c \in Pids, WaitTurn(p, c)
    PROVE  Sound1' /\ (Sound2 => Sound2')
<1>1. /\ Executing(p) /\ pc[p] \in {Run, Resumed(WaitPid(c))} /\ c # p
      /\ State(sched, c) # "Unused" /\ sched.table[c].parent \in {p, NoPid}
      /\ UNCHANGED <<ticksLeft, ctx>>
  BY DEF WaitTurn
<1>2. pc[p].at # "prepared"
  <2>1. Resumed(WaitPid(c)).at = "resumed" /\ Run.at = "run"
    BY ReasonFacts, PointFacts
  <2> QED BY <1>1, <2>1
<1>3. /\ Good(sched) /\ sched.current = p /\ p \in AllPids /\ pc \in [AllPids -> Points]
      /\ Sound2 => AllFound(sched) /\ State(sched, p) # "Blocked"
  BY <1>1, <1>2, RunsInOrder
<1>4. PICK s : s = sched
  OBVIOUS
<1>5. s \in Scheds /\ Good(s) /\ s.table \in [AllPids -> Pcbs] /\ s.table[c] \in Pcbs /\ c \in AllPids
      /\ s.current = p
  BY <1>3, <1>4, SchedFacts, PcbFacts DEF Good
<1>6. CASE s.table[c].reaped /\ sched' = sched /\ pc' = [pc EXCEPT ![p] = Run]
  <2>1. pc' \in [AllPids -> Points]
    BY <1>3, <1>6, PointFacts
  <2>2. Sound1'
    BY <1>1, <1>4, <1>5, <1>6, <2>1, StepKeeps
  <2>3. Sound2 => Sound2'
    BY <1>3, <1>6 DEF Sound2, BlockedIsPrepared
  <2> QED BY <2>2, <2>3
<1>7. CASE /\ ~s.table[c].reaped /\ s.table[c].exited
           /\ sched' = [s EXCEPT !.table[c].state = "Reaped", !.table[c].reaped = TRUE]
           /\ pc' = [pc EXCEPT ![p] = Run]
  <2> DEFINE e == [s.table[c] EXCEPT !.state = "Reaped", !.reaped = TRUE]
             t == [s EXCEPT !.table = [s.table EXCEPT ![c] = e]]
  <2>1. e \in Pcbs /\ e.state = "Reaped" /\ e.reaped = TRUE /\ e.reason = s.table[c].reason
        /\ e.parent = s.table[c].parent
    BY <1>5 DEF Pcbs, States
  <2>2. sched' = t
    BY <1>5, <1>7 DEF Scheds, Pcbs
  <2> HIDE DEF e
  <2>3. /\ t \in Scheds /\ t.table = [s.table EXCEPT ![c] = e] /\ t.ready = s.ready
        /\ t.current = s.current /\ t.sleepq = s.sleepq /\ t.waitq = s.waitq
    BY <1>5, <2>1 DEF Scheds
  <2> HIDE DEF t
  <2>4. t.table[c] = e /\ Others(s, t, c)
    BY <1>5, <2>3 DEF Others
  <2>5. Dead(t, c) /\ State(t, c) = "Reaped" /\ t.table[c].reaped
    BY <2>1, <2>4 DEF Dead, State
  <2>6. Dead(s, c)
    BY <1>7 DEF Dead
  <2>7. Good(t) /\ (AllFound(s) => AllFound(t))
    BY <1>5, <2>1, <2>3, <2>4, <2>5, <2>6, EndKeeps
  <2>8. pc' \in [AllPids -> Points]
    BY <1>3, <1>7, PointFacts
  <2>9. Sound1'
    BY <1>1, <2>2, <2>7, <2>8, StepKeeps
  <2>10. Sound2 => State(t, p) # "Blocked"
    BY <1>1, <1>3, <1>4, <2>4 DEF State, Others
  <2>11. Sound2 => Sound2'
    BY <1>3, <1>4, <2>2, <2>3, <2>7, <2>10 DEF Sound2, BlockedIsPrepared
  <2> QED BY <2>9, <2>11
<1>8. CASE /\ ~Dead(s, c)
           /\ sched' = [Blocked(s, p, WaitPid(c)) EXCEPT !.table[c].parent = p]
           /\ pc' = [pc EXCEPT ![p] = Prepared(WaitPid(c))]
  <2> DEFINE u == Blocked(s, p, WaitPid(c))
             e == [u.table[c] EXCEPT !.parent = p]
             t == [u EXCEPT !.table = [u.table EXCEPT ![c] = e]]
  <2>0. WaitPid(c) \in Reasons /\ WaitPid(c).kind = "WaitPid" /\ WaitPid(c).child = c
    BY ReasonFacts
  <2>1. /\ u \in Scheds /\ Others(s, u, p) /\ SameLife(s, u)
        /\ u.table[p].state = "Blocked" /\ u.table[p].reason = WaitPid(c)
        /\ u.ready = s.ready /\ u.current = s.current /\ u.sleepq = s.sleepq /\ u.waitq = s.waitq
    BY <1>3, <1>5, <2>0, BlockedFields
  <2>2. sched' = t
    BY <1>8
  <2> HIDE DEF u
  <2>3. u.table \in [AllPids -> Pcbs] /\ u.table[c] \in Pcbs /\ u.table[c] = s.table[c]
    BY <1>1, <1>5, <2>1, PcbFacts DEF Others
  <2>4. /\ e \in Pcbs /\ e.state = s.table[c].state /\ e.reason = s.table[c].reason /\ e.parent = p
        /\ e.exited = s.table[c].exited /\ e.reaped = s.table[c].reaped
    BY <2>3 DEF Pcbs
  <2> HIDE DEF e
  <2>5. /\ t \in Scheds /\ t.table = [u.table EXCEPT ![c] = e] /\ t.ready = s.ready
        /\ t.current = s.current /\ t.sleepq = s.sleepq /\ t.waitq = s.waitq
    BY <2>1, <2>3, <2>4 DEF Scheds
  <2> HIDE DEF t
  <2>6. /\ t.table[c] = e
        /\ \A q \in AllPids : q # c => t.table[q] = u.table[q]
        /\ \A q \in AllPids : q # c /\ q # p => t.table[q] = s.table[q]
        /\ t.table[p].state = "Blocked" /\ t.table[p].reason = WaitPid(c)
    BY <1>1, <1>3, <1>5, <2>1, <2>3, <2>5 DEF Others
  <2>7. \A q \in AllPids : /\ t.table[q].exited = s.table[q].exited
                           /\ t.table[q].reaped = s.table[q].reaped
                           /\ q # c => t.table[q].parent = s.table[q].parent
    BY <2>1, <2>4, <2>6 DEF SameLife
  <2>8. \A q \in AllPids : Dead(t, q) <=> Dead(s, q)
    BY <2>7 DEF Dead
  <2>9. Marked(t)
    <3> SUFFICES ASSUME NEW q \in AllPids
                 PROVE  /\ State(t, q) = "Reaped" => t.table[q].reaped
                        /\ State(t, q) = "Terminated" => t.table[q].exited
                        /\ State(t, q) = "Unused" => t.table[q].parent = NoPid
      BY DEF Marked
    <3>1. CASE q = c
      BY <1>1, <1>4, <1>5, <2>4, <2>6, <3>1 DEF Good, Marked, State
    <3>2. CASE q = p
      BY <2>6, <3>2 DEF State
    <3>3. CASE q # c /\ q # p
      BY <1>5, <2>6, <3>3 DEF Good, Marked, State
    <3> QED BY <3>1, <3>2, <3>3
  <2>10. Queued(t)
    <3> SUFFICES ASSUME NEW q \in Pids, ~Dead(t, q)
                 PROVE  /\ State(t, q) = "Ready" => q \in ToSet(t.ready)
                        /\ State(t, q) = "Running" => t.current = q
      BY DEF Queued
    <3>1. CASE q = p
      BY <2>6, <3>1 DEF State
    <3>2. CASE q # p
      <4>1. State(t, q) = State(s, q) /\ ~Dead(s, q)
        BY <2>4, <2>6, <2>8, <3>2, SchedFacts DEF State
      <4> QED BY <1>5, <2>5, <4>1 DEF Good, Queued
    <3> QED BY <3>1, <3>2
  <2>11. pc' \in [AllPids -> Points] /\ pc'[p].at = "prepared"
    <3>1. PICK x \in Points : x = Prepared(WaitPid(c)) /\ x.at = "prepared"
      BY <2>0, PointFacts
    <3> QED BY <1>3, <1>8, <3>1
  <2>12. Sound1'
    BY <1>1, <2>2, <2>5, <2>9, <2>10, <2>11, StepKeeps DEF Good
  <2>13. ASSUME Sound2, NEW q \in Pids, State(t, q) = "Blocked"
         PROVE  Found(t, q)
    <3>0. AllFound(s)
      BY <1>3, <1>4, <2>13
    <3>1. CASE q = p
      <4>1. ~Dead(t, c) /\ t.table[c].parent = p
        BY <1>5, <1>8, <2>4, <2>6, <2>8
      <4> QED BY <2>0, <2>6, <3>1, <4>1 DEF Found
    <3>2. CASE q # p
      <4>1. /\ t.table[q].state = s.table[q].state /\ t.table[q].reason = s.table[q].reason
            /\ s.table[q].reason \in Reasons /\ q \in AllPids
        BY <1>5, <2>4, <2>6, <3>2, SchedFacts, PcbFacts
      <4>2. Found(s, q)
        BY <2>13, <3>0, <4>1 DEF AllFound, State
      <4>3. CASE s.table[q].reason.kind = "WaitPid"
        <5>1. PICK d \in AllPids : d = s.table[q].reason.child
          BY <4>1, <4>3, SchedFacts, ReasonFacts
        <5>2. ~Dead(s, d) /\ s.table[d].parent = q
          BY <4>2, <4>3, <5>1 DEF Found
        <5>3. d # c
          BY <1>1, <1>4, <3>2, <5>2, SchedFacts
        <5> QED BY <2>7, <2>8, <4>1, <4>3, <5>1, <5>2, <5>3 DEF Found
      <4>4. CASE s.table[q].reason.kind # "WaitPid"
        BY <2>5, <4>1, <4>2, <4>4 DEF Found
      <4> QED BY <4>3, <4>4
    <3> QED BY <3>1, <3>2
  <2>14. Sound2 => Sound2'
    BY <1>5, <2>2, <2>5, <2>11, <2>13 DEF Sound2, BlockedIsPrepared, AllFound
  <2> QED BY <2>12, <2>14
<1>9. \/ s.table[c].reaped /\ sched' = sched /\ pc' = [pc EXCEPT ![p] = Run]
      \/ /\ ~s.table[c].reaped /\ s.table[c].exited
         /\ sched' = [s EXCEPT !.table[c].state = "Reaped", !.table[c].reaped = TRUE]
         /\ pc' = [pc EXCEPT ![p] = Run]
      \/ /\ ~Dead(s, c)
         /\ sched' = [Blocked(s, p, WaitPid(c)) EXCEPT !.table[c].parent = p]
         /\ pc' = [pc EXCEPT ![p] = Prepared(WaitPid(c))]
  BY <1>4, Zenon DEF WaitTurn
<1> QED BY <1>6, <1>7, <1>8, <1>9

LEMMA SysWaitpidKeeps ==
    ASSUME Sound1, NEW p \in Pids, NEW c \in Pids, SysWaitpid(p, c)
    PROVE  Sound1' /\ (Sound2 => Sound2')
<1>1. /\ InOwnCode(p) /\ Dead(sched, c) /\ UNCHANGED <<ticksLeft, pc, ctx>>
      /\ sched' = [sched EXCEPT !.table[c].reaped = TRUE]
  BY DEF SysWaitpid
<1>2. /\ Good(sched) /\ sched.current = p /\ p \in AllPids /\ pc \in [AllPids -> Points]
      /\ Sound2 => AllFound(sched) /\ State(sched, p) # "Blocked"
  BY <1>1, OwnCode, RunsInOrder
<1>3. PICK s : s = sched
  OBVIOUS
<1>4. s \in Scheds /\ Good(s) /\ s.table \in [AllPids -> Pcbs] /\ s.table[c] \in Pcbs /\ c \in AllPids
  BY <1>2, <1>3, SchedFacts, PcbFacts DEF Good
<1> DEFINE e == [s.table[c] EXCEPT !.reaped = TRUE]
           t == [s EXCEPT !.table = [s.table EXCEPT ![c] = e]]
<1>5. /\ e \in Pcbs /\ e.state = s.table[c].state /\ e.reaped = TRUE
      /\ e.exited = s.table[c].exited /\ e.reason = s.table[c].reason
      /\ e.parent = s.table[c].parent
  BY <1>4 DEF Pcbs
<1>6. sched' = t
  BY <1>1, <1>3
<1> HIDE DEF e
<1>7. /\ t \in Scheds /\ t.table = [s.table EXCEPT ![c] = e] /\ t.ready = s.ready
      /\ t.current = s.current /\ t.sleepq = s.sleepq /\ t.waitq = s.waitq
  BY <1>4, <1>5 DEF Scheds
<1> HIDE DEF t
<1>8. t.table[c] = e /\ Others(s, t, c)
  BY <1>4, <1>7 DEF Others
<1>9. Dead(t, c) /\ State(t, c) = State(s, c) /\ t.table[c].reaped /\ t.table[c].exited = s.table[c].exited
  BY <1>5, <1>8 DEF Dead, State
<1>10. State(s, c) = "Terminated" => s.table[c].exited
  BY <1>4 DEF Good, Marked
<1>11. Good(t) /\ (AllFound(s) => AllFound(t))
  BY <1>1, <1>3, <1>4, <1>5, <1>7, <1>8, <1>9, <1>10, EndKeeps
<1>12. Sound1'
  BY <1>1, <1>2, <1>6, <1>11, StepKeeps
<1>13. Sound2 => State(t, p) # "Blocked"
  BY <1>2, <1>3, <1>8, <1>9 DEF State, Others
<1>14. Sound2 => Sound2'
  BY <1>2, <1>3, <1>6, <1>7, <1>11, <1>13 DEF Sound2, BlockedIsPrepared
<1> QED BY <1>12, <1>14

LEMMA ScheduleKeeps ==
    ASSUME Sound1, NEW p \in Pids, Schedule(p)
    PROVE  Sound1' /\ (Sound2 => Sound2')
<1>1. Good(sched) /\ pc \in [AllPids -> Points] /\ ctx \in [AllPids -> Points]
      /\ NoPid \in Pids \cup {NoPid} /\ p \in AllPids
  BY SchedFacts DEF Sound1
<1>2. PICK s : s = sched
  OBVIOUS
<1>3. PICK h \in Pids \cup {NoPid} : h = NoPid
  OBVIOUS
<1>4. PICK pn : /\ pn \in [AllPids -> Points]
                /\ ScheduleInternal(s, h, pn)
  <2>1. CASE pc[p].at = "prepared" /\ ScheduleInternal(sched, NoPid, [pc EXCEPT ![p] = Resumed(pc[p].why)])
    <3>1. PICK pn : pn = [pc EXCEPT ![p] = Resumed(pc[p].why)]
      OBVIOUS
    <3>2. pc[p].why \in Reasons
      BY <1>1, <2>1, PointFacts
    <3>3. PICK x \in Points : x = Resumed(pc[p].why)
      BY <3>2, PointFacts
    <3>4. pn \in [AllPids -> Points]
      BY <1>1, <3>1, <3>3
    <3>5. ScheduleInternal(s, h, pn)
      BY <1>2, <1>3, <2>1, <3>1, Zenon DEF ScheduleInternal
    <3> QED BY <3>4, <3>5
  <2>2. CASE pc[p] = Run /\ ScheduleInternal(sched, NoPid, pc)
    <3>1. PICK pn : pn = pc
      OBVIOUS
    <3>2. ScheduleInternal(s, h, pn)
      BY <1>2, <1>3, <2>2, <3>1, Zenon DEF ScheduleInternal
    <3> QED BY <1>1, <3>1, <3>2
  <2> QED BY <2>1, <2>2 DEF Schedule
<1>5. Sound1' /\ (AllFound(s) => Sound2')
  BY <1>1, <1>2, <1>4, ScheduleInternalKeeps
<1> QED BY <1>2, <1>5 DEF Sound2

LEMMA YieldToKeeps ==
    ASSUME Sound1, NEW p \in Pids, YieldTo(p)
    PROVE  Sound1' /\ (Sound2 => Sound2')
<1>1. Good(sched) /\ pc \in [AllPids -> Points] /\ ctx \in [AllPids -> Points] /\ p \in AllPids
  BY SchedFacts DEF Sound1
<1>2. pc[p].at = "yield" /\ ScheduleInternal(sched, pc[p].to, [pc EXCEPT ![p] = Run])
  BY DEF YieldTo
<1>3. PICK s : s = sched
  OBVIOUS
<1>4. pc[p].to \in Pids
  BY <1>1, <1>2, PointFacts
<1>5. PICK h \in Pids \cup {NoPid} : h = pc[p].to
  BY <1>4
<1>6. PICK pn : pn = [pc EXCEPT ![p] = Run]
  OBVIOUS
<1>7. pn \in [AllPids -> Points]
  BY <1>1, <1>6, PointFacts
<1>8. ScheduleInternal(s, h, pn)
  BY <1>2, <1>3, <1>5, <1>6, Zenon DEF ScheduleInternal
<1>9. Sound1' /\ (AllFound(s) => Sound2')
  BY <1>1, <1>3, <1>7, <1>8, ScheduleInternalKeeps
<1> QED BY <1>3, <1>9 DEF Sound2

LEMMA TimerTickKeeps ==
    ASSUME Sound1, TimerTick
    PROVE  Sound1' /\ (Sound2 => Sound2')
<1>1. Good(sched) /\ pc \in [AllPids -> Points] /\ ctx \in [AllPids -> Points]
      /\ ticksLeft \in 1 .. QuantumTicks /\ NoPid \in Pids \cup {NoPid}
  BY DEF Sound1
<1>2. PICK s : /\ s = Aged(sched)
               /\ \/ /\ ticksLeft > 1 /\ sched' = s /\ ticksLeft' = ticksLeft - 1
                     /\ UNCHANGED <<pc, ctx>>
                  \/ ScheduleInternal(s, NoPid, pc)
  BY DEF TimerTick
<1>3. PICK r : r = sched
  OBVIOUS
<1>4. /\ Good(s) /\ (AllFound(sched) => AllFound(s)) /\ s.current = sched.current
      /\ \A p \in AllPids : State(s, p) = State(sched, p)
  <2>1. /\ Good(Aged(r)) /\ (AllFound(r) => AllFound(Aged(r))) /\ Aged(r).current = r.current
        /\ \A p \in AllPids : State(Aged(r), p) = State(r, p)
    BY <1>1, <1>3, AgedKeeps
  <2>2. s = Aged(r)
    BY <1>2, <1>3
  <2> QED BY <1>3, <2>1, <2>2
<1>5. CASE ticksLeft > 1 /\ sched' = s /\ ticksLeft' = ticksLeft - 1 /\ UNCHANGED <<pc, ctx>>
  <2>1. ticksLeft' \in 1 .. QuantumTicks
    BY <1>1, <1>5, SchedFacts
  <2>2. Sound1'
    BY <1>1, <1>4, <1>5, <2>1 DEF Sound1
  <2>3. Sound2 => Sound2'
    BY <1>4, <1>5, SchedFacts DEF Sound2, BlockedIsPrepared
  <2> QED BY <2>2, <2>3
<1>6. CASE ScheduleInternal(s, NoPid, pc)
  <2>1. PICK h \in Pids \cup {NoPid} : h = NoPid
    OBVIOUS
  <2>2. PICK pn : pn = pc
    OBVIOUS
  <2>3. ScheduleInternal(s, h, pn)
    BY <1>6, <2>1, <2>2, Zenon DEF ScheduleInternal
  <2>4. Sound1' /\ (AllFound(s) => Sound2')
    BY <1>1, <1>4, <2>2, <2>3, ScheduleInternalKeeps
  <2> QED BY <1>4, <2>4 DEF Sound2
<1> QED BY <1>2, <1>5, <1>6

LEMMA AfterScheduleKeeps ==
    ASSUME Sound1, NEW p \in Pids, AfterSchedule(p)
    PROVE  Sound1' /\ (Sound2 => Sound2')
<1>1. /\ Executing(p) /\ pc' = [pc EXCEPT ![p] = Run] /\ UNCHANGED <<ticksLeft, ctx>>
      /\ \/ pc[p] = Resumed(Generic) /\ sched' = FinishWait(sched, p)
         \/ pc[p] = Resumed(Sleep(0)) /\ sched' = RemoveSleep(sched, p)
  BY DEF AfterSchedule
<1>2. pc[p].at # "prepared"
  <2>1. Sleep(0) \in Reasons /\ Generic \in Reasons
    BY ReasonFacts
  <2> QED BY <1>1, <2>1, PointFacts
<1>3. /\ Good(sched) /\ sched.current = p /\ p \in AllPids /\ pc \in [AllPids -> Points]
      /\ Sound2 => AllFound(sched) /\ State(sched, p) # "Blocked"
  BY <1>1, <1>2, RunsInOrder
<1>4. PICK s : s = sched
  OBVIOUS
<1>5. PICK t : t = sched'
  OBVIOUS
<1>6. /\ Good(t) /\ t.current = p
      /\ Sound2 => AllFound(t) /\ State(t, p) # "Blocked"
  <2>1. CASE sched' = FinishWait(sched, p)
    <3>1. t = FinishWait(s, p)
      BY <1>4, <1>5, <2>1
    <3> QED BY <1>3, <1>4, <3>1, FinishWaitKeeps
  <2>2. CASE sched' = RemoveSleep(sched, p)
    <3>1. t = RemoveSleep(s, p)
      BY <1>4, <1>5, <2>2
    <3>2. t.table = s.table /\ t.current = s.current
      BY <1>3, <1>4, <3>1, RemoveSleepFields DEF Good
    <3>3. Good(t) /\ (AllFound(s) /\ State(s, p) # "Blocked" => AllFound(t))
      BY <1>3, <1>4, <3>1, RemoveSleepKeeps
    <3> QED BY <1>3, <1>4, <3>2, <3>3 DEF State
  <2> QED BY <1>1, <2>1, <2>2
<1>7. pc' \in [AllPids -> Points]
  BY <1>1, <1>3, PointFacts
<1>8. Sound1'
  BY <1>1, <1>5, <1>6, <1>7, StepKeeps
<1>9. Sound2 => Sound2'
  BY <1>5, <1>6 DEF Sound2, BlockedIsPrepared
<1> QED BY <1>8, <1>9

LEMMA WakeKeeps ==
    ASSUME Sound1, NEW p \in Pids, Wake(p) \/ WakeReceiver(p)
    PROVE  Sound1' /\ (Sound2 => Sound2')
<1>1. /\ InOwnCode(p) /\ sched' = WakeOne(sched) /\ UNCHANGED <<ticksLeft, ctx>>
      /\ \/ pc' = pc
         \/ Woken(sched) # NoPid /\ pc' = [pc EXCEPT ![p] = Yielding(Woken(sched))]
  BY DEF Wake, WakeReceiver
<1>2. /\ Good(sched) /\ sched.current = p /\ p \in AllPids /\ pc \in [AllPids -> Points]
      /\ Sound2 => AllFound(sched) /\ State(sched, p) # "Blocked"
  BY <1>1, OwnCode, RunsInOrder
<1>3. PICK s : s = sched
  OBVIOUS
<1>4. PICK t : t = WakeOne(s)
  OBVIOUS
<1>5. /\ Good(t) /\ (AllFound(s) => AllFound(t)) /\ t.current = s.current
      /\ \A q \in Pids : State(s, q) # "Blocked" => State(t, q) # "Blocked"
      /\ Woken(s) \in Pids \cup {NoPid}
  BY <1>2, <1>3, <1>4, WakeOneKeeps
<1>6. sched' = t /\ Woken(sched) = Woken(s)
  BY <1>1, <1>3, <1>4
<1>7. pc' \in [AllPids -> Points]
  <2>1. CASE pc' = pc
    BY <1>2, <2>1
  <2>2. CASE Woken(sched) # NoPid /\ pc' = [pc EXCEPT ![p] = Yielding(Woken(sched))]
    <3>1. PICK x \in Points : x = Yielding(Woken(sched))
      BY <1>5, <1>6, <2>2, PointFacts
    <3> QED BY <1>2, <2>2, <3>1
  <2> QED BY <1>1, <2>1, <2>2
<1>8. Sound1'
  BY <1>1, <1>5, <1>6, <1>7, StepKeeps
<1>9. Sound2 => Sound2'
  BY <1>2, <1>3, <1>5, <1>6 DEF Sound2, BlockedIsPrepared
<1> QED BY <1>8, <1>9

LEMMA ExitBeginKeeps ==
    ASSUME Sound1, NEW p \in Pids, ExitBegin(p)
    PROVE  Sound1' /\ (Sound2 => Sound2')
<1>1. /\ InOwnCode(p) /\ sched' = RemoveSleep(SetState(sched, p, "Exiting"), p)
      /\ pc' = [pc EXCEPT ![p] = Teardown] /\ UNCHANGED <<ticksLeft, ctx>>
  BY DEF ExitBegin
<1>2. /\ Good(sched) /\ sched.current = p /\ p \in AllPids /\ pc \in [AllPids -> Points]
      /\ Sound2 => AllFound(sched) /\ State(sched, p) # "Blocked"
  BY <1>1, OwnCode, RunsInOrder
<1>3. PICK s : s = sched
  OBVIOUS
<1>4. PICK u : u = SetState(s, p, "Exiting")
  OBVIOUS
<1>5. PICK t : t = RemoveSleep(u, p)
  OBVIOUS
<1>6. s \in Scheds /\ "Exiting" \in States
  BY <1>2, <1>3 DEF Good, States
<1>7. /\ u \in Scheds /\ Others(s, u, p) /\ SameLife(s, u) /\ u.table[p].state = "Exiting"
      /\ u.ready = s.ready /\ u.current = s.current /\ u.sleepq = s.sleepq /\ u.waitq = s.waitq
  BY <1>2, <1>4, <1>6, SetStateFields
<1>8. Good(u)
  BY <1>2, <1>3, <1>7, GoodAfter
<1>9. AllFound(s) => AllFound(u)
  BY <1>2, <1>6, <1>7, FoundAfter DEF State
<1>10. Good(t) /\ (AllFound(u) => AllFound(t)) /\ t.table = u.table /\ t.current = u.current
  <2>1. State(u, p) # "Blocked"
    BY <1>7 DEF State
  <2> QED BY <1>2, <1>5, <1>7, <1>8, <2>1, RemoveSleepKeeps, RemoveSleepFields
<1>11. sched' = t
  BY <1>1, <1>3, <1>4, <1>5
<1>12. pc' \in [AllPids -> Points]
  BY <1>1, <1>2, PointFacts
<1>13. Sound1'
  BY <1>1, <1>10, <1>11, <1>12, StepKeeps
<1>14. Sound2 => Sound2'
  BY <1>2, <1>3, <1>7, <1>9, <1>10, <1>11 DEF Sound2, BlockedIsPrepared, State
<1> QED BY <1>13, <1>14

(* A process ends and its parent is woken: what exit_current and SIGKILL    *)
(* have in common.                                                          *)
LEMMA TerminatedKeeps ==
    ASSUME NEW s, Good(s), NEW p \in Pids
    PROVE  LET t == Terminated(s, p)
           IN  /\ Good(t) /\ (AllFound(s) => FoundBut(t, p)) /\ State(t, p) = "Terminated"
               /\ Dead(t, p) /\ t.current = s.current
               /\ \A q \in Pids : State(s, q) # "Blocked" => State(t, q) # "Blocked"
<1> DEFINE t == Terminated(s, p)
<1>1. s \in Scheds /\ p \in AllPids
  BY SchedFacts DEF Good
<1>2. /\ t \in Scheds /\ Others(s, t, p)
      /\ t.table[p].state = "Terminated" /\ t.table[p].reason = s.table[p].reason
      /\ t.table[p].exited /\ t.table[p].parent = s.table[p].parent
      /\ t.ready = s.ready /\ t.current = s.current
      /\ t.sleepq = s.sleepq /\ t.waitq = s.waitq
  BY <1>1, TerminatedFields
<1> HIDE DEF t
<1>3. Dead(t, p) /\ State(t, p) = "Terminated"
  BY <1>2 DEF Dead, State
<1>4. Good(t) /\ (AllFound(s) => FoundBut(t, p))
  BY <1>2, <1>3, EndKeeps
<1>5. \A q \in Pids : State(s, q) # "Blocked" => State(t, q) # "Blocked"
  BY <1>2, SchedFacts DEF State, Others
<1> QED BY <1>2, <1>3, <1>4, <1>5 DEF t

LEMMA ExitEndKeeps ==
    ASSUME Sound1, NEW p \in Pids, ExitEnd(p)
    PROVE  Sound1' /\ (Sound2 => Sound2')
<1>1. Executing(p) /\ pc[p] = Teardown /\ UNCHANGED ctx
  BY DEF ExitEnd
<1>2. /\ Good(sched) /\ sched.current = p /\ p \in AllPids /\ pc \in [AllPids -> Points]
      /\ Sound2 => AllFound(sched) /\ State(sched, p) # "Blocked"
  BY <1>1, RunsInOrder, PointFacts
<1>3. PICK r : r = sched
  OBVIOUS
<1>4. PICK a : a = Terminated(r, p)
  OBVIOUS
<1>5. PICK s : s = WakeParent(a, p)
  OBVIOUS
<1>6. /\ Good(a) /\ (AllFound(r) => FoundBut(a, p)) /\ State(a, p) = "Terminated"
      /\ Dead(a, p) /\ a.current = p
  BY <1>2, <1>3, <1>4, TerminatedKeeps
<1>7. Good(s) /\ (FoundBut(a, p) => AllFound(s)) /\ s.current = p /\ Dead(s, p)
  BY <1>2, <1>5, <1>6, WakeParentKeeps DEF Dead, SameLife
<1>8. /\ s \in Scheds /\ s.ready \in Seq(AllPids) /\ Marked(s)
      /\ \A q \in Pids : ~Dead(s, q) =>
            /\ State(s, q) # "Running"
            /\ State(s, q) = "Ready" => q \in ToSet(s.ready)
  <2>1. s \in Scheds /\ s.ready \in Seq(AllPids) /\ Marked(s)
    BY <1>7, SchedFacts, PcbFacts DEF Good
  <2> QED BY <1>7, <2>1 DEF Good, Queued
<1>9. CASE /\ s.ready = << >> /\ sched' = [s EXCEPT !.current = NoPid]
           /\ UNCHANGED <<ticksLeft, pc>>
  <2>1. PICK t : t = [s EXCEPT !.current = NoPid]
    OBVIOUS
  <2>2. /\ t \in Scheds /\ t.table = s.table /\ t.ready = s.ready /\ t.current = NoPid
        /\ t.sleepq = s.sleepq /\ t.waitq = s.waitq
    BY <1>8, <2>1 DEF Scheds
  <2>3. Good(t) /\ (AllFound(s) => AllFound(t))
    BY <1>8, <2>2 DEF Good, Marked, Queued, AllFound, Found, State, Dead
  <2>4. Sound1'
    BY <1>1, <1>2, <1>9, <2>1, <2>3, StepKeeps
  <2>5. Sound2 => Sound2'
    BY <1>2, <1>3, <1>6, <1>7, <1>9, <2>1, <2>2, <2>3, SchedFacts DEF Sound2, BlockedIsPrepared
  <2> QED BY <2>4, <2>5
<1>10. CASE /\ s.ready # << >>
            /\ sched' = SwitchTo([s EXCEPT !.ready = Tail(@)], Head(s.ready))
            /\ ticksLeft' = QuantumTicks
            /\ pc' = [pc EXCEPT ![Head(s.ready)] = ctx[Head(s.ready)]]
  <2>1. PICK n \in AllPids : n = Head(s.ready)
    BY <1>8, <1>10, HeadTaken
  <2>2. PICK q \in Seq(AllPids) : q = Tail(s.ready)
    BY <1>8, <1>10, HeadTaken
  <2>3. PICK u : u = [s EXCEPT !.ready = q]
    OBVIOUS
  <2>4. PICK t : t = SwitchTo(u, n)
    OBVIOUS
  <2>5. sched' = t
    BY <1>10, <2>1, <2>2, <2>3, <2>4
  <2>6. \A x \in ToSet(s.ready) : x # n => x \in ToSet(q)
    <3> SUFFICES ASSUME NEW x \in ToSet(s.ready), x # n
                 PROVE  x \in ToSet(q)
      OBVIOUS
    <3>1. PICK i \in 1 .. Len(s.ready) : s.ready[i] = x
      BY <1>8, Elements
    <3>2. i # 1 /\ Len(q) = Len(s.ready) - 1 /\ Len(s.ready) \in Nat
      BY <1>8, <1>10, <2>1, <2>2, <3>1
    <3>3. i - 1 \in 1 .. Len(q) /\ q[i - 1] = x
      BY <1>8, <1>10, <2>2, <3>1, <3>2
    <3> QED BY <3>3, Elements
  <2>7. /\ u \in Scheds /\ u.table = s.table /\ u.ready = q /\ u.current = s.current
        /\ u.sleepq = s.sleepq /\ u.waitq = s.waitq
    BY <1>8, <2>3 DEF Scheds
  <2>8. Marked(u) /\ (AllFound(s) => AllFound(u))
    BY <1>8, <2>7 DEF Marked, AllFound, Found, State, Dead
  <2>9. \A x \in Pids : x # n /\ ~Dead(u, x) =>
              /\ State(u, x) # "Running"
              /\ State(u, x) = "Ready" => x \in ToSet(u.ready)
    BY <1>8, <2>6, <2>7 DEF State, Dead
  <2>10. /\ Good(t) /\ (AllFound(u) => AllFound(t)) /\ t.current = n /\ State(t, n) = "Running"
    BY <2>4, <2>7, <2>8, <2>9, SwitchToKeeps
  <2>11. pc' \in [AllPids -> Points] /\ ctx' \in [AllPids -> Points] /\ ticksLeft' \in 1 .. QuantumTicks
    <3>1. ctx \in [AllPids -> Points]
      BY DEF Sound1
    <3>2. ctx[n] \in Points /\ pc' = [pc EXCEPT ![n] = ctx[n]]
      BY <1>10, <2>1, <3>1
    <3>3. pc' \in [AllPids -> Points]
      BY <1>2, <2>1, <3>2
    <3>4. ticksLeft' \in 1 .. QuantumTicks
      BY <1>10, SchedFacts
    <3> QED BY <1>1, <3>1, <3>3, <3>4
  <2>12. Sound1'
    BY <2>5, <2>10, <2>11 DEF Sound1
  <2>13. Sound2 => Sound2'
    BY <1>2, <1>3, <1>6, <1>7, <2>5, <2>8, <2>10 DEF Sound2, BlockedIsPrepared
  <2> QED BY <2>12, <2>13
<1>11. \/ /\ s.ready = << >> /\ sched' = [s EXCEPT !.current = NoPid]
          /\ UNCHANGED <<ticksLeft, pc>>
       \/ /\ s.ready # << >>
          /\ sched' = SwitchTo([s EXCEPT !.ready = Tail(@)], Head(s.ready))
          /\ ticksLeft' = QuantumTicks
          /\ pc' = [pc EXCEPT ![Head(s.ready)] = ctx[Head(s.ready)]]
  BY <1>3, <1>4, <1>5, Zenon DEF ExitEnd
<1> QED BY <1>9, <1>10, <1>11

LEMMA SendSignalKeeps ==
    ASSUME Sound1, NEW p \in Pids, NEW c \in Pids, NEW sig \in Signals, SendSignal(p, c, sig)
    PROVE  Sound1' /\ (Sound2 /\ "STOP" \notin Signals => Sound2')
<1>1. /\ InOwnCode(p) /\ UNCHANGED <<ticksLeft, pc, ctx>>
      /\ \/ sched' = WakeParent(RemoveSleep(Terminated(sched, c), c), c)
         \/ sig = "STOP" /\ sched' = SetState(sched, c, "Blocked")
         \/ sched' = Unblock(sched, c)
  BY DEF SendSignal
<1>2. /\ Good(sched) /\ sched.current = p /\ p \in AllPids /\ pc \in [AllPids -> Points]
      /\ c \in AllPids
      /\ Sound2 => AllFound(sched) /\ State(sched, p) # "Blocked"
  BY <1>1, OwnCode, RunsInOrder, SchedFacts
<1>3. PICK s : s = sched
  OBVIOUS
<1>4. s \in Scheds /\ Good(s) /\ s.ready \in Seq(AllPids) /\ {"Blocked", "Ready"} \subseteq States
  BY <1>2, <1>3, PcbFacts DEF Good, States
<1>5. PICK t : t = sched'
  OBVIOUS
<1>6. /\ Good(t)
      /\ Sound2 /\ "STOP" \notin Signals => AllFound(t) /\ t.current = p /\ State(t, p) # "Blocked"
  <2>1. CASE sched' = WakeParent(RemoveSleep(Terminated(sched, c), c), c)
    <3>1. PICK a : a = Terminated(s, c)
      OBVIOUS
    <3>2. PICK b : b = RemoveSleep(a, c)
      OBVIOUS
    <3>3. t = WakeParent(b, c)
      BY <1>3, <1>5, <2>1, <3>1, <3>2
    <3>4. /\ Good(a) /\ (AllFound(s) => FoundBut(a, c)) /\ State(a, c) = "Terminated"
          /\ a.current = s.current
          /\ \A q \in Pids : State(s, q) # "Blocked" => State(a, q) # "Blocked"
      BY <1>4, <3>1, TerminatedKeeps
    <3>5. Good(b) /\ (FoundBut(a, c) => FoundBut(b, c)) /\ b.table = a.table /\ b.current = a.current
      BY <1>2, <3>2, <3>4, RemoveSleepKeeps, RemoveSleepFields DEF Good
    <3>6. State(b, c) = "Terminated" /\ \A q \in Pids : State(b, q) = State(a, q)
      BY <3>4, <3>5 DEF State
    <3>7. /\ Good(t) /\ (FoundBut(b, c) => AllFound(t)) /\ t.current = b.current
          /\ \A q \in Pids : State(b, q) # "Blocked" => State(t, q) # "Blocked"
      BY <3>3, <3>5, <3>6, WakeParentKeeps
    <3> QED BY <1>2, <1>3, <3>4, <3>5, <3>6, <3>7
  <2>2. CASE sig = "STOP" /\ sched' = SetState(sched, c, "Blocked")
    <3>1. t = SetState(s, c, "Blocked")
      BY <1>3, <1>5, <2>2
    <3>2. /\ t \in Scheds /\ Others(s, t, c) /\ SameLife(s, t) /\ t.table[c].state = "Blocked"
          /\ t.ready = s.ready /\ t.current = s.current
      BY <1>2, <1>4, <3>1, SetStateFields
    <3>3. Good(t)
      BY <1>2, <1>4, <3>2, GoodAfter
    <3> QED BY <2>2, <3>3
  <2>3. CASE sched' = Unblock(sched, c)
    <3>1. PICK u : u = SetState(s, c, "Ready")
      OBVIOUS
    <3>2. PICK r : r = Append(s.ready, c)
      OBVIOUS
    <3>3. /\ u \in Scheds /\ Others(s, u, c) /\ SameLife(s, u) /\ u.table[c].state = "Ready"
          /\ u.ready = s.ready /\ u.current = s.current /\ u.sleepq = s.sleepq /\ u.waitq = s.waitq
      BY <1>2, <1>4, <3>1, SetStateFields
    <3>4. r \in Seq(AllPids) /\ ToSet(r) = ToSet(s.ready) \cup {c}
      BY <1>2, <1>4, <3>2, Appended
    <3>5. t = [u EXCEPT !.ready = r]
      BY <1>3, <1>5, <2>3, <3>1, <3>2, <3>3 DEF Unblock
    <3>6. /\ t \in Scheds /\ t.table = u.table /\ t.ready = r /\ t.current = s.current
          /\ t.sleepq = s.sleepq /\ t.waitq = s.waitq
      BY <3>3, <3>4, <3>5 DEF Scheds
    <3>7. Others(s, t, c) /\ SameLife(s, t) /\ t.table[c].state = "Ready"
      BY <3>3, <3>6 DEF Others, SameLife
    <3>8. Good(t)
      BY <1>2, <1>4, <3>4, <3>6, <3>7, GoodAfter
    <3>9. AllFound(s) => AllFound(t)
      BY <1>2, <1>4, <3>6, <3>7, FoundAfter DEF State
    <3>10. State(s, p) # "Blocked" => State(t, p) # "Blocked"
      BY <1>2, <3>7 DEF State, Others
    <3> QED BY <1>2, <1>3, <3>6, <3>8, <3>9, <3>10
  <2> QED BY <1>1, <2>1, <2>2, <2>3
<1>7. Sound1'
  BY <1>1, <1>2, <1>5, <1>6, StepKeeps
<1>8. Sound2 /\ "STOP" \notin Signals => Sound2'
  BY <1>5, <1>6 DEF Sound2, BlockedIsPrepared
<1> QED BY <1>7, <1>8

LEMMA UiTerminateKeeps ==
    ASSUME Sound1, NEW p \in Pids, NEW c \in Pids, UiTerminate(p, c)
    PROVE  Sound1'
<1>1. /\ InOwnCode(p) /\ UNCHANGED <<ticksLeft, pc, ctx>>
      /\ sched' = [sched EXCEPT !.table[c].state = "Exited", !.table[c].exited = TRUE,
                                !.table[c].reaped = TRUE]
  BY DEF UiTerminate
<1>2. Good(sched) /\ c \in AllPids /\ pc \in [AllPids -> Points]
  BY SchedFacts DEF Sound1
<1>3. PICK s : s = sched
  OBVIOUS
<1>4. s \in Scheds /\ Good(s) /\ s.table \in [AllPids -> Pcbs] /\ s.table[c] \in Pcbs
  BY <1>2, <1>3, PcbFacts DEF Good
<1> DEFINE e == [s.table[c] EXCEPT !.state = "Exited", !.exited = TRUE, !.reaped = TRUE]
           t == [s EXCEPT !.table = [s.table EXCEPT ![c] = e]]
<1>5. e \in Pcbs /\ e.state = "Exited" /\ e.reaped = TRUE /\ e.reason = s.table[c].reason
      /\ e.parent = s.table[c].parent
  BY <1>4 DEF Pcbs, States
<1>6. sched' = t
  BY <1>1, <1>2, <1>3, <1>4 DEF Scheds, Pcbs
<1> HIDE DEF e
<1>7. /\ t \in Scheds /\ t.table = [s.table EXCEPT ![c] = e] /\ t.ready = s.ready
      /\ t.current = s.current /\ t.sleepq = s.sleepq /\ t.waitq = s.waitq
  BY <1>2, <1>4, <1>5 DEF Scheds
<1> HIDE DEF t
<1>8. t.table[c] = e /\ Others(s, t, c)
  BY <1>2, <1>4, <1>7 DEF Others
<1>9. Dead(t, c) /\ State(t, c) = "Exited"
  BY <1>5, <1>8 DEF Dead, State
<1>10. Good(t)
  BY <1>4, <1>5, <1>7, <1>8, <1>9, EndKeeps
<1> QED BY <1>1, <1>2, <1>6, <1>10, StepKeeps

-----------------------------------------------------------------------------
(* The theorems *)

LEMMA SchedInit ==
    ASSUME Init
    PROVE  Sound1 /\ Sound2
<1>1. PICK e \in Seq(AllPids) : e = << >> /\ e \in Seq(Pids)
  <2>1. << >> \in Seq(AllPids) /\ << >> \in Seq(Pids)
    OBVIOUS
  <2> QED BY <2>1, Zenon
<1> DEFINE pcb(p) == [state |-> IF p = Boot THEN "Running"
                                ELSE IF p = Idle THEN "Ready" ELSE "Unused",
                      reason |-> None, exited |-> FALSE, reaped |-> FALSE,
                      parent |-> NoPid]
           tab == [p \in AllPids |-> pcb(p)]
<1>2. ASSUME NEW p \in AllPids
      PROVE  /\ pcb(p) \in Pcbs /\ pcb(p).state \in {"Running", "Ready", "Unused"}
             /\ pcb(p).state = "Running" => p = Boot
             /\ pcb(p).state = "Ready" => p = Idle
             /\ pcb(p).parent = NoPid
  BY ReasonFacts DEF Pcbs, States
<1>3. sched = [table |-> tab, ready |-> e, current |-> Boot, sleepq |-> e, waitq |-> e]
  BY <1>1 DEF Init
<1> HIDE DEF pcb
<1>4. tab \in [AllPids -> Pcbs] /\ \A p \in AllPids : tab[p] = pcb(p)
  BY <1>2
<1> HIDE DEF tab
<1>5. sched \in Scheds /\ sched.table = tab /\ sched.current = Boot
  BY <1>1, <1>3, <1>4, SchedFacts DEF Scheds
<1>6. Marked(sched) /\ Queued(sched) /\ AllFound(sched) /\ BlockedIsPrepared
  <2>1. \A p \in AllPids : /\ State(sched, p) \in {"Running", "Ready", "Unused"}
                           /\ State(sched, p) = "Running" => p = Boot
                           /\ State(sched, p) = "Ready" => p = Idle
                           /\ sched.table[p].parent = NoPid
    BY <1>2, <1>4, <1>5 DEF State
  <2>2. Marked(sched)
    BY <2>1 DEF Marked
  <2> QED BY <2>1, <2>2, <1>5, SchedFacts DEF Queued, AllFound, BlockedIsPrepared
<1>7. /\ pc \in [AllPids -> Points] /\ ctx \in [AllPids -> Points]
      /\ ticksLeft \in 1 .. QuantumTicks
  BY PointFacts, SchedFacts DEF Init
<1> QED BY <1>5, <1>6, <1>7 DEF Sound1, Sound2, Good

LEMMA SchedNext ==
    ASSUME Sound1, [Next]_vars
    PROVE  /\ Sound1'
           /\ Sound2 /\ "STOP" \notin Signals /\ ~UiKill => Sound2'
<1>1. CASE TimerTick
  BY <1>1, TimerTickKeeps
<1>2. ASSUME NEW p \in Pids, InKernel(p)
      PROVE  Sound1' /\ (Sound2 => Sound2')
  <2>1. CASE Schedule(p)
    BY <2>1, ScheduleKeeps
  <2>2. CASE AfterSchedule(p)
    BY <2>2, AfterScheduleKeeps
  <2>3. ASSUME NEW c \in Pids, WaitTurn(p, c)
        PROVE  Sound1' /\ (Sound2 => Sound2')
    BY <2>3, WaitTurnKeeps
  <2>4. CASE YieldTo(p)
    BY <2>4, YieldToKeeps
  <2>5. CASE ExitEnd(p)
    BY <2>5, ExitEndKeeps
  <2> QED BY <1>2, <2>1, <2>2, <2>3, <2>4, <2>5 DEF InKernel
<1>3. ASSUME NEW p \in Pids, Calls(p)
      PROVE  Sound1' /\ (Sound2 /\ "STOP" \notin Signals /\ ~UiKill => Sound2')
  <2>1. ASSUME NEW c \in Pids, Create(p, c)
        PROVE  Sound1' /\ (Sound2 => Sound2')
    BY <2>1, CreateKeeps
  <2>2. ASSUME NEW c \in Pids, SysWaitpid(p, c)
        PROVE  Sound1' /\ (Sound2 => Sound2')
    BY <2>2, SysWaitpidKeeps
  <2>3. ASSUME NEW c \in Pids, UiTerminate(p, c)
        PROVE  Sound1' /\ UiKill
    BY <2>3, UiTerminateKeeps DEF UiTerminate
  <2>4. ASSUME NEW c \in Pids, WaitTurn(p, c)
        PROVE  Sound1' /\ (Sound2 => Sound2')
    BY <2>4, WaitTurnKeeps
  <2>5. CASE BlockOn(p)
    BY <2>5, BlockOnKeeps
  <2>6. ASSUME NEW n \in SleepTicks, SleepMs(p, n)
        PROVE  Sound1' /\ (Sound2 => Sound2')
    BY <2>6, SleepMsKeeps, SchedFacts
  <2>7. CASE Schedule(p)
    BY <2>7, ScheduleKeeps
  <2>8. CASE Wake(p) \/ WakeReceiver(p)
    BY <2>8, WakeKeeps
  <2>9. CASE ExitBegin(p)
    BY <2>9, ExitBeginKeeps
  <2>10. ASSUME NEW c \in Pids, NEW sig \in Signals, SendSignal(p, c, sig)
         PROVE  Sound1' /\ (Sound2 /\ "STOP" \notin Signals => Sound2')
    BY <2>10, SendSignalKeeps
  <2> QED
    BY <1>3, <2>1, <2>2, <2>3, <2>4, <2>5, <2>6, <2>7, <2>8, <2>9, <2>10 DEF Calls
<1>4. CASE UNCHANGED vars
  <2>1. sched' = sched /\ pc' = pc /\ ctx' = ctx /\ ticksLeft' = ticksLeft
    BY <1>4 DEF vars
  <2> QED BY <2>1 DEF Sound1, Sound2, BlockedIsPrepared
<1> QED BY <1>1, <1>2, <1>3, <1>4 DEF Next

LEMMA Sound1Implies ==
    ASSUME Sound1
    PROVE  TypeOK /\ ReadyIsQueued
<1>1. sched \in Scheds /\ Marked(sched) /\ Queued(sched)
  BY DEF Sound1, Good
<1>2. ReadyIsQueued
  BY <1>1 DEF ReadyIsQueued, Queued
<1>3. \A p \in AllPids : LET pcb == sched.table[p] IN
          /\ pcb.state \in States
          /\ pcb.reason.kind \in {"None", "Generic", "Sleep", "WaitPid"}
          /\ pcb.parent \in Pids \cup {NoPid}
          /\ pcb.state = "Reaped" => pcb.reaped
          /\ pcb.state = "Terminated" => pcb.exited
  <2>1. ASSUME NEW p \in AllPids
        PROVE  /\ sched.table[p].state \in States /\ sched.table[p].reason \in Reasons
               /\ sched.table[p].parent \in Pids \cup {NoPid}
    BY <1>1, PcbFacts
  <2> QED BY <1>1, <2>1, ReasonFacts DEF Marked, State
<1>4. \A q \in {sched.ready, sched.sleepq, sched.waitq} : ToSet(q) \subseteq AllPids
  <2>1. sched.ready \in Seq(AllPids) /\ sched.sleepq \in Seq(AllPids) /\ sched.waitq \in Seq(Pids)
    BY <1>1, SchedFacts, PcbFacts
  <2>2. ToSet(sched.ready) \subseteq AllPids /\ ToSet(sched.sleepq) \subseteq AllPids
    BY <2>1, Elements
  <2>3. ToSet(sched.waitq) \subseteq Pids
    BY <2>1, Elements
  <2> QED BY <2>2, <2>3, SchedFacts
<1>5. sched.current \in AllPids \cup {NoPid} /\ ticksLeft \in 1 .. QuantumTicks
  BY <1>1 DEF Scheds, Sound1
<1> QED BY <1>2, <1>3, <1>4, <1>5 DEF TypeOK

LEMMA Sound2Implies ==
    ASSUME Sound1, Sound2
    PROVE  BlockedIsWakeable
<1>1. sched \in Scheds
  BY DEF Sound1, Good
<1>2. ASSUME NEW p \in Pids, State(sched, p) = "Blocked"
      PROVE  LET why == sched.table[p].reason
             IN  CASE why.kind = "Generic" -> p \in ToSet(sched.waitq)
                   [] why.kind = "Sleep" -> p \in ToSet(sched.sleepq)
                   [] why.kind = "WaitPid" ->
                         /\ ~Dead(sched, why.child)
                         /\ sched.table[why.child].parent = p
                   [] OTHER -> FALSE
  <2>1. Found(sched, p) /\ sched.table[p].reason \in Reasons
    BY <1>1, <1>2, SchedFacts, PcbFacts DEF Sound2, AllFound
  <2>2. sched.table[p].reason.kind \in {"Generic", "Sleep", "WaitPid"}
    BY <2>1, ReasonFacts DEF Found
  <2> QED BY <2>1, <2>2 DEF Found
<1> QED BY <1>2 DEF BlockedIsWakeable

(* Nobody falls between the queues: whatever processes sleep, wait, exit,   *)
(* signal, stop and end each other in whatever order, and wherever the      *)
(* timer interrupts them, a live process that is Ready is in the ready      *)
(* queue and only the current one is Running (process.rs: every function    *)
(* that holds SCHEDULER).                                                   *)
THEOREM NobodyFallsBetween == Spec => [](TypeOK /\ ReadyIsQueued)
<1>1. Init => Sound1
  BY SchedInit
<1>2. Sound1 /\ [Next]_vars => Sound1'
  BY SchedNext
<1>3. Sound1 => TypeOK /\ ReadyIsQueued
  BY Sound1Implies
<1> QED BY <1>1, <1>2, <1>3, PTL DEF Spec

(* Without SIGSTOP, which blocks a process for no reason that anybody wakes *)
(* it for, and without exit_process, which ends a child without a word to   *)
(* its parent, a blocked process is where its waker looks: in the wait      *)
(* queue, in the sleep queue, or as the parent of the child it waits for.   *)
THEOREM NobodyIsLost ==
    ASSUME "STOP" \notin Signals, ~UiKill
    PROVE  Spec => []SchedulerSound
<1>1. Init => Sound1 /\ Sound2
  BY SchedInit
<1>2. Sound1 /\ Sound2 /\ [Next]_vars => Sound1' /\ Sound2'
  BY SchedNext
<1>3. Sound1 /\ Sound2 => SchedulerSound
  BY Sound1Implies, Sound2Implies DEF SchedulerSound
<1> QED BY <1>1, <1>2, <1>3, PTL DEF Spec
=============================================================================
