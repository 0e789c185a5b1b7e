----------------------------- MODULE IpcProofs ------------------------------
(* Theorems about the IPC endpoints (Ipc), for any processes, capabilities,  *)
(* number and size of endpoints and size of the interrupt queue.             *)
EXTENDS Ipc, QueueLemmas

(* The types of everything, and which process is where in the kernel.        *)

Msg == [cap : Caps \cup {None}, irq : Nat]
Plain == {"user", "gate", "cspace", "exited"}
OnEndpoint == {"insert", "own", "bind", "wait", "recv", "tryRecv"}
PcType ==
    [at : Plain] \cup [at : OnEndpoint, ep : Ids] \cup [at : {"send"}, ep : Ids, cap : Caps \cup {None}]
      \cup [at : {"deliver"}, ep : Ids, then : {"recv", "tryRecv"}, list : Seq(Nat)]
IpcTypes ==
    /\ ep \in [Ids -> {"unused", "live", "gone"}] /\ owner \in [Ids -> Procs \cup {None}]
    /\ where \in [Caps -> Procs \cup {"message", "given", "closed"}]
    /\ fds \in [Procs -> SUBSET Ids] /\ pc \in [Procs -> PcType]
    /\ asleep \subseteq Procs /\ lockedBy \in Procs \cup {None}
    /\ queue \in [Ids -> Seq(Msg)] /\ waiters \in [Ids -> Seq(Procs)]
    /\ binding \in Ids \cup {None} /\ events \in Seq(Nat) /\ irqs \in Nat
    /\ \A e \in Ids : Len(queue[e]) <= Capacity /\ IsInjective(waiters[e])

LEMMA PcIs ==
    ASSUME NEW v \in PcType
    PROVE  /\ v.at \in Plain \cup OnEndpoint \cup {"send", "deliver"}
           /\ v.at \in OnEndpoint \cup {"send", "deliver"} => v.ep \in Ids
           /\ v.at = "send" => v.cap \in Caps \cup {None}
           /\ v.at = "deliver" => /\ v.then \in {"recv", "tryRecv"} /\ v.list \in Seq(Nat)
                                  /\ v \in [at : {"deliver"}, ep : Ids, then : {"recv", "tryRecv"}, list : Seq(Nat)]
  BY DEF PcType, Plain, OnEndpoint

LEMMA PcOf ==
    /\ \A a \in Plain : [at |-> a] \in PcType
    /\ \A a \in OnEndpoint, e \in Ids : [at |-> a, ep |-> e] \in PcType
    /\ \A e \in Ids, c \in Caps \cup {None} : [at |-> "send", ep |-> e, cap |-> c] \in PcType
    /\ \A e \in Ids, t \in {"recv", "tryRecv"}, s \in Seq(Nat) :
          [at |-> "deliver", ep |-> e, then |-> t, list |-> s] \in PcType
    /\ User \in PcType /\ User.at = "user"
  BY DEF PcType, Plain, OnEndpoint, User

LEMMA Went ==
    ASSUME IpcTypes, NEW p \in Procs, NEW l \in PcType, Goto(p, l)
    PROVE  /\ pc' \in [Procs -> PcType] /\ pc'[p] = l
           /\ \A q \in Procs \ {p} : pc'[q] = pc[q]
  BY DEF IpcTypes, Goto

LEMMA TypesInit == IpcInit => IpcTypes
<1> SUFFICES ASSUME IpcInit PROVE IpcTypes
  OBVIOUS
<1>1. 1 \in Ids /\ Capacity \in Nat
  BY IpcAssumption DEF Ids
<1>2. ep \in [Ids -> {"unused", "live", "gone"}] /\ owner \in [Ids -> Procs \cup {None}]
  BY DEF IpcInit
<1>3. where \in [Caps -> Procs \cup {"message", "given", "closed"}] /\ asleep \subseteq Procs
      /\ lockedBy \in Procs \cup {None} /\ binding \in Ids \cup {None} /\ irqs \in Nat /\ events \in Seq(Nat)
  BY DEF IpcInit
<1>4. fds \in [Procs -> SUBSET Ids]
  BY <1>1 DEF IpcInit
<1>5. pc \in [Procs -> PcType]
  BY PcOf DEF IpcInit
<1>6. queue \in [Ids -> Seq(Msg)] /\ waiters \in [Ids -> Seq(Procs)]
  BY DEF IpcInit
<1>7. ASSUME NEW e \in Ids PROVE Len(queue[e]) <= Capacity /\ IsInjective(waiters[e])
  <2>1. queue[e] = <<>> /\ waiters[e] = <<>>
    BY DEF IpcInit
  <2> QED BY <1>1, <2>1 DEF IsInjective
<1> QED BY <1>2, <1>3, <1>4, <1>5, <1>6, <1>7 DEF IpcTypes

(* The two ways in which the queues change.                                  *)
LEMMA QueueGrows ==
    ASSUME IpcTypes, NEW e \in Ids, NEW m \in Msg, Len(queue[e]) < Capacity,
           queue' = [queue EXCEPT ![e] = Append(@, m)]
    PROVE  /\ queue' \in [Ids -> Seq(Msg)] /\ \A f \in Ids : Len(queue'[f]) <= Capacity
           /\ queue'[e] = Append(queue[e], m) /\ \A f \in Ids \ {e} : queue'[f] = queue[f]
<1>1. PICK q : q = queue[e]
  OBVIOUS
<1>2. PICK r : r = Append(q, m)
  OBVIOUS
<1>3. q \in Seq(Msg) /\ Len(q) < Capacity /\ queue \in [Ids -> Seq(Msg)]
  BY <1>1 DEF IpcTypes
<1>4. r \in Seq(Msg) /\ Len(r) = Len(q) + 1 /\ Len(q) \in Nat
  BY <1>2, <1>3
<1>5. queue' = [queue EXCEPT ![e] = r]
  BY <1>1, <1>2
<1>6. queue' \in [Ids -> Seq(Msg)] /\ queue'[e] = r /\ \A f \in Ids \ {e} : queue'[f] = queue[f]
  BY <1>3, <1>4, <1>5
<1>7. Len(r) <= Capacity
  BY <1>3, <1>4, IpcAssumption
<1> QED BY <1>1, <1>2, <1>6, <1>7 DEF IpcTypes

LEMMA QueueShrinks ==
    ASSUME IpcTypes, NEW e \in Ids, queue[e] # <<>>, queue' = [queue EXCEPT ![e] = Tail(@)]
    PROVE  /\ queue' \in [Ids -> Seq(Msg)] /\ \A f \in Ids : Len(queue'[f]) <= Capacity
           /\ queue'[e] = Tail(queue[e]) /\ \A f \in Ids \ {e} : queue'[f] = queue[f]
           /\ Head(queue[e]) \in Msg
<1>1. PICK q : q = queue[e]
  OBVIOUS
<1>2. PICK r : r = Tail(q)
  OBVIOUS
<1>3. q \in Seq(Msg) /\ Len(q) <= Capacity /\ q # <<>> /\ queue \in [Ids -> Seq(Msg)]
  BY <1>1 DEF IpcTypes
<1>4. r \in Seq(Msg) /\ Len(r) = Len(q) - 1 /\ Len(q) \in Nat /\ Len(q) >= 1 /\ Head(q) \in Msg
  BY <1>2, <1>3
<1>5. queue' = [queue EXCEPT ![e] = r]
  BY <1>1, <1>2
<1>6. queue' \in [Ids -> Seq(Msg)] /\ queue'[e] = r /\ \A f \in Ids \ {e} : queue'[f] = queue[f]
  BY <1>3, <1>4, <1>5
<1>7. Len(r) <= Capacity
  BY <1>3, <1>4, IpcAssumption
<1> QED BY <1>1, <1>2, <1>4, <1>6, <1>7 DEF IpcTypes

-----------------------------------------------------------------------------
(* Sleepers.  Who is in the queue of an endpoint sleeps on it and on nothing *)
(* else: so waking the first takes no other sleeper's entry, and whoever     *)
(* goes to sleep is not in the queue yet.                                    *)

WaitsOn(p, e) == pc[p].at = "wait" /\ pc[p].ep = e /\ p \in asleep
WaitersSleep == \A e \in Ids : \A p \in ToSet(waiters[e]) : WaitsOn(p, e)
SleepInv == WaitersSleep /\ SleeperIsReachable

LEMMA WaitersAre ==
    ASSUME IpcTypes, NEW e \in Ids
    PROVE  waiters[e] \in Seq(Procs) /\ ToSet(waiters[e]) \subseteq Procs
<1>1. waiters[e] \in Seq(Procs)
  BY DEF IpcTypes
<1> QED BY <1>1, Elements

LEMMA NotInQueue ==
    ASSUME IpcTypes, SleepInv, NEW p \in Procs, ~(pc[p].at = "wait" /\ p \in asleep)
    PROVE  \A e \in Ids : p \notin ToSet(waiters[e])
  BY DEF SleepInv, WaitersSleep, WaitsOn

LEMMA SleepFrame ==
    ASSUME IpcTypes, SleepInv, waiters' = waiters, \A e \in Ids : ep[e] = "live" => ep'[e] = "live",
           \A q \in Procs : \/ pc'[q] = pc[q] /\ (q \in asleep' <=> q \in asleep)
                            \/ ~(pc[q].at = "wait" /\ q \in asleep) /\ pc'[q].at # "wait"
    PROVE  SleepInv'
<1>1. WaitersSleep'
  <2> SUFFICES ASSUME NEW e \in Ids, NEW p \in ToSet(waiters[e]) PROVE WaitsOn(p, e)'
    BY DEF WaitersSleep
  <2>1. p \in Procs /\ WaitsOn(p, e)
    BY WaitersAre DEF SleepInv, WaitersSleep
  <2> QED BY <2>1 DEF WaitsOn
<1>2. SleeperIsReachable'
  <2> SUFFICES ASSUME NEW p \in Procs, pc'[p].at = "wait", p \in asleep'
               PROVE  ep'[pc'[p].ep] = "live" /\ p \in ToSet(waiters'[pc'[p].ep])
    BY DEF SleeperIsReachable
  <2>1. pc'[p] = pc[p] /\ p \in asleep
    OBVIOUS
  <2>2. pc[p].ep \in Ids
    <3>1. pc[p] \in PcType /\ pc[p].at = "wait"
      BY <2>1 DEF IpcTypes
    <3> QED BY <3>1, PcIs DEF OnEndpoint
  <2> QED BY <2>1, <2>2 DEF SleepInv, SleeperIsReachable
<1> QED BY <1>1, <1>2 DEF SleepInv

(* What wake_one does to the queue it looks at.                              *)
LEMMA Woken ==
    ASSUME IpcTypes, NEW e \in Ids, WakeReceiver(e)
    PROVE  /\ waiters' \in [Ids -> Seq(Procs)] /\ asleep' \subseteq Procs
           /\ \A f \in Ids : IsInjective(waiters'[f])
           /\ \/ waiters' = waiters /\ asleep' = asleep
              \/ \E h \in ToSet(waiters[e]) :
                   /\ asleep' = asleep \ {h} /\ ToSet(waiters'[e]) = ToSet(waiters[e]) \ {h}
                   /\ \A f \in Ids \ {e} : waiters'[f] = waiters[f]
<1>1. CASE waiters[e] = <<>>
  BY <1>1 DEF WakeReceiver, IpcTypes
<1>2. CASE waiters[e] # <<>>
  <2>1. PICK s : s = waiters[e]
    OBVIOUS
  <2>2. PICK t : t = Tail(s)
    OBVIOUS
  <2>3. PICK h : h = Head(s)
    OBVIOUS
  <2>4. s \in Seq(Procs) /\ s # <<>> /\ IsInjective(s) /\ waiters \in [Ids -> Seq(Procs)] /\ asleep \subseteq Procs
        /\ \A f \in Ids : IsInjective(waiters[f])
    BY <1>2, <2>1 DEF IpcTypes
  <2>5. t \in Seq(Procs) /\ IsInjective(t) /\ ToSet(t) = ToSet(s) \ {h} /\ h \in ToSet(s)
    BY <2>2, <2>3, <2>4, HeadTaken
  <2>6. waiters' = [waiters EXCEPT ![e] = t] /\ asleep' = asleep \ {h}
    BY <1>2, <2>1, <2>2, <2>3 DEF WakeReceiver
  <2>7. waiters' \in [Ids -> Seq(Procs)] /\ waiters'[e] = t /\ \A f \in Ids \ {e} : waiters'[f] = waiters[f]
    BY <2>4, <2>5, <2>6
  <2>8. \A f \in Ids : IsInjective(waiters'[f])
    <3> SUFFICES ASSUME NEW f \in Ids PROVE IsInjective(waiters'[f])
      OBVIOUS
    <3> QED BY <2>4, <2>5, <2>7
  <2> QED BY <2>1, <2>4, <2>5, <2>6, <2>7, <2>8
<1> QED BY <1>1, <1>2

LEMMA SleepWake ==
    ASSUME IpcTypes, SleepInv, NEW e \in Ids, WakeReceiver(e), ep' = ep,
           \A q \in Procs : \/ pc'[q] = pc[q]
                            \/ pc[q].at # "wait" /\ pc'[q].at # "wait"
    PROVE  SleepInv'
<1>1. CASE waiters' = waiters /\ asleep' = asleep
  BY <1>1, SleepFrame
<1>2. ASSUME NEW h \in ToSet(waiters[e]), asleep' = asleep \ {h}, ToSet(waiters'[e]) = ToSet(waiters[e]) \ {h},
             \A f \in Ids \ {e} : waiters'[f] = waiters[f]
      PROVE  SleepInv'
  <2>1. h \in Procs /\ WaitsOn(h, e)
    BY WaitersAre DEF SleepInv, WaitersSleep
  <2>2. WaitersSleep'
    <3> SUFFICES ASSUME NEW f \in Ids, NEW p \in ToSet(waiters'[f]) PROVE WaitsOn(p, f)'
      BY DEF WaitersSleep
    <3>1. p \in ToSet(waiters[f]) /\ (f = e => p # h)
      BY <1>2
    <3>2. p \in Procs /\ WaitsOn(p, f)
      BY <3>1, WaitersAre DEF SleepInv, WaitersSleep
    <3>3. p # h
      BY <2>1, <3>1, <3>2 DEF WaitsOn
    <3> QED BY <3>2, <3>3, <1>2 DEF WaitsOn
  <2>3. SleeperIsReachable'
    <3> SUFFICES ASSUME NEW p \in Procs, pc'[p].at = "wait", p \in asleep'
                 PROVE  ep'[pc'[p].ep] = "live" /\ p \in ToSet(waiters'[pc'[p].ep])
      BY DEF SleeperIsReachable
    <3>1. PICK f : f = pc[p].ep
      OBVIOUS
    <3>2. pc'[p] = pc[p] /\ p \in asleep /\ p # h
      BY <1>2
    <3>3. f \in Ids
      <4>1. pc[p] \in PcType /\ pc[p].at = "wait"
        BY <3>2 DEF IpcTypes
      <4> QED BY <3>1, <4>1, PcIs DEF OnEndpoint
    <3>4. ep[f] = "live" /\ p \in ToSet(waiters[f])
      BY <3>1, <3>2 DEF SleepInv, SleeperIsReachable
    <3>5. p \in ToSet(waiters'[f])
      BY <3>2, <3>3, <3>4, <1>2
    <3> QED BY <3>1, <3>2, <3>4, <3>5
  <2> QED BY <2>2, <2>3 DEF SleepInv
<1> QED BY <1>1, <1>2, Woken

(* Going to sleep on a live endpoint.                                        *)
LEMMA SleepsOn ==
    ASSUME IpcTypes, SleepInv, NEW p \in Procs, NEW e \in Ids, ep[e] = "live", ep' = ep,
           ~(pc[p].at = "wait" /\ p \in asleep),
           waiters' = [waiters EXCEPT ![e] = Append(@, p)], asleep' = asleep \cup {p},
           Goto(p, [at |-> "wait", ep |-> e])
    PROVE  /\ waiters' \in [Ids -> Seq(Procs)] /\ \A f \in Ids : IsInjective(waiters'[f])
           /\ pc' \in [Procs -> PcType] /\ SleepInv'
<1>1. PICK s : s = waiters[e]
  OBVIOUS
<1>2. PICK t : t = Append(s, p)
  OBVIOUS
<1>3. s \in Seq(Procs) /\ IsInjective(s) /\ waiters \in [Ids -> Seq(Procs)] /\ \A f \in Ids : IsInjective(waiters[f])
  BY <1>1 DEF IpcTypes
<1>4. \A f \in Ids : p \notin ToSet(waiters[f])
  BY NotInQueue
<1>5. t \in Seq(Procs) /\ IsInjective(t) /\ ToSet(t) = ToSet(s) \cup {p}
  <2>1. p \notin ToSet(s)
    BY <1>1, <1>4
  <2> QED BY <1>2, <1>3, <2>1, Appended
<1>6. waiters' = [waiters EXCEPT ![e] = t]
  BY <1>1, <1>2
<1>7. waiters' \in [Ids -> Seq(Procs)] /\ waiters'[e] = t /\ \A f \in Ids \ {e} : waiters'[f] = waiters[f]
  BY <1>3, <1>5, <1>6
<1>8. \A f \in Ids : IsInjective(waiters'[f])
  <2> SUFFICES ASSUME NEW f \in Ids PROVE IsInjective(waiters'[f])
    OBVIOUS
  <2> QED BY <1>3, <1>5, <1>7
<1>9. PICK l : l = [at |-> "wait", ep |-> e]
  OBVIOUS
<1>10. l \in PcType /\ l.at = "wait" /\ l.ep = e
  <2>1. "wait" \in OnEndpoint
    BY DEF OnEndpoint
  <2> QED BY <1>9, <2>1, PcOf
<1>11. pc' \in [Procs -> PcType] /\ pc'[p] = l /\ \A q \in Procs \ {p} : pc'[q] = pc[q]
  BY <1>9, <1>10, Went
<1>12. WaitersSleep'
  <2> SUFFICES ASSUME NEW f \in Ids, NEW q \in ToSet(waiters'[f]) PROVE WaitsOn(q, f)'
    BY DEF WaitersSleep
  <2>1. CASE q = p
    <3>1. f = e
      BY <2>1, <1>4, <1>7
    <3> QED BY <2>1, <3>1, <1>10, <1>11 DEF WaitsOn
  <2>2. CASE q # p
    <3>1. q \in ToSet(waiters[f])
      BY <2>2, <1>1, <1>5, <1>7
    <3>2. q \in Procs /\ WaitsOn(q, f)
      BY <3>1, WaitersAre DEF SleepInv, WaitersSleep
    <3> QED BY <2>2, <3>2, <1>11 DEF WaitsOn
  <2> QED BY <2>1, <2>2
<1>13. SleeperIsReachable'
  <2> SUFFICES ASSUME NEW q \in Procs, pc'[q].at = "wait", q \in asleep'
               PROVE  ep'[pc'[q].ep] = "live" /\ q \in ToSet(waiters'[pc'[q].ep])
    BY DEF SleeperIsReachable
  <2>1. CASE q = p
    BY <2>1, <1>5, <1>7, <1>10, <1>11
  <2>2. CASE q # p
    <3>1. PICK f : f = pc[q].ep
      OBVIOUS
    <3>2. pc'[q] = pc[q] /\ q \in asleep
      BY <2>2, <1>11
    <3>3. f \in Ids
      <4>1. pc[q] \in PcType /\ pc[q].at = "wait"
        BY <3>2 DEF IpcTypes
      <4> QED BY <3>1, <4>1, PcIs DEF OnEndpoint
    <3>4. ep[f] = "live" /\ q \in ToSet(waiters[f])
      BY <3>1, <3>2 DEF SleepInv, SleeperIsReachable
    <3>5. q \in ToSet(waiters'[f])
      BY <3>3, <3>4, <1>1, <1>5, <1>7
    <3> QED BY <3>1, <3>2, <3>4, <3>5
  <2> QED BY <2>1, <2>2
<1> QED BY <1>7, <1>8, <1>11, <1>12, <1>13 DEF SleepInv

(* A step of a process that is not a wait, a send or a receive.              *)
LEMMA PlainStep ==
    ASSUME IpcTypes, SleepInv, NEW p \in Procs, NEW l \in PcType, l.at # "wait", pc[p].at # "wait", Goto(p, l),
           UNCHANGED <<queue, waiters, asleep, lockedBy, where, irqs>>,
           ep' \in [Ids -> {"unused", "live", "gone"}], \A e \in Ids : ep[e] = "live" => ep'[e] = "live",
           owner' \in [Ids -> Procs \cup {None}], fds' \in [Procs -> SUBSET Ids],
           binding' \in Ids \cup {None}, events' \in Seq(Nat)
    PROVE  IpcTypes' /\ SleepInv'
<1>1. pc' \in [Procs -> PcType] /\ pc'[p] = l /\ \A q \in Procs \ {p} : pc'[q] = pc[q]
  BY Went
<1>2. IpcTypes'
  BY <1>1 DEF IpcTypes
<1>3. \A q \in Procs : \/ pc'[q] = pc[q] /\ (q \in asleep' <=> q \in asleep)
                       \/ ~(pc[q].at = "wait" /\ q \in asleep) /\ pc'[q].at # "wait"
  BY <1>1
<1>4. SleepInv'
  BY <1>3, SleepFrame
<1> QED BY <1>2, <1>4

LEMMA PcNow ==
    ASSUME IpcTypes, NEW p \in Procs
    PROVE  /\ pc[p] \in PcType
           /\ pc[p].at \in OnEndpoint \cup {"send", "deliver"} => pc[p].ep \in Ids
           /\ pc[p].at = "deliver" => pc[p].then \in {"recv", "tryRecv"} /\ pc[p].list \in Seq(Nat)
<1>1. pc[p] \in PcType
  BY DEF IpcTypes
<1> QED BY <1>1, PcIs

LEMMA StepCreate ==
    ASSUME IpcTypes, SleepInv, NEW p \in Procs, NEW e \in Ids, CreateRawEndpoint(p, e)
    PROVE  IpcTypes' /\ SleepInv'
<1>1. PICK l : l = [at |-> "insert", ep |-> e]
  OBVIOUS
<1>2. l \in PcType /\ l.at # "wait"
  <2>1. "insert" \in OnEndpoint
    BY DEF OnEndpoint
  <2> QED BY <1>1, <2>1, PcOf
<1>3. /\ pc[p] = User /\ ep' = [ep EXCEPT ![e] = "live"] /\ Goto(p, l)
      /\ UNCHANGED <<queue, waiters, asleep, lockedBy, where, irqs, owner, fds, binding, events>>
  BY <1>1 DEF CreateRawEndpoint, Calls, irqVars
<1>4. pc[p].at # "wait"
  BY <1>3, PcOf
<1>5. ep' \in [Ids -> {"unused", "live", "gone"}] /\ \A f \in Ids : ep[f] = "live" => ep'[f] = "live"
  BY <1>3 DEF IpcTypes
<1>6. owner' \in [Ids -> Procs \cup {None}] /\ fds' \in [Procs -> SUBSET Ids]
      /\ binding' \in Ids \cup {None} /\ events' \in Seq(Nat)
  BY <1>3 DEF IpcTypes
<1> QED BY <1>2, <1>3, <1>4, <1>5, <1>6, PlainStep

LEMMA StepInsert ==
    ASSUME IpcTypes, SleepInv, NEW p \in Procs, InsertDescriptor(p)
    PROVE  IpcTypes' /\ SleepInv'
<1>1. PICK e : e = pc[p].ep
  OBVIOUS
<1>2. e \in Ids /\ pc[p].at = "insert"
  BY <1>1, PcNow DEF InsertDescriptor, OnEndpoint
<1>3. UNCHANGED <<queue, waiters, asleep, lockedBy, where, irqs, ep, owner, binding, events>>
  BY DEF InsertDescriptor, irqVars
<1>4. \E l \in PcType : Goto(p, l) /\ l.at # "wait"
  <2>1. CASE e \in files[p]
    BY <2>1, <1>1, PcOf DEF InsertDescriptor
  <2>2. CASE e \notin files[p]
    <3>1. PICK l : l = [at |-> "own", ep |-> e]
      OBVIOUS
    <3>2. l \in PcType /\ l.at # "wait"
      <4>1. "own" \in OnEndpoint
        BY DEF OnEndpoint
      <4> QED BY <1>2, <3>1, <4>1, PcOf
    <3>3. Goto(p, l)
      BY <2>2, <1>1, <3>1 DEF InsertDescriptor
    <3> QED BY <3>2, <3>3
  <2> QED BY <2>1, <2>2
<1>5. fds' \in [Procs -> SUBSET Ids]
  <2>1. fds' = fds \/ fds' = [fds EXCEPT ![p] = @ \cup {e}]
    BY <1>1 DEF InsertDescriptor
  <2>2. fds \in [Procs -> SUBSET Ids]
    BY DEF IpcTypes
  <2> QED BY <1>2, <2>1, <2>2
<1>6. ep' \in [Ids -> {"unused", "live", "gone"}] /\ owner' \in [Ids -> Procs \cup {None}]
      /\ binding' \in Ids \cup {None} /\ events' \in Seq(Nat)
  BY <1>3 DEF IpcTypes
<1> QED BY <1>2, <1>3, <1>4, <1>5, <1>6, PlainStep

LEMMA StepRegister ==
    ASSUME IpcTypes, SleepInv, NEW p \in Procs, RegisterEndpointOwner(p)
    PROVE  IpcTypes' /\ SleepInv'
<1>1. pc[p].at = "own" /\ pc[p].ep \in Ids /\ User \in PcType /\ User.at # "wait"
  BY PcNow, PcOf DEF RegisterEndpointOwner, OnEndpoint
<1>2. /\ owner' = [owner EXCEPT ![pc[p].ep] = p] /\ Goto(p, User)
      /\ UNCHANGED <<queue, waiters, asleep, lockedBy, where, irqs, ep, fds, binding, events>>
  BY DEF RegisterEndpointOwner, irqVars
<1>3. owner' \in [Ids -> Procs \cup {None}]
  BY <1>1, <1>2 DEF IpcTypes
<1>4. ep' \in [Ids -> {"unused", "live", "gone"}] /\ fds' \in [Procs -> SUBSET Ids]
      /\ binding' \in Ids \cup {None} /\ events' \in Seq(Nat)
  BY <1>2 DEF IpcTypes
<1> QED BY <1>1, <1>2, <1>3, <1>4, PlainStep

LEMMA StepBind ==
    ASSUME IpcTypes, SleepInv, NEW p \in Procs,
           BindInsert(p) \/ BindOpenGate(p) \/ \E e \in Ids : BindLookup(p, e)
    PROVE  IpcTypes' /\ SleepInv'
<1>1. UNCHANGED <<queue, waiters, asleep, lockedBy, where, irqs, ep, owner, fds, events>>
  BY DEF BindLookup, BindInsert, BindOpenGate, epVars, irqVars
<1>2. ep' \in [Ids -> {"unused", "live", "gone"}] /\ owner' \in [Ids -> Procs \cup {None}]
      /\ fds' \in [Procs -> SUBSET Ids] /\ events' \in Seq(Nat)
  BY <1>1 DEF IpcTypes
<1>3. "gate" \in Plain /\ "bind" \in OnEndpoint /\ "gate" # "wait" /\ "bind" # "wait"
  BY DEF Plain, OnEndpoint
<1>4. pc[p].at # "wait" /\ binding' \in Ids \cup {None}
  <2>1. CASE \E e \in Ids : BindLookup(p, e)
    <3>1. pc[p] = User /\ binding' = binding
      BY <2>1 DEF BindLookup, Calls, irqVars
    <3> QED BY <3>1, PcOf DEF IpcTypes
  <2>2. CASE BindInsert(p)
    <3>1. pc[p].at = "bind" /\ binding' = pc[p].ep
      BY <2>2 DEF BindInsert
    <3> QED BY <3>1, PcNow DEF OnEndpoint
  <2>3. CASE BindOpenGate(p)
    BY <2>3 DEF BindOpenGate, IpcTypes
  <2> QED BY <2>1, <2>2, <2>3
<1>5. \E l \in PcType : Goto(p, l) /\ l.at # "wait"
  <2>1. ASSUME NEW e \in Ids, BindLookup(p, e) PROVE \E l \in PcType : Goto(p, l) /\ l.at # "wait"
    <3>1. PICK l : l = [at |-> "bind", ep |-> e]
      OBVIOUS
    <3>2. l \in PcType /\ l.at = "bind" /\ Goto(p, l)
      BY <2>1, <3>1, <1>3, PcOf DEF BindLookup
    <3> QED BY <3>2, <1>3
  <2>2. CASE BindInsert(p)
    <3>1. PICK l : l = [at |-> "gate"]
      OBVIOUS
    <3>2. l \in PcType /\ l.at = "gate" /\ Goto(p, l)
      BY <2>2, <3>1, <1>3, PcOf DEF BindInsert
    <3> QED BY <3>2, <1>3
  <2>3. CASE BindOpenGate(p)
    BY <2>3, PcOf DEF BindOpenGate
  <2> QED BY <2>1, <2>2, <2>3
<1> QED BY <1>1, <1>2, <1>4, <1>5, PlainStep

LEMMA StepDrain ==
    ASSUME IpcTypes, SleepInv, NEW p \in Procs, NEW e \in Ids, NEW call \in {"recv", "tryRecv"},
           DrainEvents(p, e, call)
    PROVE  IpcTypes' /\ SleepInv'
<1>1. PICK l : l = [at |-> "deliver", ep |-> e, then |-> call, list |-> events]
  OBVIOUS
<1>2. events \in Seq(Nat)
  BY DEF IpcTypes
<1>3. l \in PcType /\ l.at = "deliver"
  BY <1>1, <1>2, PcOf
<1>4. /\ pc[p] = User /\ events' = <<>> /\ Goto(p, l)
      /\ UNCHANGED <<queue, waiters, asleep, lockedBy, where, irqs, ep, owner, fds, binding>>
  BY <1>1 DEF DrainEvents, Calls, epVars
<1>5. pc[p].at # "wait" /\ l.at # "wait" /\ events' \in Seq(Nat)
  BY <1>3, <1>4, PcOf
<1>6. ep' \in [Ids -> {"unused", "live", "gone"}] /\ owner' \in [Ids -> Procs \cup {None}]
      /\ fds' \in [Procs -> SUBSET Ids] /\ binding' \in Ids \cup {None}
  BY <1>4 DEF IpcTypes
<1> QED BY <1>3, <1>4, <1>5, <1>6, PlainStep

LEMMA StepDeliverEnds ==
    ASSUME IpcTypes, SleepInv, NEW p \in Procs, DeliverEnds(p)
    PROVE  IpcTypes' /\ SleepInv'
<1>1. PICK l : l = [at |-> pc[p].then, ep |-> pc[p].ep]
  OBVIOUS
<1>2. pc[p].at = "deliver" /\ pc[p].ep \in Ids /\ pc[p].then \in {"recv", "tryRecv"}
  BY PcNow DEF DeliverEnds
<1>3. l \in PcType /\ l.at \in {"recv", "tryRecv"}
  <2>1. pc[p].then \in OnEndpoint
    BY <1>2 DEF OnEndpoint
  <2> QED BY <1>1, <1>2, <2>1, PcOf
<1>4. Goto(p, l) /\ UNCHANGED <<queue, waiters, asleep, lockedBy, where, irqs, ep, owner, fds, binding, events>>
  BY <1>1 DEF DeliverEnds, epVars, irqVars
<1>5. pc[p].at # "wait" /\ l.at # "wait"
  BY <1>2, <1>3
<1>6. ep' \in [Ids -> {"unused", "live", "gone"}] /\ owner' \in [Ids -> Procs \cup {None}]
      /\ fds' \in [Procs -> SUBSET Ids] /\ binding' \in Ids \cup {None} /\ events' \in Seq(Nat)
  BY <1>4 DEF IpcTypes
<1> QED BY <1>3, <1>4, <1>5, <1>6, PlainStep

LEMMA StepIrqEvent ==
    ASSUME IpcTypes, SleepInv, IrqEvent
    PROVE  IpcTypes' /\ SleepInv'
<1>1. UNCHANGED <<ep, owner, fds, queue, waiters, where, pc, asleep, lockedBy, binding>>
  BY DEF IrqEvent, epVars
<1>2. irqs' \in Nat /\ events' \in Seq(Nat)
  <2>1. irqs \in Nat /\ events \in Seq(Nat) /\ irqs' = irqs + 1
    BY DEF IpcTypes, IrqEvent
  <2>2. irqs + 1 \in Nat
    BY <2>1
  <2>3. Append(events, irqs + 1) \in Seq(Nat)
    BY <2>1, <2>2
  <2>4. events' \in {events, Append(events, irqs + 1)}
    BY DEF IrqEvent
  <2> QED BY <2>1, <2>2, <2>3, <2>4
<1>3. IpcTypes'
  BY <1>1, <1>2 DEF IpcTypes
<1>4. SleepInv'
  BY <1>1, SleepFrame
<1> QED BY <1>3, <1>4

LEMMA StepCloses ==
    ASSUME IpcTypes, SleepInv, NEW p \in Procs, NEW e \in Ids, SysIpcCancel(p, e) \/ CloseDescriptor(p, e)
    PROVE  IpcTypes' /\ SleepInv'
<1>1. UNCHANGED <<ep, owner, waiters, pc, asleep, lockedBy, binding, events, irqs>>
  BY DEF SysIpcCancel, CloseDescriptor, epVars, irqVars
<1>2. SleepInv'
  BY <1>1, SleepFrame
<1>3. CASE CloseDescriptor(p, e)
  <2>1. fds' \in [Procs -> SUBSET Ids] /\ UNCHANGED <<queue, where>>
    BY <1>3 DEF CloseDescriptor, IpcTypes
  <2> QED BY <1>1, <1>2, <2>1 DEF IpcTypes
<1>4. CASE SysIpcCancel(p, e)
  <2>1. fds' = fds /\ queue' = [queue EXCEPT ![e] = <<>>]
    BY <1>4 DEF SysIpcCancel, CancelEndpoint, epVars
  <2>2. where' \in [Caps -> Procs \cup {"message", "given", "closed"}]
    BY <1>4 DEF SysIpcCancel, CancelEndpoint, CloseAttached, IpcTypes
  <2>3. queue' \in [Ids -> Seq(Msg)] /\ \A f \in Ids : queue'[f] = queue[f] \/ queue'[f] = <<>>
    BY <2>1 DEF IpcTypes
  <2>4. \A f \in Ids : Len(queue'[f]) <= Capacity
    <3> SUFFICES ASSUME NEW f \in Ids PROVE Len(queue'[f]) <= Capacity
      OBVIOUS
    <3> QED BY <2>3, IpcAssumption DEF IpcTypes
  <2>5. IpcTypes'
    BY <1>1, <2>1, <2>2, <2>3, <2>4 DEF IpcTypes
  <2> QED BY <1>2, <2>5
<1> QED BY <1>3, <1>4

(* The calls that touch the queues.                                          *)
LEMMA StepSend ==
    ASSUME IpcTypes, SleepInv, NEW p \in Procs, NEW e \in Ids, NEW c \in Caps \cup {None},
           NEW mode \in {"Transfer", "Lend"}, SysIpcSend(p, e, c, mode)
    PROVE  IpcTypes' /\ SleepInv'
<1>1. /\ pc[p] = User /\ ep[e] = "live" /\ Attach(c, mode) /\ RawIpcSend(p, e, c)
      /\ UNCHANGED <<ep, owner, fds, binding, events, irqs>>
  BY DEF SysIpcSend, Calls, epVars, irqVars
<1>2. where' \in [Caps -> Procs \cup {"message", "given", "closed"}]
  BY <1>1 DEF Attach, IpcTypes
<1>3. pc[p].at = "user"
  BY <1>1, PcOf
<1>4. CASE Len(queue[e]) < Capacity
  <2>1. PICK m : m = Message(c, 0)
    OBVIOUS
  <2>2. m \in Msg
    BY <2>1 DEF Message, Msg
  <2>3. queue' = [queue EXCEPT ![e] = Append(@, m)] /\ WakeReceiver(e) /\ pc' = pc /\ lockedBy' = lockedBy
    BY <1>1, <1>4, <2>1 DEF RawIpcSend
  <2>4. queue' \in [Ids -> Seq(Msg)] /\ \A f \in Ids : Len(queue'[f]) <= Capacity
    BY <1>4, <2>2, <2>3, QueueGrows
  <2>5. waiters' \in [Ids -> Seq(Procs)] /\ asleep' \subseteq Procs /\ \A f \in Ids : IsInjective(waiters'[f])
    BY <2>3, Woken
  <2>6. IpcTypes'
    BY <1>1, <1>2, <2>3, <2>4, <2>5 DEF IpcTypes
  <2>7. SleepInv'
    BY <1>1, <2>3, SleepWake
  <2> QED BY <2>6, <2>7
<1>5. CASE ~(Len(queue[e]) < Capacity)
  <2>1. PICK l : l = [at |-> "send", ep |-> e, cap |-> c]
    OBVIOUS
  <2>2. l \in PcType /\ l.at = "send"
    BY <2>1, PcOf
  <2>3. Goto(p, l) /\ asleep' = asleep \cup {p} /\ lockedBy' = p /\ queue' = queue /\ waiters' = waiters
    BY <1>1, <1>5, <2>1 DEF RawIpcSend
  <2>4. pc' \in [Procs -> PcType] /\ pc'[p] = l /\ \A q \in Procs \ {p} : pc'[q] = pc[q]
    BY <2>2, <2>3, Went
  <2>5. IpcTypes'
    BY <1>1, <1>2, <2>3, <2>4 DEF IpcTypes
  <2>6. \A q \in Procs : \/ pc'[q] = pc[q] /\ (q \in asleep' <=> q \in asleep)
                         \/ ~(pc[q].at = "wait" /\ q \in asleep) /\ pc'[q].at # "wait"
    BY <1>3, <2>2, <2>3, <2>4
  <2>7. SleepInv'
    BY <1>1, <2>3, <2>6, SleepFrame
  <2> QED BY <2>5, <2>7
<1> QED BY <1>4, <1>5

LEMMA DeliveredTypes ==
    ASSUME IpcTypes, NEW m \in Msg, Delivered(m)
    PROVE  where' \in [Caps -> Procs \cup {"message", "given", "closed"}]
<1>1. m.cap \in Caps \cup {None}
  BY DEF Msg
<1> QED BY <1>1 DEF Delivered, IpcTypes

LEMMA StepTakeOrSleep ==
    ASSUME IpcTypes, SleepInv, NEW p \in Procs, NEW e \in Ids, ep[e] = "live", TakeOrSleep(p, e),
           ~(pc[p].at = "wait" /\ p \in asleep), UNCHANGED <<epVars, lockedBy, irqVars, sends>>
    PROVE  IpcTypes' /\ SleepInv'
<1>1. UNCHANGED <<ep, owner, fds, lockedBy, binding, events, irqs>>
  BY DEF epVars, irqVars
<1>2. CASE queue[e] # <<>>
  <2>1. /\ Delivered(Head(queue[e])) /\ queue' = [queue EXCEPT ![e] = Tail(@)] /\ Goto(p, User)
        /\ waiters' = waiters /\ asleep' = asleep
    BY <1>2 DEF TakeOrSleep
  <2>2. queue' \in [Ids -> Seq(Msg)] /\ (\A f \in Ids : Len(queue'[f]) <= Capacity) /\ Head(queue[e]) \in Msg
    BY <1>2, <2>1, QueueShrinks
  <2>3. where' \in [Caps -> Procs \cup {"message", "given", "closed"}]
    BY <2>1, <2>2, DeliveredTypes
  <2>4. User \in PcType /\ User.at # "wait"
    BY PcOf
  <2>5. pc' \in [Procs -> PcType] /\ pc'[p] = User /\ \A q \in Procs \ {p} : pc'[q] = pc[q]
    BY <2>1, <2>4, Went
  <2>6. IpcTypes'
    BY <1>1, <2>1, <2>2, <2>3, <2>5 DEF IpcTypes
  <2>7. \A q \in Procs : \/ pc'[q] = pc[q] /\ (q \in asleep' <=> q \in asleep)
                         \/ ~(pc[q].at = "wait" /\ q \in asleep) /\ pc'[q].at # "wait"
    BY <2>1, <2>4, <2>5
  <2>8. SleepInv'
    BY <1>1, <2>1, <2>7, SleepFrame
  <2> QED BY <2>6, <2>8
<1>3. CASE queue[e] = <<>>
  <2>1. /\ waiters' = [waiters EXCEPT ![e] = Append(@, p)] /\ asleep' = asleep \cup {p}
        /\ Goto(p, [at |-> "wait", ep |-> e]) /\ queue' = queue /\ where' = where
    BY <1>3 DEF TakeOrSleep
  <2>2. /\ waiters' \in [Ids -> Seq(Procs)] /\ \A f \in Ids : IsInjective(waiters'[f])
        /\ pc' \in [Procs -> PcType] /\ SleepInv'
    BY <1>1, <2>1, SleepsOn
  <2>3. IpcTypes'
    BY <1>1, <2>1, <2>2 DEF IpcTypes
  <2> QED BY <2>2, <2>3
<1> QED BY <1>2, <1>3

LEMMA StepRecv ==
    ASSUME IpcTypes, SleepInv, NEW p \in Procs, SysIpcRecv(p) \/ RawIpcRecvWoken(p)
    PROVE  IpcTypes' /\ SleepInv'
<1>1. PICK e : e = pc[p].ep
  OBVIOUS
<1>2. e \in Ids /\ pc[p].at \in {"recv", "wait"} /\ ~(pc[p].at = "wait" /\ p \in asleep)
  BY <1>1, PcNow DEF SysIpcRecv, RawIpcRecvWoken, OnEndpoint
<1>3. UNCHANGED <<epVars, lockedBy, irqVars, sends>>
  BY DEF SysIpcRecv, RawIpcRecvWoken
<1>4. \/ ep[e] = "live" /\ TakeOrSleep(p, e)
      \/ Goto(p, User) /\ UNCHANGED <<queue, waiters, asleep, where>>
  BY <1>1 DEF SysIpcRecv, RawIpcRecvWoken
<1>5. CASE ep[e] = "live" /\ TakeOrSleep(p, e)
  BY <1>2, <1>3, <1>5, StepTakeOrSleep
<1>6. CASE Goto(p, User) /\ UNCHANGED <<queue, waiters, asleep, where>>
  <2>1. User \in PcType /\ User.at # "wait"
    BY PcOf
  <2>2. pc' \in [Procs -> PcType] /\ pc'[p] = User /\ \A q \in Procs \ {p} : pc'[q] = pc[q]
    BY <1>6, <2>1, Went
  <2>3. UNCHANGED <<ep, owner, fds, lockedBy, binding, events, irqs, queue, waiters, asleep, where>>
    BY <1>3, <1>6 DEF epVars, irqVars
  <2>4. IpcTypes'
    BY <2>2, <2>3 DEF IpcTypes
  <2>5. \A q \in Procs : \/ pc'[q] = pc[q] /\ (q \in asleep' <=> q \in asleep)
                         \/ ~(pc[q].at = "wait" /\ q \in asleep) /\ pc'[q].at # "wait"
    BY <1>2, <2>1, <2>2, <2>3
  <2>6. SleepInv'
    BY <2>3, <2>5, SleepFrame
  <2> QED BY <2>4, <2>6
<1> QED BY <1>4, <1>5, <1>6

LEMMA StepTryRecv ==
    ASSUME IpcTypes, SleepInv, NEW p \in Procs, SysIpcTryRecv(p)
    PROVE  IpcTypes' /\ SleepInv'
<1>1. PICK e : e = pc[p].ep
  OBVIOUS
<1>2. e \in Ids /\ pc[p].at = "tryRecv"
  BY <1>1, PcNow DEF SysIpcTryRecv, OnEndpoint
<1>3. /\ RawIpcTryRecv(p, e) /\ Goto(p, User)
      /\ UNCHANGED <<ep, owner, fds, lockedBy, binding, events, irqs, waiters, asleep>>
  BY <1>1 DEF SysIpcTryRecv, epVars, irqVars
<1>4. /\ queue' \in [Ids -> Seq(Msg)] /\ \A f \in Ids : Len(queue'[f]) <= Capacity
      /\ where' \in [Caps -> Procs \cup {"message", "given", "closed"}]
  <2>1. CASE queue' = queue /\ where' = where
    BY <2>1 DEF IpcTypes
  <2>2. CASE queue[e] # <<>> /\ Delivered(Head(queue[e])) /\ queue' = [queue EXCEPT ![e] = Tail(@)]
    <3>1. queue' \in [Ids -> Seq(Msg)] /\ (\A f \in Ids : Len(queue'[f]) <= Capacity) /\ Head(queue[e]) \in Msg
      BY <1>2, <2>2, QueueShrinks
    <3> QED BY <2>2, <3>1, DeliveredTypes
  <2> QED BY <1>3, <2>1, <2>2 DEF RawIpcTryRecv
<1>5. User \in PcType /\ User.at # "wait"
  BY PcOf
<1>6. pc' \in [Procs -> PcType] /\ pc'[p] = User /\ \A q \in Procs \ {p} : pc'[q] = pc[q]
  BY <1>3, <1>5, Went
<1>7. IpcTypes'
  BY <1>3, <1>4, <1>6 DEF IpcTypes
<1>8. \A q \in Procs : \/ pc'[q] = pc[q] /\ (q \in asleep' <=> q \in asleep)
                       \/ ~(pc[q].at = "wait" /\ q \in asleep) /\ pc'[q].at # "wait"
  BY <1>2, <1>3, <1>5, <1>6
<1>9. SleepInv'
  BY <1>3, <1>8, SleepFrame
<1> QED BY <1>7, <1>9

(* The list that is left, and the place in the kernel that holds it.         *)
LEMMA ListLeft ==
    ASSUME IpcTypes, NEW p \in Procs, DeliverNext(p)
    PROVE  LET l == [at |-> "deliver", ep |-> pc[p].ep, then |-> pc[p].then, list |-> Tail(pc[p].list)]
           IN  /\ pc[p].at = "deliver" /\ pc[p].list \in Seq(Nat) /\ pc[p].list # <<>> /\ Tail(pc[p].list) \in Seq(Nat)
               /\ l \in PcType /\ Goto(p, l) /\ Head(pc[p].list) \in Nat
<1>1. PICK v : v = pc[p]
  OBVIOUS
<1>2. PICK s : s = v.list
  OBVIOUS
<1>3. v.at = "deliver" /\ s # <<>> /\ v \in PcType
  BY <1>1, <1>2, PcNow DEF DeliverNext
<1>4. /\ v \in [at : {"deliver"}, ep : Ids, then : {"recv", "tryRecv"}, list : Seq(Nat)]
      /\ s \in Seq(Nat) /\ v.ep \in Ids /\ v.then \in {"recv", "tryRecv"}
  BY <1>2, <1>3, PcIs
<1>5. PICK t : t = Tail(s)
  OBVIOUS
<1>6. t \in Seq(Nat) /\ Head(s) \in Nat
  BY <1>3, <1>4, <1>5
<1>7. [v EXCEPT !.list = t] = [at |-> "deliver", ep |-> v.ep, then |-> v.then, list |-> t]
  BY <1>3, <1>4
<1>8. Goto(p, [v EXCEPT !.list = t])
  BY <1>1, <1>2, <1>5 DEF DeliverNext, Rest
<1>9. [at |-> "deliver", ep |-> v.ep, then |-> v.then, list |-> t] \in PcType
  BY <1>4, <1>6, PcOf
<1> QED BY <1>1, <1>2, <1>3, <1>4, <1>5, <1>6, <1>7, <1>8, <1>9

LEMMA StepDeliverNext ==
    ASSUME IpcTypes, SleepInv, NEW p \in Procs, DeliverNext(p)
    PROVE  IpcTypes' /\ SleepInv'
<1>1. PICK l : l = [at |-> "deliver", ep |-> pc[p].ep, then |-> pc[p].then, list |-> Tail(pc[p].list)]
  OBVIOUS
<1>2. pc[p].at = "deliver" /\ l \in PcType /\ Goto(p, l) /\ l.at = "deliver" /\ Head(pc[p].list) \in Nat
  BY <1>1, ListLeft
<1>3. pc' \in [Procs -> PcType] /\ pc'[p] = l /\ \A q \in Procs \ {p} : pc'[q] = pc[q]
  BY <1>2, Went
<1>4. UNCHANGED <<ep, owner, fds, where, lockedBy, binding, events, irqs>>
  BY DEF DeliverNext, epVars, irqVars
<1>5. PICK m : m = Message(None, Head(pc[p].list))
  OBVIOUS
<1>6. m \in Msg
  BY <1>2, <1>5 DEF Message, Msg
<1>7. CASE binding # None /\ Len(queue[binding]) < Capacity /\ queue' = [queue EXCEPT ![binding] = Append(@, m)]
           /\ WakeReceiver(binding)
  <2>1. binding \in Ids
    BY <1>7 DEF IpcTypes
  <2>2. queue' \in [Ids -> Seq(Msg)] /\ \A f \in Ids : Len(queue'[f]) <= Capacity
    BY <1>6, <1>7, <2>1, QueueGrows
  <2>3. waiters' \in [Ids -> Seq(Procs)] /\ asleep' \subseteq Procs /\ \A f \in Ids : IsInjective(waiters'[f])
    BY <1>7, <2>1, Woken
  <2>4. IpcTypes'
    BY <1>3, <1>4, <2>2, <2>3 DEF IpcTypes
  <2>5. \A q \in Procs : \/ pc'[q] = pc[q]
                         \/ pc[q].at # "wait" /\ pc'[q].at # "wait"
    BY <1>2, <1>3
  <2>6. SleepInv'
    BY <1>4, <1>7, <2>1, <2>5, SleepWake
  <2> QED BY <2>4, <2>6
<1>8. CASE UNCHANGED <<queue, waiters, asleep>>
  <2>1. IpcTypes'
    BY <1>3, <1>4, <1>8 DEF IpcTypes
  <2>2. \A q \in Procs : \/ pc'[q] = pc[q] /\ (q \in asleep' <=> q \in asleep)
                         \/ ~(pc[q].at = "wait" /\ q \in asleep) /\ pc'[q].at # "wait"
    BY <1>2, <1>3, <1>8
  <2>3. SleepInv'
    BY <1>4, <1>8, <2>2, SleepFrame
  <2> QED BY <2>1, <2>3
<1> QED BY <1>5, <1>7, <1>8 DEF DeliverNext, RawIpcTrySend

(* The end of a process: its endpoints go, and all who sleep on them wake.   *)
LEMMA StepHangup ==
    ASSUME IpcTypes, SleepInv, NEW p \in Procs, HangupChannelForPid(p)
    PROVE  IpcTypes' /\ SleepInv'
<1>1. PICK gone : gone = Owned(p)
  OBVIOUS
<1>2. PICK l : l = [at |-> "cspace"]
  OBVIOUS
<1>3. PICK woken : woken = UNION {ToSet(waiters[e]) : e \in gone}
  OBVIOUS
<1>4. /\ pc[p] = User /\ Goto(p, l) /\ UNCHANGED <<fds, lockedBy, events, irqs>>
      /\ owner' = [e \in Ids |-> IF e \in gone THEN None ELSE owner[e]]
      /\ ep' = [e \in Ids |-> IF e \in gone THEN "gone" ELSE ep[e]]
      /\ waiters' = [e \in Ids |-> IF e \in gone THEN <<>> ELSE waiters[e]] /\ asleep' = asleep \ woken
      /\ queue' = [e \in Ids |-> IF e \in gone THEN <<>> ELSE queue[e]]
      /\ binding' = (IF binding \in gone THEN None ELSE binding)
  BY <1>1, <1>2, <1>3 DEF HangupChannelForPid, Calls, WakeAll
<1>5. l \in PcType /\ l.at = "cspace" /\ pc[p].at = "user"
  <2>1. "cspace" \in Plain
    BY DEF Plain
  <2> QED BY <1>2, <1>4, <2>1, PcOf
<1>6. pc' \in [Procs -> PcType] /\ pc'[p] = l /\ \A q \in Procs \ {p} : pc'[q] = pc[q]
  BY <1>4, <1>5, Went
<1>7. where' \in [Caps -> Procs \cup {"message", "given", "closed"}]
  BY DEF HangupChannelForPid, Drain, CloseAttached, IpcTypes
<1>8. ep' \in [Ids -> {"unused", "live", "gone"}] /\ owner' \in [Ids -> Procs \cup {None}]
      /\ binding' \in Ids \cup {None} /\ asleep' \subseteq Procs
  BY <1>4 DEF IpcTypes
<1>9. queue' \in [Ids -> Seq(Msg)] /\ waiters' \in [Ids -> Seq(Procs)]
  BY <1>4 DEF IpcTypes
<1>10. \A e \in Ids : Len(queue'[e]) <= Capacity /\ IsInjective(waiters'[e])
  <2> SUFFICES ASSUME NEW e \in Ids PROVE Len(queue'[e]) <= Capacity /\ IsInjective(waiters'[e])
    OBVIOUS
  <2>1. CASE e \in gone
    <3>1. queue'[e] = <<>> /\ waiters'[e] = <<>>
      BY <1>4, <2>1
    <3> QED BY <3>1, IpcAssumption DEF IsInjective
  <2>2. CASE e \notin gone
    <3>1. queue'[e] = queue[e] /\ waiters'[e] = waiters[e]
      BY <1>4, <2>2
    <3> QED BY <3>1 DEF IpcTypes
  <2> QED BY <2>1, <2>2
<1>11. IpcTypes'
  BY <1>4, <1>6, <1>7, <1>8, <1>9, <1>10 DEF IpcTypes
<1>12. \A q : q \in woken <=> \E e \in gone : q \in ToSet(waiters[e])
  BY <1>3, Zenon
<1>13. gone \subseteq Ids
  BY <1>1 DEF Owned
<1>14. WaitersSleep'
  <2> SUFFICES ASSUME NEW e \in Ids, NEW q \in ToSet(waiters'[e]) PROVE WaitsOn(q, e)'
    BY DEF WaitersSleep
  <2>1. e \notin gone /\ waiters'[e] = waiters[e]
    <3>1. CASE e \in gone
      <4>1. waiters'[e] = <<>>
        BY <3>1, <1>4
      <4> QED BY <4>1 DEF ToSet
    <3> QED BY <3>1, <1>4
  <2>2. q \in Procs /\ WaitsOn(q, e)
    BY <2>1, WaitersAre DEF SleepInv, WaitersSleep
  <2>3. q \notin woken
    <3> SUFFICES ASSUME NEW f \in gone, q \in ToSet(waiters[f]) PROVE FALSE
      BY <1>12
    <3>1. WaitsOn(q, f)
      BY <1>13 DEF SleepInv, WaitersSleep
    <3> QED BY <2>1, <2>2, <3>1 DEF WaitsOn
  <2>4. q # p
    BY <1>5, <2>2 DEF WaitsOn
  <2> QED BY <2>2, <2>3, <2>4, <1>4, <1>6 DEF WaitsOn
<1>15. SleeperIsReachable'
  <2> SUFFICES ASSUME NEW q \in Procs, pc'[q].at = "wait", q \in asleep'
               PROVE  ep'[pc'[q].ep] = "live" /\ q \in ToSet(waiters'[pc'[q].ep])
    BY DEF SleeperIsReachable
  <2>1. PICK f : f = pc[q].ep
    OBVIOUS
  <2>2. q # p /\ pc'[q] = pc[q] /\ q \in asleep /\ q \notin woken
    BY <1>4, <1>5, <1>6
  <2>3. f \in Ids
    BY <2>1, <2>2, PcNow DEF OnEndpoint
  <2>4. ep[f] = "live" /\ q \in ToSet(waiters[f])
    BY <2>1, <2>2 DEF SleepInv, SleeperIsReachable
  <2>5. f \notin gone
    BY <2>2, <2>4, <1>12
  <2>6. ep'[f] = "live" /\ waiters'[f] = waiters[f]
    BY <2>3, <2>4, <2>5, <1>4
  <2> QED BY <2>1, <2>2, <2>4, <2>6
<1> QED BY <1>11, <1>14, <1>15 DEF SleepInv

LEMMA StepDestroy ==
    ASSUME IpcTypes, SleepInv, NEW p \in Procs, DestroyProcessCspace(p)
    PROVE  IpcTypes' /\ SleepInv'
<1>1. PICK l : l = [at |-> "exited"]
  OBVIOUS
<1>2. /\ pc[p].at = "cspace" /\ Goto(p, l) /\ fds' = [fds EXCEPT ![p] = {}]
      /\ where' = [c \in Caps |-> IF where[c] = p THEN "closed" ELSE where[c]]
      /\ UNCHANGED <<ep, queue, waiters, owner, asleep, lockedBy, binding, events, irqs>>
  BY <1>1 DEF DestroyProcessCspace, irqVars
<1>3. l \in PcType /\ l.at = "exited"
  <2>1. "exited" \in Plain
    BY DEF Plain
  <2> QED BY <1>1, <2>1, PcOf
<1>4. pc' \in [Procs -> PcType] /\ pc'[p] = l /\ \A q \in Procs \ {p} : pc'[q] = pc[q]
  BY <1>2, <1>3, Went
<1>5. IpcTypes'
  BY <1>2, <1>4 DEF IpcTypes
<1>6. \A q \in Procs : \/ pc'[q] = pc[q] /\ (q \in asleep' <=> q \in asleep)
                       \/ ~(pc[q].at = "wait" /\ q \in asleep) /\ pc'[q].at # "wait"
  BY <1>2, <1>3, <1>4
<1>7. SleepInv'
  BY <1>2, <1>6, SleepFrame
<1> QED BY <1>5, <1>7

LEMMA TypesNext ==
    ASSUME IpcTypes, SleepInv, [IpcNext]_ipcVars
    PROVE  IpcTypes' /\ SleepInv'
<1>1. CASE UNCHANGED ipcVars
  BY <1>1 DEF ipcVars, IpcTypes, SleepInv, WaitersSleep, WaitsOn, SleeperIsReachable
<1>2. CASE IrqEvent
  BY <1>2, StepIrqEvent
<1>3. ASSUME NEW p \in Procs, Continue(p) PROVE IpcTypes' /\ SleepInv'
  <2>1. CASE InsertDescriptor(p) \/ RegisterEndpointOwner(p) \/ BindInsert(p) \/ BindOpenGate(p)
    BY <2>1, StepInsert, StepRegister, StepBind
  <2>2. CASE SysIpcRecv(p) \/ RawIpcRecvWoken(p) \/ SysIpcTryRecv(p)
    BY <2>2, StepRecv, StepTryRecv
  <2>3. CASE DeliverNext(p) \/ DeliverEnds(p) \/ DestroyProcessCspace(p)
    BY <2>3, StepDeliverNext, StepDeliverEnds, StepDestroy
  <2> QED BY <1>3, <2>1, <2>2, <2>3 DEF Continue
<1>4. ASSUME NEW p \in Procs, Call(p) PROVE IpcTypes' /\ SleepInv'
  <2>1. CASE HangupChannelForPid(p)
    BY <2>1, StepHangup
  <2>2. ASSUME NEW e \in Ids, CreateRawEndpoint(p, e) \/ SysIpcCancel(p, e) \/ BindLookup(p, e) \/ CloseDescriptor(p, e)
        PROVE  IpcTypes' /\ SleepInv'
    BY <2>2, StepCreate, StepCloses, StepBind
  <2>3. ASSUME NEW e \in Ids, DrainEvents(p, e, "recv") \/ DrainEvents(p, e, "tryRecv")
        PROVE  IpcTypes' /\ SleepInv'
    BY <2>3, StepDrain
  <2>4. ASSUME NEW e \in Ids, NEW c \in Caps \cup {None}, NEW mode \in {"Transfer", "Lend"}, SysIpcSend(p, e, c, mode)
        PROVE  IpcTypes' /\ SleepInv'
    BY <2>4, StepSend
  <2> QED BY <1>4, <2>1, <2>2, <2>3, <2>4 DEF Call
<1> QED BY <1>1, <1>2, <1>3, <1>4 DEF IpcNext

-----------------------------------------------------------------------------
(* Endpoints that are gone.  While its maker has not registered it, an       *)
(* endpoint is live, has no owner and no second maker: so no hangup takes it *)
(* away, and the late registration does not give an owner to one that is     *)
(* gone.                                                                     *)

Making(p, e) == pc[p].at \in {"insert", "own"} /\ pc[p].ep = e
MakersAlone ==
    \A p \in Procs, e \in Ids : Making(p, e) =>
        /\ ep[e] = "live" /\ owner[e] = None
        /\ \A q \in Procs : Making(q, e) => q = p
OwnedAreLive == \A e \in Ids : owner[e] # None => ep[e] = "live"
GoneInv ==
    /\ MakersAlone /\ OwnedAreLive
    /\ \A e \in Ids : ep[e] = "gone" => owner[e] = None /\ queue[e] = <<>>
GateInv == binding # None => gate \/ \E p \in Procs : pc[p].at = "gate"

LEMMA GoneFrame ==
    ASSUME GoneInv, ep' = ep, owner' = owner,
           \A e \in Ids : ep[e] = "gone" => queue'[e] = queue[e] \/ queue'[e] = <<>>,
           \A q \in Procs : \/ pc'[q] = pc[q]
                            \/ pc'[q].at \notin {"insert", "own"}
                            \/ pc[q].at \in {"insert", "own"} /\ pc'[q].ep = pc[q].ep
    PROVE  GoneInv'
<1>1. \A q \in Procs, e \in Ids : Making(q, e)' => Making(q, e)
  BY DEF Making
<1>2. MakersAlone'
  BY <1>1 DEF GoneInv, MakersAlone
<1> QED BY <1>2 DEF GoneInv, OwnedAreLive

LEMMA GateFrame ==
    ASSUME GateInv, binding' = binding, gate' = gate, \A q \in Procs : pc[q].at = "gate" => pc'[q].at = "gate"
    PROVE  GateInv'
  BY DEF GateInv

(* A process that moves while nothing else of the two changes.               *)
LEMMA GoneMoves ==
    ASSUME IpcTypes, GoneInv, GateInv, NEW p \in Procs, NEW l \in PcType, Goto(p, l), pc[p].at # "gate",
           l.at \notin {"insert", "own"} \/ (pc[p].at \in {"insert", "own"} /\ l.ep = pc[p].ep),
           ep' = ep, owner' = owner, binding' = binding, gate' = gate,
           \A e \in Ids : ep[e] = "gone" => queue'[e] = queue[e] \/ queue'[e] = <<>>
    PROVE  GoneInv' /\ GateInv'
<1>1. pc'[p] = l /\ \A q \in Procs \ {p} : pc'[q] = pc[q]
  BY Went
<1>2. \A q \in Procs : \/ pc'[q] = pc[q]
                       \/ pc'[q].at \notin {"insert", "own"}
                       \/ pc[q].at \in {"insert", "own"} /\ pc'[q].ep = pc[q].ep
  BY <1>1
<1>3. \A q \in Procs : pc[q].at = "gate" => pc'[q].at = "gate"
  BY <1>1
<1>4. GoneInv'
  BY <1>2, GoneFrame
<1>5. GateInv'
  BY <1>3, GateFrame
<1> QED BY <1>4, <1>5

LEMMA GoneInit == IpcInit => GoneInv /\ GateInv
<1> SUFFICES ASSUME IpcInit PROVE GoneInv /\ GateInv
  OBVIOUS
<1>1. \A p \in Procs : pc[p].at = "user"
  BY PcOf DEF IpcInit
<1>2. MakersAlone
  BY <1>1 DEF MakersAlone, Making
<1> QED BY <1>2 DEF IpcInit, GoneInv, OwnedAreLive, GateInv

LEMMA GoneCreate ==
    ASSUME IpcTypes, GoneInv, GateInv, NEW p \in Procs, NEW e \in Ids, CreateRawEndpoint(p, e)
    PROVE  GoneInv' /\ GateInv'
<1>1. PICK l : l = [at |-> "insert", ep |-> e]
  OBVIOUS
<1>2. l \in PcType /\ l.at = "insert" /\ l.ep = e
  <2>1. "insert" \in OnEndpoint
    BY DEF OnEndpoint
  <2> QED BY <1>1, <2>1, PcOf
<1>3. /\ pc[p] = User /\ ep[e] = "unused" /\ ep' = [ep EXCEPT ![e] = "live"] /\ Goto(p, l)
      /\ UNCHANGED <<queue, owner, binding, gate>>
  BY <1>1 DEF CreateRawEndpoint, Calls, irqVars
<1>4. pc'[p] = l /\ \A q \in Procs \ {p} : pc'[q] = pc[q]
  BY <1>2, <1>3, Went
<1>5. ep \in [Ids -> {"unused", "live", "gone"}] /\ pc[p].at = "user"
  BY <1>3, PcOf DEF IpcTypes
<1>6. ep'[e] = "live" /\ \A f \in Ids \ {e} : ep'[f] = ep[f]
  BY <1>3, <1>5
<1>7. owner[e] = None
  BY <1>3 DEF GoneInv, OwnedAreLive
<1>8. \A q \in Procs : ~Making(q, e)
  BY <1>3 DEF GoneInv, MakersAlone
<1>9. \A q \in Procs, f \in Ids : Making(q, f)' => (q = p /\ f = e) \/ (q # p /\ f # e /\ Making(q, f))
  BY <1>2, <1>4, <1>8 DEF Making
<1>10. MakersAlone'
  BY <1>3, <1>6, <1>7, <1>9 DEF GoneInv, MakersAlone
<1>11. GoneInv'
  BY <1>3, <1>6, <1>7, <1>10 DEF GoneInv, OwnedAreLive
<1>12. GateInv'
  BY <1>3, <1>4, <1>5, GateFrame
<1> QED BY <1>11, <1>12

LEMMA GoneRegister ==
    ASSUME IpcTypes, GoneInv, GateInv, NEW p \in Procs, RegisterEndpointOwner(p)
    PROVE  GoneInv' /\ GateInv'
<1>1. PICK e : e = pc[p].ep
  OBVIOUS
<1>2. e \in Ids /\ pc[p].at = "own" /\ User \in PcType /\ User.at = "user"
  BY <1>1, PcNow, PcOf DEF RegisterEndpointOwner, OnEndpoint
<1>3. owner' = [owner EXCEPT ![e] = p] /\ Goto(p, User) /\ UNCHANGED <<queue, ep, binding, gate>>
  BY <1>1 DEF RegisterEndpointOwner, irqVars
<1>4. pc'[p] = User /\ \A q \in Procs \ {p} : pc'[q] = pc[q]
  BY <1>2, <1>3, Went
<1>5. ep[e] = "live" /\ \A q \in Procs : Making(q, e) => q = p
  BY <1>1, <1>2 DEF GoneInv, MakersAlone, Making
<1>6. owner'[e] = p /\ \A f \in Ids \ {e} : owner'[f] = owner[f]
  BY <1>2, <1>3 DEF IpcTypes
<1>7. \A q \in Procs, f \in Ids : Making(q, f)' => Making(q, f) /\ f # e
  BY <1>2, <1>4, <1>5 DEF Making
<1>8. MakersAlone'
  BY <1>3, <1>6, <1>7 DEF GoneInv, MakersAlone
<1>9. GoneInv'
  BY <1>3, <1>5, <1>6, <1>8 DEF GoneInv, OwnedAreLive
<1>10. GateInv'
  BY <1>2, <1>3, <1>4, GateFrame
<1> QED BY <1>9, <1>10

LEMMA GoneHangup ==
    ASSUME IpcTypes, GoneInv, GateInv, NEW p \in Procs, HangupChannelForPid(p)
    PROVE  GoneInv' /\ GateInv'
<1>1. PICK gone : gone = Owned(p)
  OBVIOUS
<1>2. PICK l : l = [at |-> "cspace"]
  OBVIOUS
<1>3. /\ pc[p] = User /\ Goto(p, l)
      /\ owner' = [e \in Ids |-> IF e \in gone THEN None ELSE owner[e]]
      /\ ep' = [e \in Ids |-> IF e \in gone THEN "gone" ELSE ep[e]]
      /\ queue' = [e \in Ids |-> IF e \in gone THEN <<>> ELSE queue[e]]
      /\ binding' = (IF binding \in gone THEN None ELSE binding)
      /\ gate' = (IF gone = {} THEN gate ELSE GateAfter(binding'))
  BY <1>1, <1>2 DEF HangupChannelForPid, Calls
<1>4. l \in PcType /\ l.at = "cspace" /\ pc[p].at = "user"
  <2>1. "cspace" \in Plain
    BY DEF Plain
  <2> QED BY <1>2, <1>3, <2>1, PcOf
<1>5. pc'[p] = l /\ \A q \in Procs \ {p} : pc'[q] = pc[q]
  BY <1>3, <1>4, Went
<1>6. \A q \in Procs, f \in Ids : Making(q, f)' => Making(q, f)
  BY <1>4, <1>5 DEF Making
<1>7. \A e \in gone : e \in Ids /\ owner[e] = p /\ p # None
  BY <1>1, IpcAssumption DEF Owned
<1>8. MakersAlone'
  <2> SUFFICES ASSUME NEW q \in Procs, NEW e \in Ids, Making(q, e)'
               PROVE  /\ ep'[e] = "live" /\ owner'[e] = None
                      /\ \A r \in Procs : Making(r, e)' => r = q
    BY DEF MakersAlone
  <2>1. Making(q, e) /\ ep[e] = "live" /\ owner[e] = None /\ \A r \in Procs : Making(r, e) => r = q
    BY <1>6 DEF GoneInv, MakersAlone
  <2>2. e \notin gone
    BY <1>7, <2>1
  <2> QED BY <1>3, <1>6, <2>1, <2>2
<1>9. GoneInv'
  BY <1>3, <1>8 DEF GoneInv, OwnedAreLive
<1>10. GateInv'
  <2> SUFFICES ASSUME binding' # None PROVE gate' \/ \E q \in Procs : pc'[q].at = "gate"
    BY DEF GateInv
  <2>1. binding' = binding /\ gate' = gate
    BY <1>3 DEF GateAfter
  <2>2. gate \/ \E q \in Procs : pc[q].at = "gate"
    BY <2>1 DEF GateInv
  <2> QED BY <2>1, <2>2, <1>4, <1>5
<1> QED BY <1>9, <1>10

LEMMA GoneBind ==
    ASSUME IpcTypes, GoneInv, GateInv, NEW p \in Procs, BindInsert(p) \/ BindOpenGate(p)
    PROVE  GoneInv' /\ GateInv'
<1>1. UNCHANGED <<ep, owner, queue>>
  BY DEF BindInsert, BindOpenGate, epVars
<1>2. PICK l : l = [at |-> "gate"]
  OBVIOUS
<1>3. l \in PcType /\ l.at = "gate" /\ User \in PcType /\ User.at = "user"
  <2>1. "gate" \in Plain
    BY DEF Plain
  <2> QED BY <1>2, <2>1, PcOf
<1>4. CASE BindInsert(p)
  <2>1. pc'[p] = l /\ \A q \in Procs \ {p} : pc'[q] = pc[q]
    BY <1>2, <1>3, <1>4, Went DEF BindInsert
  <2>2. GoneInv'
    <3>1. \A q \in Procs : \/ pc'[q] = pc[q]
                           \/ pc'[q].at \notin {"insert", "own"}
                           \/ pc[q].at \in {"insert", "own"} /\ pc'[q].ep = pc[q].ep
      BY <2>1, <1>3
    <3> QED BY <3>1, <1>1, GoneFrame
  <2>3. GateInv'
    BY <2>1, <1>3 DEF GateInv
  <2> QED BY <2>2, <2>3
<1>5. CASE BindOpenGate(p)
  <2>1. pc'[p] = User /\ \A q \in Procs \ {p} : pc'[q] = pc[q]
    BY <1>3, <1>5, Went DEF BindOpenGate
  <2>2. GoneInv'
    <3>1. \A q \in Procs : \/ pc'[q] = pc[q]
                           \/ pc'[q].at \notin {"insert", "own"}
                           \/ pc[q].at \in {"insert", "own"} /\ pc'[q].ep = pc[q].ep
      BY <2>1, <1>3
    <3> QED BY <3>1, <1>1, GoneFrame
  <2>3. GateInv'
    BY <1>5 DEF BindOpenGate, GateInv
  <2> QED BY <2>2, <2>3
<1> QED BY <1>4, <1>5

LEMMA GoneStays ==
    ASSUME GoneInv, GateInv, pc' = pc, ep' = ep, owner' = owner, binding' = binding, gate' = gate,
           \A e \in Ids : ep[e] = "gone" => queue'[e] = queue[e] \/ queue'[e] = <<>>
    PROVE  GoneInv' /\ GateInv'
<1>1. GoneInv'
  BY GoneFrame
<1>2. GateInv'
  BY GateFrame
<1> QED BY <1>1, <1>2

LEMMA GoneCalls ==
    ASSUME IpcTypes, GoneInv, GateInv, NEW p \in Procs, NEW e \in Ids,
           SysIpcCancel(p, e) \/ CloseDescriptor(p, e) \/ BindLookup(p, e)
             \/ DrainEvents(p, e, "recv") \/ DrainEvents(p, e, "tryRecv")
    PROVE  GoneInv' /\ GateInv'
<1>1. ep' = ep /\ owner' = owner /\ binding' = binding /\ gate' = gate
  BY DEF SysIpcCancel, CloseDescriptor, BindLookup, DrainEvents, epVars, irqVars
<1>2. CASE SysIpcCancel(p, e) \/ CloseDescriptor(p, e)
  <2>1. pc' = pc /\ (queue' = queue \/ queue' = [queue EXCEPT ![e] = <<>>])
    BY <1>2 DEF SysIpcCancel, CloseDescriptor, CancelEndpoint
  <2>2. \A f \in Ids : queue'[f] = queue[f] \/ queue'[f] = <<>>
    BY <2>1 DEF IpcTypes
  <2> QED BY <1>1, <2>1, <2>2, GoneStays
<1>3. CASE BindLookup(p, e)
  <2>1. PICK l : l = [at |-> "bind", ep |-> e]
    OBVIOUS
  <2>2. l \in PcType /\ l.at = "bind"
    <3>1. "bind" \in OnEndpoint
      BY DEF OnEndpoint
    <3> QED BY <2>1, <3>1, PcOf
  <2>3. Goto(p, l) /\ pc[p] = User /\ queue' = queue
    BY <1>3, <2>1 DEF BindLookup, Calls
  <2>4. pc[p].at # "gate" /\ l.at \notin {"insert", "own"}
    BY <2>2, <2>3, PcOf
  <2> QED BY <1>1, <2>2, <2>3, <2>4, GoneMoves
<1>4. ASSUME NEW call \in {"recv", "tryRecv"}, DrainEvents(p, e, call) PROVE GoneInv' /\ GateInv'
  <2>1. PICK l : l = [at |-> "deliver", ep |-> e, then |-> call, list |-> events]
    OBVIOUS
  <2>2. events \in Seq(Nat)
    BY DEF IpcTypes
  <2>3. l \in PcType /\ l.at = "deliver"
    BY <2>1, <2>2, PcOf
  <2>4. Goto(p, l) /\ pc[p] = User /\ queue' = queue
    BY <1>4, <2>1 DEF DrainEvents, Calls
  <2>5. pc[p].at # "gate" /\ l.at \notin {"insert", "own"}
    BY <2>3, <2>4, PcOf
  <2> QED BY <1>1, <2>3, <2>4, <2>5, GoneMoves
<1> QED BY <1>2, <1>3, <1>4

LEMMA GoneSend ==
    ASSUME IpcTypes, GoneInv, GateInv, NEW p \in Procs, NEW e \in Ids, NEW c \in Caps \cup {None},
           NEW mode \in {"Transfer", "Lend"}, SysIpcSend(p, e, c, mode)
    PROVE  GoneInv' /\ GateInv'
<1>1. /\ pc[p] = User /\ ep[e] = "live" /\ RawIpcSend(p, e, c)
      /\ UNCHANGED <<ep, owner, binding, gate>>
  BY DEF SysIpcSend, Calls, epVars, irqVars
<1>2. CASE Len(queue[e]) < Capacity
  <2>1. queue' = [queue EXCEPT ![e] = Append(@, Message(c, 0))] /\ pc' = pc
    BY <1>1, <1>2 DEF RawIpcSend
  <2>2. \A f \in Ids \ {e} : queue'[f] = queue[f]
    BY <2>1 DEF IpcTypes
  <2> QED BY <1>1, <2>1, <2>2, GoneStays
<1>3. CASE ~(Len(queue[e]) < Capacity)
  <2>1. PICK l : l = [at |-> "send", ep |-> e, cap |-> c]
    OBVIOUS
  <2>2. l \in PcType /\ l.at = "send" /\ pc[p].at = "user"
    BY <1>1, <2>1, PcOf
  <2>3. Goto(p, l) /\ queue' = queue
    BY <1>1, <1>3, <2>1 DEF RawIpcSend
  <2> QED BY <1>1, <2>2, <2>3, GoneMoves
<1> QED BY <1>2, <1>3

LEMMA GoneReceives ==
    ASSUME IpcTypes, GoneInv, GateInv, NEW p \in Procs, SysIpcRecv(p) \/ RawIpcRecvWoken(p) \/ SysIpcTryRecv(p)
    PROVE  GoneInv' /\ GateInv'
<1>1. PICK e : e = pc[p].ep
  OBVIOUS
<1>2. e \in Ids /\ pc[p].at \in {"recv", "wait", "tryRecv"}
  BY <1>1, PcNow DEF SysIpcRecv, RawIpcRecvWoken, SysIpcTryRecv, OnEndpoint
<1>3. ep' = ep /\ owner' = owner /\ binding' = binding /\ gate' = gate
  BY DEF SysIpcRecv, RawIpcRecvWoken, SysIpcTryRecv, epVars, irqVars
<1>4. queue' = queue \/ (ep[e] = "live" /\ queue' = [queue EXCEPT ![e] = Tail(@)])
  BY <1>1 DEF SysIpcRecv, RawIpcRecvWoken, SysIpcTryRecv, RawIpcTryRecv, TakeOrSleep
<1>5. \A f \in Ids : ep[f] = "gone" => queue'[f] = queue[f]
  BY <1>4 DEF IpcTypes
<1>6. PICK l : l = [at |-> "wait", ep |-> e]
  OBVIOUS
<1>7. l \in PcType /\ l.at = "wait" /\ User \in PcType /\ User.at = "user"
  <2>1. "wait" \in OnEndpoint
    BY DEF OnEndpoint
  <2> QED BY <1>2, <1>6, <2>1, PcOf
<1>8. Goto(p, User) \/ Goto(p, l)
  BY <1>1, <1>6 DEF SysIpcRecv, RawIpcRecvWoken, SysIpcTryRecv, TakeOrSleep
<1> QED BY <1>2, <1>3, <1>5, <1>7, <1>8, GoneMoves

LEMMA GoneContinues ==
    ASSUME IpcTypes, GoneInv, GateInv, NEW p \in Procs,
           InsertDescriptor(p) \/ DeliverNext(p) \/ DeliverEnds(p) \/ DestroyProcessCspace(p)
    PROVE  GoneInv' /\ GateInv'
<1>1. ep' = ep /\ owner' = owner /\ binding' = binding /\ gate' = gate
  BY DEF InsertDescriptor, DeliverNext, DeliverEnds, DestroyProcessCspace, epVars, irqVars
<1>2. CASE InsertDescriptor(p)
  <2>1. PICK e : e = pc[p].ep
    OBVIOUS
  <2>2. e \in Ids /\ pc[p].at = "insert" /\ queue' = queue
    BY <1>2, <2>1, PcNow DEF InsertDescriptor, OnEndpoint
  <2>3. PICK l : l = [at |-> "own", ep |-> e]
    OBVIOUS
  <2>4. l \in PcType /\ l.at = "own" /\ l.ep = e /\ User \in PcType /\ User.at = "user"
    <3>1. "own" \in OnEndpoint
      BY DEF OnEndpoint
    <3> QED BY <2>2, <2>3, <3>1, PcOf
  <2>5. Goto(p, User) \/ Goto(p, l)
    BY <1>2, <2>1, <2>3 DEF InsertDescriptor
  <2> QED BY <1>1, <2>1, <2>2, <2>4, <2>5, GoneMoves
<1>3. CASE DeliverNext(p)
  <2>1. PICK l : l = [at |-> "deliver", ep |-> pc[p].ep, then |-> pc[p].then, list |-> Tail(pc[p].list)]
    OBVIOUS
  <2>2. pc[p].at = "deliver" /\ l \in PcType /\ Goto(p, l) /\ l.at = "deliver"
    BY <1>3, <2>1, ListLeft
  <2>3. queue' = queue \/ (ep[binding] = "live" /\ \E m : queue' = [queue EXCEPT ![binding] = Append(@, m)])
    BY <1>3 DEF DeliverNext, RawIpcTrySend
  <2>4. \A f \in Ids : ep[f] = "gone" => queue'[f] = queue[f]
    BY <2>3 DEF IpcTypes
  <2> QED BY <1>1, <2>2, <2>4, GoneMoves
<1>4. CASE DeliverEnds(p)
  <2>1. PICK l : l = [at |-> pc[p].then, ep |-> pc[p].ep]
    OBVIOUS
  <2>2. pc[p].at = "deliver" /\ pc[p].ep \in Ids /\ pc[p].then \in {"recv", "tryRecv"}
    BY <1>4, PcNow DEF DeliverEnds
  <2>3. l \in PcType /\ l.at \in {"recv", "tryRecv"}
    <3>1. pc[p].then \in OnEndpoint
      BY <2>2 DEF OnEndpoint
    <3> QED BY <2>1, <2>2, <3>1, PcOf
  <2>4. Goto(p, l) /\ queue' = queue
    BY <1>4, <2>1 DEF DeliverEnds
  <2> QED BY <1>1, <2>2, <2>3, <2>4, GoneMoves
<1>5. CASE DestroyProcessCspace(p)
  <2>1. PICK l : l = [at |-> "exited"]
    OBVIOUS
  <2>2. l \in PcType /\ l.at = "exited"
    <3>1. "exited" \in Plain
      BY DEF Plain
    <3> QED BY <2>1, <3>1, PcOf
  <2>3. pc[p].at = "cspace" /\ Goto(p, l) /\ queue' = queue
    BY <1>5, <2>1 DEF DestroyProcessCspace
  <2> QED BY <1>1, <2>2, <2>3, GoneMoves
<1> QED BY <1>2, <1>3, <1>4, <1>5

LEMMA GoneNext ==
    ASSUME IpcTypes, GoneInv, GateInv, [IpcNext]_ipcVars
    PROVE  GoneInv' /\ GateInv'
<1>1. CASE UNCHANGED ipcVars
  <2>1. pc' = pc /\ ep' = ep /\ owner' = owner /\ binding' = binding /\ gate' = gate /\ queue' = queue
    BY <1>1 DEF ipcVars
  <2> QED BY <2>1, GoneStays
<1>2. CASE IrqEvent
  <2>1. pc' = pc /\ ep' = ep /\ owner' = owner /\ binding' = binding /\ gate' = gate /\ queue' = queue
    BY <1>2 DEF IrqEvent, epVars
  <2> QED BY <2>1, GoneStays
<1>3. ASSUME NEW p \in Procs, Continue(p) PROVE GoneInv' /\ GateInv'
  <2>1. CASE RegisterEndpointOwner(p) \/ BindInsert(p) \/ BindOpenGate(p)
    BY <2>1, GoneRegister, GoneBind
  <2>2. CASE SysIpcRecv(p) \/ RawIpcRecvWoken(p) \/ SysIpcTryRecv(p)
    BY <2>2, GoneReceives
  <2>3. CASE InsertDescriptor(p) \/ DeliverNext(p) \/ DeliverEnds(p) \/ DestroyProcessCspace(p)
    BY <2>3, GoneContinues
  <2> QED BY <1>3, <2>1, <2>2, <2>3 DEF Continue
<1>4. ASSUME NEW p \in Procs, Call(p) PROVE GoneInv' /\ GateInv'
  <2>1. CASE HangupChannelForPid(p)
    BY <2>1, GoneHangup
  <2>2. ASSUME NEW e \in Ids, CreateRawEndpoint(p, e) PROVE GoneInv' /\ GateInv'
    BY <2>2, GoneCreate
  <2>3. ASSUME NEW e \in Ids, SysIpcCancel(p, e) \/ CloseDescriptor(p, e) \/ BindLookup(p, e)
                                \/ DrainEvents(p, e, "recv") \/ DrainEvents(p, e, "tryRecv")
        PROVE  GoneInv' /\ GateInv'
    BY <2>3, GoneCalls
  <2>4. ASSUME NEW e \in Ids, NEW c \in Caps \cup {None}, NEW mode \in {"Transfer", "Lend"}, SysIpcSend(p, e, c, mode)
        PROVE  GoneInv' /\ GateInv'
    BY <2>4, GoneSend
  <2> QED BY <1>4, <2>1, <2>2, <2>3, <2>4 DEF Call
<1> QED BY <1>1, <1>2, <1>3, <1>4 DEF IpcNext

-----------------------------------------------------------------------------
(* Interrupt events.  Each place holds a sequence of numbers: none twice, no *)
(* number at two places, and none above the number of interrupts so far, so  *)
(* that the next one is new.  0 stands for a message that is no interrupt.   *)

Marks(s) == {s[i] : i \in DOMAIN s} \ {0}
DupFree(s) == \A i, j \in DOMAIN s : s[i] = s[j] /\ s[i] # 0 => i = j
OneList(s) == s \in Seq(Nat) /\ DupFree(s)
Apart(C) ==
    /\ \A k \in IrqPlaces : OneList(C[k])
    /\ \A k, l \in IrqPlaces : k # l => Marks(C[k]) \cap Marks(C[l]) = {}
Bounded(C, n) == \A k \in IrqPlaces : Marks(C[k]) \subseteq 1 .. n
Cells == [k \in IrqPlaces |-> IrqsAt(k)]
EventsInv == Apart(Cells) /\ Bounded(Cells, irqs)

List(p) == IF pc[p].at = "deliver" THEN pc[p].list ELSE <<>>
AtEvents == <<"events", None>>
AtList(p) == <<"list", p>>
AtEndpoint(e) == <<"endpoint", e>>

LEMMA EmptyList == OneList(<<>>) /\ Marks(<<>>) = {}
  BY DEF OneList, DupFree, Marks

LEMMA ShorterList ==
    ASSUME NEW s, OneList(s), s # <<>>
    PROVE  /\ OneList(Tail(s)) /\ Marks(Tail(s)) \subseteq Marks(s) \ {Head(s)}
           /\ Head(s) \in Nat /\ (Head(s) # 0 => Head(s) \in Marks(s))
<1>1. PICK t : t = Tail(s)
  OBVIOUS
<1>2. /\ s \in Seq(Nat) /\ Len(s) \in Nat \ {0} /\ DOMAIN s = 1 .. Len(s) /\ Head(s) = s[1] /\ t \in Seq(Nat)
      /\ DOMAIN t = 1 .. Len(s) - 1 /\ \A i \in 1 .. Len(s) - 1 : t[i] = s[i + 1]
  BY <1>1 DEF OneList
<1>3. \A i, j \in 1 .. Len(s) : s[i] = s[j] /\ s[i] # 0 => i = j
  BY <1>2 DEF OneList, DupFree
<1>4. DupFree(t)
  <2> SUFFICES ASSUME NEW i \in 1 .. Len(s) - 1, NEW j \in 1 .. Len(s) - 1, t[i] = t[j], t[i] # 0 PROVE i = j
    BY <1>2 DEF DupFree
  <2>1. i + 1 \in 1 .. Len(s) /\ j + 1 \in 1 .. Len(s) /\ s[i + 1] = s[j + 1] /\ s[i + 1] # 0
    BY <1>2
  <2>2. i + 1 = j + 1
    BY <1>3, <2>1
  <2> QED BY <2>2
<1>5. ASSUME NEW x \in Marks(t) PROVE x \in Marks(s) \ {Head(s)}
  <2>1. PICK i \in 1 .. Len(s) - 1 : x = t[i] /\ x # 0
    BY <1>2 DEF Marks
  <2>2. i + 1 \in 1 .. Len(s) /\ x = s[i + 1] /\ 1 \in 1 .. Len(s) /\ i + 1 # 1
    BY <1>2, <2>1
  <2>3. x # s[1]
    BY <1>3, <2>1, <2>2
  <2> QED BY <1>2, <2>1, <2>2, <2>3 DEF Marks
<1>6. Head(s) \in Nat /\ (Head(s) # 0 => Head(s) \in Marks(s))
  <2>1. 1 \in DOMAIN s /\ s[1] \in Nat
    BY <1>2
  <2> QED BY <1>2, <2>1 DEF Marks
<1> QED BY <1>1, <1>2, <1>4, <1>5, <1>6 DEF OneList

LEMMA LongerList ==
    ASSUME NEW s, OneList(s), NEW n \in Nat, n \notin Marks(s)
    PROVE  OneList(Append(s, n)) /\ Marks(Append(s, n)) \subseteq Marks(s) \cup ({n} \ {0})
<1>1. PICK t : t = Append(s, n)
  OBVIOUS
<1>2. /\ s \in Seq(Nat) /\ Len(s) \in Nat /\ DOMAIN s = 1 .. Len(s) /\ t \in Seq(Nat)
      /\ DOMAIN t = 1 .. Len(s) + 1 /\ t[Len(s) + 1] = n /\ \A i \in 1 .. Len(s) : t[i] = s[i]
  BY <1>1 DEF OneList
<1>3. \A i, j \in 1 .. Len(s) : s[i] = s[j] /\ s[i] # 0 => i = j
  BY <1>2 DEF OneList, DupFree
<1>4. \A i \in 1 .. Len(s) : s[i] # 0 => s[i] # n
  BY <1>2 DEF Marks
<1>5. DupFree(t)
  <2> SUFFICES ASSUME NEW i \in 1 .. Len(s) + 1, NEW j \in 1 .. Len(s) + 1, t[i] = t[j], t[i] # 0 PROVE i = j
    BY <1>2 DEF DupFree
  <2>1. CASE i = Len(s) + 1
    <3>1. CASE j # Len(s) + 1
      <4>1. j \in 1 .. Len(s)
        BY <3>1, <1>2
      <4> QED BY <4>1, <2>1, <1>2, <1>4
    <3> QED BY <3>1, <2>1
  <2>2. CASE i # Len(s) + 1
    <3>1. i \in 1 .. Len(s)
      BY <2>2, <1>2
    <3>2. CASE j = Len(s) + 1
      BY <3>1, <3>2, <1>2, <1>4
    <3>3. CASE j # Len(s) + 1
      <4>1. j \in 1 .. Len(s)
        BY <3>3, <1>2
      <4> QED BY <3>1, <4>1, <1>2, <1>3
    <3> QED BY <3>2, <3>3
  <2> QED BY <2>1, <2>2
<1>6. ASSUME NEW x \in Marks(t) PROVE x \in Marks(s) \cup ({n} \ {0})
  <2>1. PICK i \in 1 .. Len(s) + 1 : x = t[i] /\ x # 0
    BY <1>2 DEF Marks
  <2>2. CASE i = Len(s) + 1
    BY <2>1, <2>2, <1>2
  <2>3. CASE i # Len(s) + 1
    <3>1. i \in 1 .. Len(s)
      BY <2>3, <1>2
    <3> QED BY <3>1, <2>1, <1>2 DEF Marks
  <2> QED BY <2>2, <2>3
<1> QED BY <1>1, <1>2, <1>5, <1>6 DEF OneList

LEMMA NumbersOf ==
    ASSUME NEW q \in Seq(Msg)
    PROVE  /\ Irqs(q) \in Seq(Nat)
           /\ q # <<>> => Irqs(q) # <<>> /\ Irqs(Tail(q)) = Tail(Irqs(q))
           /\ \A m \in Msg : Irqs(Append(q, m)) = Append(Irqs(q), m.irq)
<1>1. Len(q) \in Nat /\ DOMAIN q = 1 .. Len(q) /\ \A i \in 1 .. Len(q) : q[i] \in Msg
  OBVIOUS
<1>2. \A m \in Msg : m.irq \in Nat
  BY DEF Msg
<1>3. PICK s : s = Irqs(q)
  OBVIOUS
<1>4. s \in Seq(Nat) /\ Len(s) = Len(q) /\ \A i \in 1 .. Len(q) : s[i] = q[i].irq
  BY <1>1, <1>2, <1>3 DEF Irqs
<1>5. ASSUME q # <<>> PROVE s # <<>> /\ Irqs(Tail(q)) = Tail(s)
  <2>1. PICK r : r = Tail(q)
    OBVIOUS
  <2>2. r \in Seq(Msg) /\ Len(r) = Len(q) - 1 /\ Len(q) >= 1 /\ DOMAIN r = 1 .. Len(q) - 1
        /\ \A i \in 1 .. Len(q) - 1 : r[i] = q[i + 1]
    BY <1>5, <2>1
  <2>3. PICK t : t = Tail(s)
    OBVIOUS
  <2>4. s # <<>>
    BY <1>4, <2>2
  <2>5. t \in Seq(Nat) /\ DOMAIN t = 1 .. Len(q) - 1 /\ \A i \in 1 .. Len(q) - 1 : t[i] = s[i + 1]
    BY <1>4, <2>2, <2>3, <2>4
  <2>6. \A i \in 1 .. Len(q) - 1 : i + 1 \in 1 .. Len(q)
    BY <1>1
  <2>7. \A i \in 1 .. Len(q) - 1 : t[i] = r[i].irq
    BY <1>4, <2>2, <2>5, <2>6
  <2>8. PICK u : u = Irqs(r)
    OBVIOUS
  <2>9. u = [i \in 1 .. Len(q) - 1 |-> r[i].irq]
    BY <2>2, <2>8 DEF Irqs
  <2>10. t = [i \in 1 .. Len(q) - 1 |-> t[i]]
    BY <2>5
  <2>11. u = t
    BY <2>7, <2>9, <2>10
  <2> QED BY <2>1, <2>3, <2>4, <2>8, <2>11
<1>6. ASSUME NEW m \in Msg PROVE Irqs(Append(q, m)) = Append(s, m.irq)
  <2>1. PICK r : r = Append(q, m)
    OBVIOUS
  <2>2. r \in Seq(Msg) /\ DOMAIN r = 1 .. Len(q) + 1 /\ r[Len(q) + 1] = m /\ \A i \in 1 .. Len(q) : r[i] = q[i]
    BY <2>1
  <2>3. PICK t : t = Append(s, m.irq)
    OBVIOUS
  <2>4. m.irq \in Nat
    BY <1>2
  <2>5. t \in Seq(Nat) /\ DOMAIN t = 1 .. Len(q) + 1 /\ t[Len(q) + 1] = m.irq /\ \A i \in 1 .. Len(q) : t[i] = s[i]
    BY <1>4, <2>3, <2>4
  <2>6. \A i \in 1 .. Len(q) + 1 : t[i] = r[i].irq
    <3> SUFFICES ASSUME NEW i \in 1 .. Len(q) + 1 PROVE t[i] = r[i].irq
      OBVIOUS
    <3>1. CASE i = Len(q) + 1
      BY <3>1, <2>2, <2>5
    <3>2. CASE i # Len(q) + 1
      <4>1. i \in 1 .. Len(q)
        BY <3>2, <1>1
      <4> QED BY <4>1, <1>4, <2>2, <2>5
    <3> QED BY <3>1, <3>2
  <2>7. PICK u : u = Irqs(r)
    OBVIOUS
  <2>8. u = [i \in 1 .. Len(q) + 1 |-> r[i].irq]
    BY <2>2, <2>7 DEF Irqs
  <2>9. t = [i \in 1 .. Len(q) + 1 |-> t[i]]
    BY <2>5
  <2>10. u = t
    BY <2>6, <2>8, <2>9
  <2> QED BY <2>1, <2>3, <2>7, <2>10
<1> QED BY <1>3, <1>4, <1>5, <1>6

LEMMA PlacesAre ==
    /\ AtEvents \in IrqPlaces
    /\ \A p \in Procs : AtList(p) \in IrqPlaces /\ AtList(p) # AtEvents
    /\ \A e \in Ids : AtEndpoint(e) \in IrqPlaces /\ AtEndpoint(e) # AtEvents
    /\ \A p \in Procs, e \in Ids : AtList(p) # AtEndpoint(e)
    /\ \A p, q \in Procs : AtList(p) = AtList(q) => p = q
    /\ \A e, f \in Ids : AtEndpoint(e) = AtEndpoint(f) => e = f
    /\ \A k \in IrqPlaces : \/ k = AtEvents
                            \/ \E p \in Procs : k = AtList(p)
                            \/ \E e \in Ids : k = AtEndpoint(e)
  BY DEF IrqPlaces, AtEvents, AtList, AtEndpoint

LEMMA CellsAre ==
    /\ Cells[AtEvents] = events
    /\ \A p \in Procs : Cells[AtList(p)] = List(p)
    /\ \A e \in Ids : Cells[AtEndpoint(e)] = Irqs(queue[e])
<1>1. \A k \in IrqPlaces : Cells[k] = IrqsAt(k)
  BY DEF Cells
<1>2. IrqsAt(AtEvents) = events
  BY DEF IrqsAt, AtEvents
<1>3. \A p \in Procs : IrqsAt(AtList(p)) = List(p)
  BY DEF IrqsAt, AtList, List
<1>4. \A e \in Ids : IrqsAt(AtEndpoint(e)) = Irqs(queue[e])
  BY DEF IrqsAt, AtEndpoint
<1> QED BY <1>1, <1>2, <1>3, <1>4, PlacesAre

LEMMA CellsAfter ==
    /\ Cells'[AtEvents] = events'
    /\ \A p \in Procs : Cells'[AtList(p)] = List(p)'
    /\ \A e \in Ids : Cells'[AtEndpoint(e)] = Irqs(queue'[e])
<1>1. \A k \in IrqPlaces : Cells'[k] = IrqsAt(k)'
  BY DEF Cells
<1>2. IrqsAt(AtEvents)' = events'
  BY DEF IrqsAt, AtEvents
<1>3. \A p \in Procs : IrqsAt(AtList(p))' = List(p)'
  BY DEF IrqsAt, AtList, List
<1>4. \A e \in Ids : IrqsAt(AtEndpoint(e))' = Irqs(queue'[e])
  BY DEF IrqsAt, AtEndpoint, Irqs
<1> QED BY <1>1, <1>2, <1>3, <1>4, PlacesAre

(* Three ways in which numbers stay apart: places that only lose numbers,    *)
(* numbers that go from one place to another, and a new number.              *)
LEMMA ApartShrinks ==
    ASSUME NEW C, NEW D, NEW n \in Nat, Apart(C), Bounded(C, n),
           \A k \in IrqPlaces : OneList(D[k]) /\ Marks(D[k]) \subseteq Marks(C[k])
    PROVE  Apart(D) /\ Bounded(D, n)
<1>1. \A k, l \in IrqPlaces : k # l => Marks(D[k]) \cap Marks(D[l]) = {}
  <2> SUFFICES ASSUME NEW k \in IrqPlaces, NEW l \in IrqPlaces, k # l PROVE Marks(D[k]) \cap Marks(D[l]) = {}
    OBVIOUS
  <2>1. Marks(C[k]) \cap Marks(C[l]) = {}
    BY DEF Apart
  <2> QED BY <2>1
<1>2. Bounded(D, n)
  BY DEF Bounded
<1> QED BY <1>1, <1>2 DEF Apart

LEMMA ApartMoves ==
    ASSUME NEW C, NEW D, NEW n \in Nat, Apart(C), Bounded(C, n),
           NEW a \in IrqPlaces, NEW b \in IrqPlaces, a # b, NEW X, X \subseteq Marks(C[a]),
           \A k \in IrqPlaces : OneList(D[k]), Marks(D[a]) \subseteq Marks(C[a]) \ X,
           Marks(D[b]) \subseteq Marks(C[b]) \cup X,
           \A k \in IrqPlaces \ {a, b} : Marks(D[k]) \subseteq Marks(C[k])
    PROVE  Apart(D) /\ Bounded(D, n)
<1>1. ASSUME NEW k \in IrqPlaces, NEW l \in IrqPlaces, k # l, NEW x \in Marks(D[k]), x \in Marks(D[l]) PROVE FALSE
  <2>1. \A u, v \in IrqPlaces : u # v => Marks(C[u]) \cap Marks(C[v]) = {}
    BY DEF Apart
  <2>2. \A u \in IrqPlaces : x \in Marks(D[u]) =>
            \/ x \in Marks(C[u]) /\ (u = a => x \notin X)
            \/ u = b /\ x \in X
    OBVIOUS
  <2>3. x \in X => x \in Marks(C[a])
    OBVIOUS
  <2> QED BY <1>1, <2>1, <2>2, <2>3
<1>2. \A k, l \in IrqPlaces : k # l => Marks(D[k]) \cap Marks(D[l]) = {}
  BY <1>1
<1>3. Bounded(D, n)
  BY DEF Bounded
<1> QED BY <1>2, <1>3 DEF Apart

LEMMA ApartNew ==
    ASSUME NEW C, NEW D, NEW n \in Nat, Apart(C), Bounded(C, n), NEW a \in IrqPlaces,
           \A k \in IrqPlaces : OneList(D[k]), Marks(D[a]) \subseteq Marks(C[a]) \cup {n + 1},
           \A k \in IrqPlaces \ {a} : Marks(D[k]) \subseteq Marks(C[k])
    PROVE  Apart(D) /\ Bounded(D, n + 1)
<1>1. \A k \in IrqPlaces : n + 1 \notin Marks(C[k])
  BY DEF Bounded
<1>2. ASSUME NEW k \in IrqPlaces, NEW l \in IrqPlaces, k # l, NEW x \in Marks(D[k]), x \in Marks(D[l]) PROVE FALSE
  <2>1. \A u, v \in IrqPlaces : u # v => Marks(C[u]) \cap Marks(C[v]) = {}
    BY DEF Apart
  <2>2. \A u \in IrqPlaces : x \in Marks(D[u]) => x \in Marks(C[u]) \/ (u = a /\ x = n + 1)
    OBVIOUS
  <2> QED BY <1>1, <1>2, <2>1, <2>2
<1>3. \A k, l \in IrqPlaces : k # l => Marks(D[k]) \cap Marks(D[l]) = {}
  BY <1>2
<1>4. Bounded(D, n + 1)
  <2> SUFFICES ASSUME NEW k \in IrqPlaces, NEW x \in Marks(D[k]) PROVE x \in 1 .. n + 1
    BY DEF Bounded
  <2>1. x \in Marks(C[k]) \/ x = n + 1
    OBVIOUS
  <2>2. Marks(C[k]) \subseteq 1 .. n
    BY DEF Bounded
  <2> QED BY <2>1, <2>2
<1> QED BY <1>3, <1>4 DEF Apart

(* What the queue of an endpoint holds after the steps that bring it no      *)
(* interrupt.                                                                *)
LEMMA NoNewNumber ==
    ASSUME NEW q \in Seq(Msg), OneList(Irqs(q)), NEW r,
           r \in {q, <<>>} \/ (q # <<>> /\ r = Tail(q)) \/ \E m \in Msg : m.irq = 0 /\ r = Append(q, m)
    PROVE  OneList(Irqs(r)) /\ Marks(Irqs(r)) \subseteq Marks(Irqs(q))
<1>1. CASE r = q
  BY <1>1
<1>2. CASE r = <<>>
  <2>1. Irqs(<<>>) = <<>>
    BY DEF Irqs
  <2> QED BY <1>2, <2>1, EmptyList
<1>3. CASE q # <<>> /\ r = Tail(q)
  <2>1. PICK s : s = Irqs(q)
    OBVIOUS
  <2>2. s # <<>> /\ Irqs(r) = Tail(s)
    BY <1>3, <2>1, NumbersOf
  <2>3. OneList(Tail(s)) /\ Marks(Tail(s)) \subseteq Marks(s)
    BY <2>1, <2>2, ShorterList
  <2> QED BY <2>1, <2>2, <2>3
<1>4. ASSUME NEW m \in Msg, m.irq = 0, r = Append(q, m)
      PROVE  OneList(Irqs(r)) /\ Marks(Irqs(r)) \subseteq Marks(Irqs(q))
  <2>1. PICK s : s = Irqs(q)
    OBVIOUS
  <2>2. Irqs(r) = Append(s, 0)
    BY <1>4, <2>1, NumbersOf
  <2>3. 0 \notin Marks(s)
    BY DEF Marks
  <2>4. OneList(Append(s, 0)) /\ Marks(Append(s, 0)) \subseteq Marks(s) \cup ({0} \ {0})
    BY <2>1, <2>3, LongerList
  <2> QED BY <2>1, <2>2, <2>4
<1> QED BY <1>1, <1>2, <1>3, <1>4

LEMMA CellsOne ==
    ASSUME EventsInv
    PROVE  /\ OneList(events) /\ (\A p \in Procs : OneList(List(p))) /\ \A e \in Ids : OneList(Irqs(queue[e]))
  BY CellsAre, PlacesAre DEF EventsInv, Apart

LEMMA EventsShrink ==
    ASSUME IpcTypes, EventsInv, irqs' = irqs, events' = events,
           \A p \in Procs : List(p)' = List(p) \/ List(p)' = <<>>,
           \A e \in Ids : \/ queue'[e] \in {queue[e], <<>>}
                          \/ queue[e] # <<>> /\ queue'[e] = Tail(queue[e])
                          \/ \E m \in Msg : m.irq = 0 /\ queue'[e] = Append(queue[e], m)
    PROVE  EventsInv'
<1>1. PICK C : C = Cells
  OBVIOUS
<1>2. PICK D : D = Cells'
  OBVIOUS
<1>3. ASSUME NEW k \in IrqPlaces PROVE OneList(D[k]) /\ Marks(D[k]) \subseteq Marks(C[k])
  <2>1. CASE k = AtEvents
    BY <2>1, <1>1, <1>2, CellsAre, CellsAfter, CellsOne
  <2>2. ASSUME NEW p \in Procs, k = AtList(p) PROVE OneList(D[k]) /\ Marks(D[k]) \subseteq Marks(C[k])
    <3>1. D[k] = List(p)' /\ C[k] = List(p) /\ OneList(List(p))
      BY <2>2, <1>1, <1>2, CellsAre, CellsAfter, CellsOne
    <3> QED BY <3>1, EmptyList
  <2>3. ASSUME NEW e \in Ids, k = AtEndpoint(e) PROVE OneList(D[k]) /\ Marks(D[k]) \subseteq Marks(C[k])
    <3>1. PICK q : q = queue[e]
      OBVIOUS
    <3>2. PICK r : r = queue'[e]
      OBVIOUS
    <3>3. D[k] = Irqs(r) /\ C[k] = Irqs(q) /\ OneList(Irqs(q)) /\ q \in Seq(Msg)
      BY <2>3, <3>1, <3>2, <1>1, <1>2, CellsAre, CellsAfter, CellsOne DEF IpcTypes
    <3>4. r \in {q, <<>>} \/ (q # <<>> /\ r = Tail(q)) \/ \E m \in Msg : m.irq = 0 /\ r = Append(q, m)
      BY <3>1, <3>2
    <3> QED BY <3>3, <3>4, NoNewNumber
  <2> QED BY <2>1, <2>2, <2>3, PlacesAre
<1>4. irqs \in Nat /\ Apart(C) /\ Bounded(C, irqs)
  BY <1>1 DEF IpcTypes, EventsInv
<1>5. Apart(D) /\ Bounded(D, irqs)
  BY <1>3, <1>4, ApartShrinks
<1> QED BY <1>2, <1>5 DEF EventsInv

LEMMA EventsInit == IpcInit => EventsInv
<1> SUFFICES ASSUME IpcInit PROVE EventsInv
  OBVIOUS
<1>1. events = <<>> /\ \A e \in Ids : queue[e] = <<>>
  BY DEF IpcInit
<1>2. \A p \in Procs : List(p) = <<>>
  BY PcOf DEF IpcInit, List
<1>3. Irqs(<<>>) = <<>>
  BY DEF Irqs
<1>4. \A k \in IrqPlaces : Cells[k] = <<>>
  BY <1>1, <1>2, <1>3, CellsAre, PlacesAre
<1>5. \A k \in IrqPlaces : OneList(Cells[k]) /\ Marks(Cells[k]) = {}
  BY <1>4, EmptyList
<1> QED BY <1>5 DEF EventsInv, Apart, Bounded

LEMMA EventsRaised ==
    ASSUME IpcTypes, EventsInv, IrqEvent
    PROVE  EventsInv'
<1>1. pc' = pc /\ queue' = queue /\ irqs' = irqs + 1 /\ events' \in {events, Append(events, irqs + 1)}
  BY DEF IrqEvent
<1>2. PICK C : C = Cells
  OBVIOUS
<1>3. PICK D : D = Cells'
  OBVIOUS
<1>4. irqs \in Nat /\ Apart(C) /\ Bounded(C, irqs)
  BY <1>2 DEF IpcTypes, EventsInv
<1>5. OneList(events) /\ irqs + 1 \notin Marks(events)
  <2>1. Marks(events) \subseteq 1 .. irqs
    BY <1>2, <1>4, CellsAre, PlacesAre DEF Bounded
  <2> QED BY <1>4, <2>1, CellsOne
<1>6. OneList(events') /\ Marks(events') \subseteq Marks(events) \cup {irqs + 1}
  <2>1. irqs + 1 \in Nat
    BY <1>4
  <2>2. /\ OneList(Append(events, irqs + 1))
        /\ Marks(Append(events, irqs + 1)) \subseteq Marks(events) \cup ({irqs + 1} \ {0})
    BY <1>5, <2>1, LongerList
  <2> QED BY <1>1, <1>5, <2>2
<1>7. \A k \in IrqPlaces \ {AtEvents} : D[k] = C[k]
  <2>1. \A p \in Procs : List(p)' = List(p)
    BY <1>1 DEF List
  <2>2. \A p \in Procs : D[AtList(p)] = C[AtList(p)]
    BY <2>1, <1>2, <1>3, CellsAre, CellsAfter
  <2>3. \A e \in Ids : D[AtEndpoint(e)] = C[AtEndpoint(e)]
    BY <1>1, <1>2, <1>3, CellsAre, CellsAfter
  <2> QED BY <2>2, <2>3, PlacesAre
<1>8. D[AtEvents] = events' /\ C[AtEvents] = events
  BY <1>2, <1>3, CellsAre, CellsAfter
<1>9. \A k \in IrqPlaces : OneList(D[k])
  BY <1>4, <1>6, <1>7, <1>8 DEF Apart
<1>10. Apart(D) /\ Bounded(D, irqs + 1)
  BY <1>4, <1>6, <1>7, <1>8, <1>9, PlacesAre, ApartNew
<1> QED BY <1>1, <1>3, <1>10 DEF EventsInv

LEMMA EventsDrained ==
    ASSUME IpcTypes, EventsInv, NEW p \in Procs, NEW e \in Ids, NEW call \in {"recv", "tryRecv"},
           DrainEvents(p, e, call)
    PROVE  EventsInv'
<1>1. PICK l : l = [at |-> "deliver", ep |-> e, then |-> call, list |-> events]
  OBVIOUS
<1>2. events \in Seq(Nat)
  BY DEF IpcTypes
<1>3. l \in PcType /\ l.at = "deliver" /\ l.list = events
  BY <1>1, <1>2, PcOf
<1>4. pc[p] = User /\ events' = <<>> /\ Goto(p, l) /\ queue' = queue /\ irqs' = irqs
  BY <1>1 DEF DrainEvents, Calls
<1>5. pc'[p] = l /\ \A q \in Procs \ {p} : pc'[q] = pc[q]
  BY <1>3, <1>4, Went
<1>6. List(p)' = events /\ List(p) = <<>> /\ \A q \in Procs \ {p} : List(q)' = List(q)
  BY <1>3, <1>4, <1>5, PcOf DEF List
<1>7. PICK C : C = Cells
  OBVIOUS
<1>8. PICK D : D = Cells'
  OBVIOUS
<1>9. irqs \in Nat /\ Apart(C) /\ Bounded(C, irqs)
  BY <1>7 DEF IpcTypes, EventsInv
<1>10. D[AtEvents] = <<>> /\ C[AtEvents] = events /\ D[AtList(p)] = events /\ OneList(events)
  BY <1>4, <1>6, <1>7, <1>8, CellsAre, CellsAfter, CellsOne
<1>11. \A k \in IrqPlaces \ {AtEvents, AtList(p)} : D[k] = C[k]
  <2>1. \A q \in Procs \ {p} : D[AtList(q)] = C[AtList(q)]
    BY <1>6, <1>7, <1>8, CellsAre, CellsAfter
  <2>2. \A f \in Ids : D[AtEndpoint(f)] = C[AtEndpoint(f)]
    BY <1>4, <1>7, <1>8, CellsAre, CellsAfter
  <2> QED BY <2>1, <2>2, PlacesAre
<1>12. \A k \in IrqPlaces : OneList(D[k])
  BY <1>9, <1>10, <1>11, EmptyList DEF Apart
<1>13. PICK X : X = Marks(events)
  OBVIOUS
<1>14. X \subseteq Marks(C[AtEvents]) /\ Marks(D[AtEvents]) \subseteq Marks(C[AtEvents]) \ X
       /\ Marks(D[AtList(p)]) \subseteq Marks(C[AtList(p)]) \cup X
  BY <1>10, <1>13, EmptyList
<1>15. AtEvents \in IrqPlaces /\ AtList(p) \in IrqPlaces /\ AtEvents # AtList(p)
  BY PlacesAre
<1>16. \A k \in IrqPlaces \ {AtEvents, AtList(p)} : Marks(D[k]) \subseteq Marks(C[k])
  BY <1>11
<1>17. Apart(D) /\ Bounded(D, irqs)
  BY <1>9, <1>12, <1>14, <1>15, <1>16, ApartMoves
<1> QED BY <1>4, <1>8, <1>17 DEF EventsInv

LEMMA EventsDelivered ==
    ASSUME IpcTypes, EventsInv, NEW p \in Procs, DeliverNext(p)
    PROVE  EventsInv'
<1>1. PICK l : l = [at |-> "deliver", ep |-> pc[p].ep, then |-> pc[p].then, list |-> Tail(pc[p].list)]
  OBVIOUS
<1>2. PICK s : s = pc[p].list
  OBVIOUS
<1>3. /\ pc[p].at = "deliver" /\ s \in Seq(Nat) /\ s # <<>> /\ l \in PcType /\ Goto(p, l)
      /\ l.at = "deliver" /\ l.list = Tail(s)
  BY <1>1, <1>2, ListLeft
<1>4. pc'[p] = l /\ \A q \in Procs \ {p} : pc'[q] = pc[q]
  BY <1>3, Went
<1>5. List(p)' = Tail(s) /\ List(p) = s /\ \A q \in Procs \ {p} : List(q)' = List(q)
  BY <1>2, <1>3, <1>4 DEF List
<1>6. PICK n : n = Head(s)
  OBVIOUS
<1>7. OneList(s) /\ OneList(Tail(s)) /\ Marks(Tail(s)) \subseteq Marks(s) \ {n} /\ n \in Nat /\ (n # 0 => n \in Marks(s))
  BY <1>3, <1>5, <1>6, CellsOne, ShorterList
<1>8. events' = events /\ irqs' = irqs
  BY DEF DeliverNext, irqVars
<1>9. PICK C : C = Cells
  OBVIOUS
<1>10. PICK D : D = Cells'
  OBVIOUS
<1>11. irqs \in Nat /\ Apart(C) /\ Bounded(C, irqs)
  BY <1>9 DEF IpcTypes, EventsInv
<1>12. D[AtEvents] = C[AtEvents] /\ D[AtList(p)] = Tail(s) /\ C[AtList(p)] = s
       /\ \A q \in Procs \ {p} : D[AtList(q)] = C[AtList(q)]
  BY <1>5, <1>8, <1>9, <1>10, CellsAre, CellsAfter
<1>13. CASE queue' = queue
  <2>1. \A f \in Ids : D[AtEndpoint(f)] = C[AtEndpoint(f)]
    BY <1>13, <1>9, <1>10, CellsAre, CellsAfter
  <2>2. \A k \in IrqPlaces \ {AtList(p)} : D[k] = C[k]
    BY <2>1, <1>12, PlacesAre
  <2>3. \A k \in IrqPlaces : OneList(D[k]) /\ Marks(D[k]) \subseteq Marks(C[k])
    BY <2>2, <1>7, <1>11, <1>12 DEF Apart
  <2>4. Apart(D) /\ Bounded(D, irqs)
    BY <2>3, <1>11, ApartShrinks
  <2> QED BY <2>4, <1>8, <1>10 DEF EventsInv
<1>14. ASSUME binding \in Ids, queue' = [queue EXCEPT ![binding] = Append(@, Message(None, n))]
       PROVE  EventsInv'
  <2>1. PICK b : b = binding
    OBVIOUS
  <2>2. PICK q : q = queue[b]
    OBVIOUS
  <2>3. PICK m : m = Message(None, n)
    OBVIOUS
  <2>4. m \in Msg /\ m.irq = n
    BY <1>7, <2>3 DEF Message, Msg
  <2>5. b \in Ids /\ q \in Seq(Msg) /\ queue'[b] = Append(q, m) /\ \A f \in Ids \ {b} : queue'[f] = queue[f]
    BY <1>14, <2>1, <2>2, <2>3 DEF IpcTypes
  <2>6. PICK t : t = Irqs(q)
    OBVIOUS
  <2>7. D[AtEndpoint(b)] = Append(t, n) /\ C[AtEndpoint(b)] = t /\ OneList(t)
    <3>1. Irqs(Append(q, m)) = Append(t, n)
      BY <2>4, <2>5, <2>6, NumbersOf
    <3> QED BY <3>1, <2>2, <2>5, <2>6, <1>9, <1>10, CellsAre, CellsAfter, CellsOne
  <2>8. \A f \in Ids \ {b} : D[AtEndpoint(f)] = C[AtEndpoint(f)]
    BY <2>5, <1>9, <1>10, CellsAre, CellsAfter
  <2>9. AtList(p) \in IrqPlaces /\ AtEndpoint(b) \in IrqPlaces /\ AtList(p) # AtEndpoint(b)
    BY <2>5, PlacesAre
  <2>10. \A k \in IrqPlaces \ {AtList(p), AtEndpoint(b)} : D[k] = C[k]
    BY <2>8, <1>12, PlacesAre
  <2>11. n \notin Marks(t)
    <3>1. CASE n = 0
      BY <3>1 DEF Marks
    <3>2. CASE n # 0
      <4>1. Marks(C[AtList(p)]) \cap Marks(C[AtEndpoint(b)]) = {}
        BY <2>9, <1>11 DEF Apart
      <4> QED BY <3>2, <4>1, <1>7, <1>12, <2>7
    <3> QED BY <3>1, <3>2
  <2>12. OneList(Append(t, n)) /\ Marks(Append(t, n)) \subseteq Marks(t) \cup ({n} \ {0})
    BY <2>7, <2>11, <1>7, LongerList
  <2>13. \A k \in IrqPlaces : OneList(D[k])
    BY <2>7, <2>10, <2>12, <1>7, <1>11, <1>12 DEF Apart
  <2>14. PICK X : X = {n} \ {0}
    OBVIOUS
  <2>15. X \subseteq Marks(C[AtList(p)]) /\ Marks(D[AtList(p)]) \subseteq Marks(C[AtList(p)]) \ X
         /\ Marks(D[AtEndpoint(b)]) \subseteq Marks(C[AtEndpoint(b)]) \cup X
    BY <2>7, <2>12, <2>14, <1>7, <1>12
  <2>16. \A k \in IrqPlaces \ {AtList(p), AtEndpoint(b)} : Marks(D[k]) \subseteq Marks(C[k])
    BY <2>10
  <2>17. Apart(D) /\ Bounded(D, irqs)
    BY <1>11, <2>9, <2>13, <2>15, <2>16, ApartMoves
  <2> QED BY <2>17, <1>8, <1>10 DEF EventsInv
<1>15. binding \in Ids \cup {None}
  BY DEF IpcTypes
<1>16. queue' = queue \/ (binding # None /\ queue' = [queue EXCEPT ![binding] = Append(@, Message(None, n))])
  BY <1>2, <1>6 DEF DeliverNext, RawIpcTrySend
<1> QED BY <1>13, <1>14, <1>15, <1>16

(* The steps that raise, drain and deliver nothing.                          *)
LEMMA PcAfter ==
    ASSUME IpcTypes, IpcTypes', NEW p \in Procs, \A q \in Procs \ {p} : pc'[q] = pc[q],
           pc'[p] = pc[p] \/ pc'[p].at # "deliver"
    PROVE  \A q \in Procs : List(q)' = List(q) \/ List(q)' = <<>>
  BY DEF List

LEMMA OthersStay ==
    ASSUME IpcTypes, NEW p \in Procs, NEW l, Goto(p, l)
    PROVE  pc'[p] = l /\ \A q \in Procs \ {p} : pc'[q] = pc[q]
  BY DEF IpcTypes, Goto

LEMMA EventsCalls ==
    ASSUME IpcTypes, IpcTypes', EventsInv, NEW p \in Procs, NEW e \in Ids,
           SysIpcCancel(p, e) \/ CloseDescriptor(p, e) \/ BindLookup(p, e) \/ CreateRawEndpoint(p, e)
    PROVE  EventsInv'
<1>1. irqs' = irqs /\ events' = events
  BY DEF SysIpcCancel, CloseDescriptor, BindLookup, CreateRawEndpoint, irqVars
<1>2. \A f \in Ids : queue'[f] \in {queue[f], <<>>}
  BY DEF SysIpcCancel, CloseDescriptor, BindLookup, CreateRawEndpoint, CancelEndpoint, IpcTypes
<1>3. pc' = pc \/ \E w \in {"bind", "insert"} : Goto(p, [at |-> w, ep |-> e])
  BY DEF SysIpcCancel, CloseDescriptor, BindLookup, CreateRawEndpoint
<1>4. \A q \in Procs : List(q)' = List(q) \/ List(q)' = <<>>
  <2>1. CASE pc' = pc
    BY <2>1 DEF List
  <2>2. ASSUME NEW w \in {"bind", "insert"}, Goto(p, [at |-> w, ep |-> e])
        PROVE  \A q \in Procs : List(q)' = List(q) \/ List(q)' = <<>>
    <3>1. PICK l : l = [at |-> w, ep |-> e]
      OBVIOUS
    <3>2. Goto(p, l) /\ l.at # "deliver"
      BY <2>2, <3>1
    <3>3. pc'[p] = l /\ \A q \in Procs \ {p} : pc'[q] = pc[q]
      BY <3>2, OthersStay
    <3> QED BY <3>2, <3>3, PcAfter
  <2> QED BY <1>3, <2>1, <2>2
<1> QED BY <1>1, <1>2, <1>4, EventsShrink

LEMMA EventsSend ==
    ASSUME IpcTypes, IpcTypes', EventsInv, NEW p \in Procs, NEW e \in Ids, NEW c \in Caps \cup {None},
           NEW mode \in {"Transfer", "Lend"}, SysIpcSend(p, e, c, mode)
    PROVE  EventsInv'
<1>1. irqs' = irqs /\ events' = events /\ RawIpcSend(p, e, c)
  BY DEF SysIpcSend, irqVars
<1>2. PICK m : m = Message(c, 0)
  OBVIOUS
<1>3. m \in Msg /\ m.irq = 0
  BY <1>2 DEF Message, Msg
<1>4. CASE pc' = pc /\ queue' = [queue EXCEPT ![e] = Append(@, m)]
  <2>1. \A q \in Procs : List(q)' = List(q)
    BY <1>4 DEF List
  <2>2. queue'[e] = Append(queue[e], m) /\ \A f \in Ids \ {e} : queue'[f] = queue[f]
    BY <1>4 DEF IpcTypes
  <2>3. \A f \in Ids : \/ queue'[f] \in {queue[f], <<>>}
                       \/ queue[f] # <<>> /\ queue'[f] = Tail(queue[f])
                       \/ \E x \in Msg : x.irq = 0 /\ queue'[f] = Append(queue[f], x)
    BY <1>3, <2>2
  <2> QED BY <1>1, <2>1, <2>3, EventsShrink
<1>5. CASE queue' = queue /\ Goto(p, [at |-> "send", ep |-> e, cap |-> c])
  <2>1. PICK l : l = [at |-> "send", ep |-> e, cap |-> c]
    OBVIOUS
  <2>2. Goto(p, l) /\ l.at # "deliver"
    BY <1>5, <2>1
  <2>3. pc'[p] = l /\ \A q \in Procs \ {p} : pc'[q] = pc[q]
    BY <2>2, OthersStay
  <2>4. \A q \in Procs : List(q)' = List(q) \/ List(q)' = <<>>
    BY <2>2, <2>3, PcAfter
  <2> QED BY <1>1, <1>5, <2>4, EventsShrink
<1> QED BY <1>1, <1>2, <1>4, <1>5 DEF RawIpcSend

LEMMA EventsReceives ==
    ASSUME IpcTypes, IpcTypes', EventsInv, NEW p \in Procs,
           SysIpcRecv(p) \/ RawIpcRecvWoken(p) \/ SysIpcTryRecv(p)
    PROVE  EventsInv'
<1>1. PICK e : e = pc[p].ep
  OBVIOUS
<1>2. e \in Ids
  BY <1>1, PcNow DEF SysIpcRecv, RawIpcRecvWoken, SysIpcTryRecv, OnEndpoint
<1>3. irqs' = irqs /\ events' = events
  BY DEF SysIpcRecv, RawIpcRecvWoken, SysIpcTryRecv, irqVars
<1>4. queue' = queue \/ (queue[e] # <<>> /\ queue' = [queue EXCEPT ![e] = Tail(@)])
  BY <1>1 DEF SysIpcRecv, RawIpcRecvWoken, SysIpcTryRecv, RawIpcTryRecv, TakeOrSleep
<1>5. \A f \in Ids : queue'[f] = queue[f] \/ (queue[f] # <<>> /\ queue'[f] = Tail(queue[f]))
  BY <1>2, <1>4 DEF IpcTypes
<1>6. PICK l : l = [at |-> "wait", ep |-> e]
  OBVIOUS
<1>7. Goto(p, User) \/ Goto(p, l)
  BY <1>1, <1>6 DEF SysIpcRecv, RawIpcRecvWoken, SysIpcTryRecv, TakeOrSleep
<1>8. l.at # "deliver" /\ User.at # "deliver"
  BY <1>6, PcOf
<1>9. \A q \in Procs : List(q)' = List(q) \/ List(q)' = <<>>
  <2>1. pc'[p].at # "deliver" /\ \A q \in Procs \ {p} : pc'[q] = pc[q]
    BY <1>7, <1>8, OthersStay
  <2> QED BY <2>1, PcAfter
<1> QED BY <1>3, <1>5, <1>9, EventsShrink

LEMMA EventsContinues ==
    ASSUME IpcTypes, IpcTypes', EventsInv, NEW p \in Procs,
           InsertDescriptor(p) \/ RegisterEndpointOwner(p) \/ BindInsert(p) \/ BindOpenGate(p)
             \/ DeliverEnds(p) \/ DestroyProcessCspace(p) \/ HangupChannelForPid(p)
    PROVE  EventsInv'
<1>1. irqs' = irqs /\ events' = events
  BY DEF InsertDescriptor, RegisterEndpointOwner, BindInsert, BindOpenGate, DeliverEnds, DestroyProcessCspace,
         HangupChannelForPid, irqVars
<1>2. \A f \in Ids : queue'[f] \in {queue[f], <<>>}
  BY DEF InsertDescriptor, RegisterEndpointOwner, BindInsert, BindOpenGate, DeliverEnds, DestroyProcessCspace,
         HangupChannelForPid
<1>3. \E l : Goto(p, l) /\ l.at # "deliver"
  <2>1. CASE RegisterEndpointOwner(p) \/ BindOpenGate(p)
    BY <2>1, PcOf DEF RegisterEndpointOwner, BindOpenGate
  <2>2. CASE BindInsert(p) \/ DestroyProcessCspace(p) \/ HangupChannelForPid(p)
    <3>1. \E w \in {"gate", "exited", "cspace"} : Goto(p, [at |-> w])
      BY <2>2 DEF BindInsert, DestroyProcessCspace, HangupChannelForPid
    <3> QED BY <3>1
  <2>3. CASE InsertDescriptor(p)
    <3>1. Goto(p, User) \/ Goto(p, [at |-> "own", ep |-> pc[p].ep])
      BY <2>3 DEF InsertDescriptor
    <3> QED BY <3>1, PcOf
  <2>4. CASE DeliverEnds(p)
    <3>1. pc[p].then \in {"recv", "tryRecv"} /\ Goto(p, [at |-> pc[p].then, ep |-> pc[p].ep])
      BY <2>4, PcNow DEF DeliverEnds
    <3>2. PICK t : t = pc[p].then
      OBVIOUS
    <3>3. PICK l : l = [at |-> t, ep |-> pc[p].ep]
      OBVIOUS
    <3>4. l.at = t /\ t # "deliver" /\ Goto(p, l)
      BY <3>1, <3>2, <3>3
    <3> QED BY <3>4
  <2> QED BY <2>1, <2>2, <2>3, <2>4
<1>4. \A q \in Procs : List(q)' = List(q) \/ List(q)' = <<>>
  <2>1. PICK l : Goto(p, l) /\ l.at # "deliver"
    BY <1>3
  <2>2. pc'[p] = l /\ \A q \in Procs \ {p} : pc'[q] = pc[q]
    BY <2>1, OthersStay
  <2> QED BY <2>1, <2>2, PcAfter
<1> QED BY <1>1, <1>2, <1>4, EventsShrink

LEMMA EventsNext ==
    ASSUME IpcTypes, IpcTypes', EventsInv, [IpcNext]_ipcVars
    PROVE  EventsInv'
<1>1. CASE UNCHANGED ipcVars
  <2>1. pc' = pc /\ queue' = queue /\ events' = events /\ irqs' = irqs
    BY <1>1 DEF ipcVars
  <2>2. \A p \in Procs : List(p)' = List(p)
    BY <2>1 DEF List
  <2> QED BY <2>1, <2>2, EventsShrink
<1>2. CASE IrqEvent
  BY <1>2, EventsRaised
<1>3. ASSUME NEW p \in Procs, Continue(p) PROVE EventsInv'
  <2>1. CASE InsertDescriptor(p) \/ RegisterEndpointOwner(p) \/ BindInsert(p) \/ BindOpenGate(p)
               \/ DeliverEnds(p) \/ DestroyProcessCspace(p)
    BY <2>1, EventsContinues
  <2>2. CASE SysIpcRecv(p) \/ RawIpcRecvWoken(p) \/ SysIpcTryRecv(p)
    BY <2>2, EventsReceives
  <2>3. CASE DeliverNext(p)
    BY <2>3, EventsDelivered
  <2> QED BY <1>3, <2>1, <2>2, <2>3 DEF Continue
<1>4. ASSUME NEW p \in Procs, Call(p) PROVE EventsInv'
  <2>1. CASE HangupChannelForPid(p)
    BY <2>1, EventsContinues
  <2>2. ASSUME NEW e \in Ids, SysIpcCancel(p, e) \/ CloseDescriptor(p, e) \/ BindLookup(p, e) \/ CreateRawEndpoint(p, e)
        PROVE  EventsInv'
    BY <2>2, EventsCalls
  <2>3. ASSUME NEW e \in Ids, DrainEvents(p, e, "recv") \/ DrainEvents(p, e, "tryRecv")
        PROVE  EventsInv'
    BY <2>3, EventsDrained
  <2>4. ASSUME NEW e \in Ids, NEW c \in Caps \cup {None}, NEW mode \in {"Transfer", "Lend"}, SysIpcSend(p, e, c, mode)
        PROVE  EventsInv'
    BY <2>4, EventsSend
  <2> QED BY <1>4, <2>1, <2>2, <2>3, <2>4 DEF Call
<1> QED BY <1>1, <1>2, <1>3, <1>4 DEF IpcNext

LEMMA OncePerPlace == EventsInv => IrqEventsOnce
<1> SUFFICES ASSUME EventsInv, NEW k \in IrqPlaces, NEW l \in IrqPlaces,
                    NEW i \in DOMAIN IrqsAt(k), NEW j \in DOMAIN IrqsAt(l),
                    IrqsAt(k)[i] = IrqsAt(l)[j], IrqsAt(k)[i] # 0
             PROVE  k = l /\ i = j
  BY DEF IrqEventsOnce
<1>1. PICK s : s = IrqsAt(k)
  OBVIOUS
<1>2. PICK t : t = IrqsAt(l)
  OBVIOUS
<1>3. DupFree(s) /\ (k # l => Marks(s) \cap Marks(t) = {})
  <2>1. Cells[k] = s /\ Cells[l] = t
    BY <1>1, <1>2 DEF Cells
  <2> QED BY <2>1 DEF EventsInv, Apart, OneList
<1>4. s[i] \in Marks(s) /\ s[i] \in Marks(t)
  BY <1>1, <1>2 DEF Marks
<1>5. k = l
  BY <1>3, <1>4
<1> QED BY <1>1, <1>2, <1>3, <1>5 DEF DupFree

-----------------------------------------------------------------------------
(* All of it together.                                                       *)
IpcInv == IpcTypes /\ SleepInv /\ GoneInv /\ GateInv /\ EventsInv

LEMMA IpcInvHolds == IpcSpec => []IpcInv
<1>1. IpcInit => IpcInv
  <2> SUFFICES ASSUME IpcInit PROVE IpcInv
    OBVIOUS
  <2>1. SleepInv
    <3>1. \A e \in Ids : waiters[e] = <<>>
      BY DEF IpcInit
    <3>2. WaitersSleep
      BY <3>1 DEF WaitersSleep, ToSet
    <3> QED BY <3>2 DEF SleepInv, SleeperIsReachable, IpcInit
  <2> QED BY <2>1, TypesInit, GoneInit, EventsInit DEF IpcInv
<1>2. IpcInv /\ [IpcNext]_ipcVars => IpcInv'
  BY TypesNext, GoneNext, EventsNext DEF IpcInv
<1> QED BY <1>1, <1>2, PTL DEF IpcSpec


(* For any processes, endpoints and sizes of their queues, however calls,    *)
(* interrupts and exits interleave: a receiver that sleeps is in the queue   *)
(* of a live endpoint, an endpoint that is gone has no owner and no message, *)
(* a bound interrupt line passes the gate, and an interrupt event is in one  *)
(* place only (ipc.rs: raw_ipc_recv, hangup_channel_for_pid, bind_irq,       *)
(* deliver_pending_irqs).                                                    *)
THEOREM EndpointsAreSound == IpcSpec => []IpcSound
<1>1. IpcInv => IpcSound
  <2> SUFFICES ASSUME IpcInv PROVE IpcSound
    OBVIOUS
  <2>1. IpcTypeOK
    BY DEF IpcInv, IpcTypes, IpcTypeOK
  <2>2. BindingPassesGate
    BY DEF IpcInv, GoneInv, GateInv, BindingPassesGate
  <2> QED BY <2>1, <2>2, OncePerPlace DEF IpcInv, SleepInv, IpcSound
<1> QED BY <1>1, IpcInvHolds, PTL

-----------------------------------------------------------------------------
(* Capabilities on their way.                                                *)

LEMMA AttachedAre ==
    ASSUME NEW q \in Seq(Msg)
    PROVE  /\ \A m \in Msg : Attached(Append(q, m)) = Attached(q) \cup ({m.cap} \ {None})
           /\ q # <<>> => Attached(q) \subseteq Attached(Tail(q)) \cup {Head(q).cap}
<1>1. ASSUME NEW m \in Msg PROVE Attached(Append(q, m)) = Attached(q) \cup ({m.cap} \ {None})
  <2>1. PICK r : r = Append(q, m)
    OBVIOUS
  <2>2. ToSet(r) = ToSet(q) \cup {m}
    BY <2>1, Appended
  <2>3. Attached(r) = Attached(q) \cup ({m.cap} \ {None})
    BY <2>2 DEF Attached
  <2> QED BY <2>1, <2>3
<1>2. ASSUME q # <<>> PROVE Attached(q) \subseteq Attached(Tail(q)) \cup {Head(q).cap}
  <2>1. PICK r : r = Tail(q)
    OBVIOUS
  <2>2. PICK h : h = Head(q)
    OBVIOUS
  <2>3. ToSet(q) \subseteq ToSet(r) \cup {h}
    <3>1. r \in Seq(Msg) /\ Len(r) = Len(q) - 1 /\ h = q[1] /\ Len(q) \in Nat
          /\ \A i \in 1 .. Len(r) : r[i] = q[i + 1]
      BY <1>2, <2>1, <2>2
    <3> SUFFICES ASSUME NEW i \in 1 .. Len(q) PROVE q[i] \in ToSet(r) \cup {h}
      BY Elements
    <3>2. CASE i = 1
      BY <3>1, <3>2
    <3>3. CASE i # 1
      <4>1. i - 1 \in 1 .. Len(r) /\ r[i - 1] = q[i]
        BY <3>1, <3>3
      <4> QED BY <3>1, <4>1, Elements
    <3> QED BY <3>2, <3>3
  <2>4. Attached(q) \subseteq Attached(r) \cup {h.cap}
    BY <2>3 DEF Attached
  <2> QED BY <2>1, <2>2, <2>4
<1> QED BY <1>1, <1>2

(* What was carried still is where no queue that carries it shrinks and no   *)
(* sender moves.                                                             *)
LEMMA CarriedOn ==
    ASSUME NEW c \in Caps, Carried(c),
           \A e \in Ids : c \in Attached(queue[e]) => c \in Attached(queue'[e]),
           \A q \in Procs : pc[q].at = "send" => pc'[q] = pc[q]
    PROVE  Carried(c)'
  BY DEF Carried

LEMMA NotStranded ==
    ASSUME NEW c \in Caps, where'[c] = "message" => where[c] = "message",
           \A e \in Ids : c \in Attached(queue[e]) => c \in Attached(queue'[e]),
           \A q \in Procs : pc[q].at = "send" => pc'[q] = pc[q],
           Stranded(c)'
    PROVE  Stranded(c)
<1>1. ~Carried(c)' /\ where[c] = "message"
  BY DEF Stranded
<1> QED BY <1>1, CarriedOn DEF Stranded

(* Nobody leaves the sleep in a send.                                        *)
LEMMA SendersStay ==
    ASSUME IpcTypes, NEW p \in Procs, pc[p].at # "send", pc' = pc \/ \E l : Goto(p, l)
    PROVE  \A q \in Procs : pc[q].at = "send" => pc'[q] = pc[q]
  BY OthersStay

LEMMA MoveKeeps ==
    ASSUME IpcTypes, NEW p \in Procs, NEW c \in Caps, NEW e \in Ids,
           \/ InsertDescriptor(p) \/ RegisterEndpointOwner(p) \/ BindInsert(p) \/ BindOpenGate(p)
           \/ DeliverEnds(p) \/ DestroyProcessCspace(p) \/ CreateRawEndpoint(p, e) \/ BindLookup(p, e)
           \/ CloseDescriptor(p, e) \/ DrainEvents(p, e, "recv") \/ DrainEvents(p, e, "tryRecv"),
           Stranded(c)'
    PROVE  Stranded(c)
<1>1. pc[p].at # "send"
  BY PcOf DEF InsertDescriptor, RegisterEndpointOwner, BindInsert, BindOpenGate, DeliverEnds,
        DestroyProcessCspace, CreateRawEndpoint, BindLookup, CloseDescriptor, DrainEvents, Calls
<1>2. queue' = queue
  BY DEF InsertDescriptor, RegisterEndpointOwner, BindInsert, BindOpenGate, DeliverEnds,
        DestroyProcessCspace, CreateRawEndpoint, BindLookup, CloseDescriptor, DrainEvents
<1>3. pc' = pc \/ \E l : Goto(p, l)
  BY DEF InsertDescriptor, RegisterEndpointOwner, BindInsert, BindOpenGate, DeliverEnds,
        DestroyProcessCspace, CreateRawEndpoint, BindLookup, CloseDescriptor, DrainEvents
<1>4. where'[c] = "message" => where[c] = "message"
  BY DEF InsertDescriptor, RegisterEndpointOwner, BindInsert, BindOpenGate, DeliverEnds,
        DestroyProcessCspace, CreateRawEndpoint, BindLookup, CloseDescriptor, DrainEvents
<1> QED BY <1>1, <1>2, <1>3, <1>4, SendersStay, NotStranded

LEMMA DeliveryKeeps ==
    ASSUME IpcTypes, NEW p \in Procs, NEW c \in Caps, DeliverNext(p), Stranded(c)'
    PROVE  Stranded(c)
<1>1. pc[p].at # "send" /\ where' = where /\ \E l : Goto(p, l)
  BY DEF DeliverNext
<1>2. PICK m : m = Message(None, Head(pc[p].list))
  OBVIOUS
<1>3. m \in Msg
  <2>1. pc[p].list \in Seq(Nat) /\ pc[p].list # <<>>
    BY PcNow DEF DeliverNext
  <2>2. Head(pc[p].list) \in Nat
    BY <2>1
  <2> QED BY <1>2, <2>2 DEF Message, Msg
<1>4. queue' = queue \/ (binding \in Ids /\ queue' = [queue EXCEPT ![binding] = Append(@, m)])
  BY <1>2 DEF DeliverNext, RawIpcTrySend, IpcTypes
<1>5. ASSUME NEW e \in Ids PROVE queue'[e] = queue[e] \/ queue'[e] = Append(queue[e], m)
  BY <1>4 DEF IpcTypes
<1>6. ASSUME NEW e \in Ids, c \in Attached(queue[e]) PROVE c \in Attached(queue'[e])
  <2>1. queue[e] \in Seq(Msg)
    BY DEF IpcTypes
  <2> QED BY <1>3, <1>5, <1>6, <2>1, AttachedAre
<1> QED BY <1>1, <1>6, SendersStay, NotStranded

LEMMA SendKeeps ==
    ASSUME IpcTypes, NEW p \in Procs, NEW e \in Ids, NEW d \in Caps \cup {None},
           NEW mode \in {"Transfer", "Lend"}, SysIpcSend(p, e, d, mode), NEW c \in Caps, Stranded(c)'
    PROVE  Stranded(c)
<1>1. pc[p].at # "send" /\ Attach(d, mode) /\ RawIpcSend(p, e, d)
  BY PcOf DEF SysIpcSend, Calls
<1>2. PICK m : m = Message(d, 0)
  OBVIOUS
<1>3. m \in Msg /\ m.cap = d
  BY <1>2 DEF Message, Msg
<1>4. ~Carried(c)'
  BY DEF Stranded
<1>5. c # None
  BY IpcAssumption
<1>6. CASE pc' = pc /\ queue' = [queue EXCEPT ![e] = Append(@, m)]
  <2>1. queue'[e] = Append(queue[e], m) /\ queue[e] \in Seq(Msg) /\ \A f \in Ids \ {e} : queue'[f] = queue[f]
    BY <1>6 DEF IpcTypes
  <2>2. Attached(queue'[e]) = Attached(queue[e]) \cup ({d} \ {None})
    BY <1>3, <2>1, AttachedAre
  <2>3. c # d
    BY <1>4, <1>5, <2>2 DEF Carried
  <2>4. where'[c] = where[c]
    BY <1>1, <2>3 DEF Attach, IpcTypes
  <2> QED BY <1>6, <2>1, <2>2, <2>4, NotStranded
<1>7. CASE queue' = queue /\ Goto(p, [at |-> "send", ep |-> e, cap |-> d])
  <2>1. PICK l : l = [at |-> "send", ep |-> e, cap |-> d]
    OBVIOUS
  <2>2. l.at = "send" /\ l.cap = d /\ Goto(p, l)
    BY <1>7, <2>1
  <2>3. pc'[p] = l
    BY <2>2, OthersStay
  <2>4. c # d
    BY <1>4, <2>2, <2>3 DEF Carried
  <2>5. where'[c] = where[c]
    BY <1>1, <2>4 DEF Attach, IpcTypes
  <2>6. \A q \in Procs : pc[q].at = "send" => pc'[q] = pc[q]
    BY <1>1, <2>2, SendersStay
  <2> QED BY <1>7, <2>5, <2>6, NotStranded
<1> QED BY <1>1, <1>2, <1>6, <1>7 DEF RawIpcSend

LEMMA ReceiveKeeps ==
    ASSUME IpcTypes, NEW p \in Procs, SysIpcRecv(p) \/ RawIpcRecvWoken(p) \/ SysIpcTryRecv(p),
           NEW c \in Caps, Stranded(c)'
    PROVE  Stranded(c)
<1>1. PICK e : e = pc[p].ep
  OBVIOUS
<1>2. e \in Ids /\ queue[e] \in Seq(Msg)
  <2>1. e \in Ids
    BY <1>1, PcNow DEF SysIpcRecv, RawIpcRecvWoken, SysIpcTryRecv, OnEndpoint
  <2> QED BY <2>1 DEF IpcTypes
<1>3. \/ queue' = queue /\ where' = where
      \/ queue[e] # <<>> /\ queue' = [queue EXCEPT ![e] = Tail(@)] /\ Delivered(Head(queue[e]))
  BY <1>1 DEF SysIpcRecv, RawIpcRecvWoken, SysIpcTryRecv, RawIpcTryRecv, TakeOrSleep
<1>4. pc[p].at # "send" /\ \E l : Goto(p, l)
  BY DEF SysIpcRecv, RawIpcRecvWoken, SysIpcTryRecv, TakeOrSleep
<1>5. \A q \in Procs : pc[q].at = "send" => pc'[q] = pc[q]
  BY <1>4, SendersStay
<1>6. CASE queue' = queue /\ where' = where
  BY <1>5, <1>6, NotStranded
<1>7. CASE queue[e] # <<>> /\ queue' = [queue EXCEPT ![e] = Tail(@)] /\ Delivered(Head(queue[e]))
  <2>1. PICK h : h = Head(queue[e])
    OBVIOUS
  <2>2. where'[c] = "message" /\ Delivered(h)
    BY <1>7, <2>1 DEF Stranded
  <2>3. where[c] = "message" /\ c # h.cap
    BY <2>2, IpcAssumption DEF Delivered, IpcTypes
  <2>4. queue'[e] = Tail(queue[e]) /\ \A f \in Ids \ {e} : queue'[f] = queue[f]
    BY <1>2, <1>7 DEF IpcTypes
  <2>5. \A f \in Ids : c \in Attached(queue[f]) => c \in Attached(queue'[f])
    BY <1>2, <1>7, <2>1, <2>3, <2>4, AttachedAre
  <2> QED BY <1>5, <2>3, <2>5, NotStranded
<1> QED BY <1>3, <1>6, <1>7

LEMMA CancelKeeps ==
    ASSUME IpcTypes, NEW p \in Procs, NEW e \in Ids, SysIpcCancel(p, e), NEW c \in Caps, Stranded(c)'
    PROVE  Stranded(c)
<1>1. CloseAttached({e}) /\ queue' = [queue EXCEPT ![e] = <<>>] /\ pc' = pc
  BY DEF SysIpcCancel, CancelEndpoint
<1>2. c \notin Attached(queue[e]) /\ where[c] = "message"
  BY <1>1 DEF CloseAttached, Stranded
<1>3. \A f \in Ids \ {e} : queue'[f] = queue[f]
  BY <1>1 DEF IpcTypes
<1> QED BY <1>1, <1>2, <1>3, NotStranded

LEMMA HangupKeeps ==
    ASSUME IpcTypes, OwnedAreLive, NEW p \in Procs, HangupChannelForPid(p), NEW c \in Caps, Stranded(c)',
           ~Stranded(c)
    PROVE  \E e \in Ids : ep[e] = "live" /\ ep'[e] = "gone" /\ ~rootOpen[e]
<1>1. CASE \E e \in Owned(p) : ~rootOpen[e]
  <2>1. PICK e \in Owned(p) : ~rootOpen[e]
    BY <1>1
  <2>2. e \in Ids /\ owner[e] = p /\ p # None
    BY <2>1, IpcAssumption DEF Owned
  <2>3. ep[e] = "live"
    BY <2>2 DEF OwnedAreLive
  <2>4. ep'[e] = "gone"
    BY <2>1, <2>2 DEF HangupChannelForPid
  <2> QED BY <2>1, <2>2, <2>3, <2>4
<1>2. CASE \A e \in Owned(p) : rootOpen[e]
  <2>1. PICK gone : gone = Owned(p)
    OBVIOUS
  <2>2. /\ \A e \in Ids : queue'[e] = IF e \in gone THEN <<>> ELSE queue[e]
        /\ Drain(gone) /\ pc[p].at # "send" /\ \E l : Goto(p, l)
    BY <2>1, PcOf DEF HangupChannelForPid, Calls
  <2>3. {e \in gone : rootOpen[e]} = gone
    BY <1>2, <2>1
  <2>4. CloseAttached(gone)
    BY <2>2, <2>3 DEF Drain
  <2>5. where[c] = "message" /\ \A e \in gone : c \notin Attached(queue[e])
    BY <2>4 DEF CloseAttached, Stranded
  <2>6. \A q \in Procs : pc[q].at = "send" => pc'[q] = pc[q]
    BY <2>2, SendersStay
  <2>7. Stranded(c)
    BY <2>2, <2>5, <2>6, NotStranded
  <2> QED BY <2>7
<1> QED BY <1>1, <1>2

(* A capability on its way reaches the receiver or is closed, whatever calls,*)
(* cancellations and exits come between: only the hangup of an endpoint      *)
(* whose root handle its maker had closed leaves one behind (ipc.rs:         *)
(* raw_ipc_send, raw_ipc_recv, raw_ipc_cancel, hangup_channel_for_pid).      *)
THEOREM NoneStranded == IpcSpec => OnlyClosedRootStrands
<1> DEFINE Step == \A c \in Caps : Stranded(c)' /\ ~Stranded(c) =>
                      \E e \in Ids : ep[e] = "live" /\ ep'[e] = "gone" /\ ~rootOpen[e]
<1>1. IpcInv /\ [IpcNext]_ipcVars => [Step]_ipcVars
  <2> SUFFICES ASSUME IpcInv, IpcNext, NEW c \in Caps, Stranded(c)', ~Stranded(c)
               PROVE  \E e \in Ids : ep[e] = "live" /\ ep'[e] = "gone" /\ ~rootOpen[e]
    OBVIOUS
  <2>1. IpcTypes /\ OwnedAreLive
    BY DEF IpcInv, GoneInv
  <2>2. ~IrqEvent
    <3> SUFFICES ASSUME IrqEvent PROVE FALSE
      OBVIOUS
    <3>1. queue' = queue /\ where' = where /\ pc' = pc
      BY DEF IrqEvent
    <3> QED BY <3>1, NotStranded
  <2>3. PICK p \in Procs : Call(p) \/ Continue(p)
    BY <2>2 DEF IpcNext
  <2>4. 1 \in Ids
    BY IpcAssumption DEF Ids
  <2>5. ~Continue(p)
    BY <2>1, <2>4, MoveKeeps, DeliveryKeeps, ReceiveKeeps DEF Continue
  <2>6. HangupChannelForPid(p)
    BY <2>1, <2>3, <2>5, MoveKeeps, SendKeeps, CancelKeeps DEF Call
  <2> QED BY <2>1, <2>6, HangupKeeps
<1> QED BY <1>1, IpcInvHolds, PTL DEF IpcSpec, OnlyClosedRootStrands
=============================================================================
