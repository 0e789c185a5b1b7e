--------------------------- MODULE BlockingChannel ---------------------------
(***************************************************************************)
(* BlockingChannel (kernel/src/sync.rs), the bounded queue every IPC       *)
(* endpoint is built on.  The buffer is behind an IrqMutex, and a thread   *)
(* that finds it full (or empty) puts itself on a wait queue before it     *)
(* releases that lock; so the test and prepare_wait are one step, and the  *)
(* push (or pop) and the wake_one that follows it are two.                 *)
(***************************************************************************)
EXTENDS Threads

CONSTANTS
    Capacity,   \* BlockingChannel.capacity
    MaxChanCalls    \* bound on the calls of all threads

ASSUME ChannelAssumption == Capacity \in Nat /\ MaxChanCalls \in Nat

VARIABLES
    buffer,     \* BlockingChannel.buffer
    notEmpty,   \* the queue of the receivers
    notFull,    \* the queue of the senders
    received    \* history: the messages that recv and try_recv returned

chanVars == <<buffer, notEmpty, notFull, pc, calls, received>>
channelVars == <<threadVars, chanVars>>

ChanPcs == {"idle", "send", "trySend", "sendWake", "sendSleep", "sendAwake",
        "recv", "tryRecv", "recvWake", "recvSleep", "recvAwake"}

(* A message is its sender's n-th.                                          *)
Message(t) == <<t, calls[t]>>

ChanInit ==
    /\ ThreadsInit
    /\ buffer = <<>>
    /\ notEmpty = <<>> /\ notFull = <<>>
    /\ pc = [t \in Threads |-> "idle"]
    /\ calls = [t \in Threads |-> 0]
    /\ received = <<>>

ChanCall(t, label) ==
    /\ At(t, "idle")
    /\ MapThenSumSet(LAMBDA u : calls[u], Threads) < MaxChanCalls
    /\ calls' = [calls EXCEPT ![t] = @ + 1]
    /\ Goto(t, label)
    /\ UNCHANGED <<threadVars, buffer, notEmpty, notFull, received>>

-----------------------------------------------------------------------------
(* send and try_send *)

(* Mutant: one message too many.                                            *)
PushBeyond(t) ==
    /\ At(t, "send") \/ At(t, "trySend")
    /\ Len(buffer) <= Capacity
    /\ buffer' = Append(buffer, Message(t))
    /\ Goto(t, "sendWake")
    /\ UNCHANGED <<threadVars, notEmpty, notFull, calls, received>>

(* The push, under the buffer lock.                                         *)
Push(t) ==
    /\ At(t, "send") \/ At(t, "trySend")
    /\ Len(buffer) < Capacity
    /\ buffer' = Append(buffer, Message(t))
    /\ Goto(t, "sendWake")
    /\ UNCHANGED <<threadVars, notEmpty, notFull, calls, received>>

(* send on a full buffer: prepare_wait, still under the buffer lock.        *)
WaitNotFull(t) ==
    /\ At(t, "send")
    /\ Len(buffer) >= Capacity
    /\ PrepareWait(t)
    /\ notFull' = Append(notFull, t)
    /\ Goto(t, "sendSleep")
    /\ UNCHANGED <<buffer, notEmpty, calls, received>>

(* try_send on a full buffer gives the message back.                        *)
TrySendFull(t) ==
    /\ At(t, "trySend")
    /\ Len(buffer) >= Capacity
    /\ Goto(t, "idle")
    /\ UNCHANGED <<threadVars, buffer, notEmpty, notFull, calls, received>>

WakeReceiver(t) ==
    /\ At(t, "sendWake")
    /\ WakeOne(notEmpty)
    /\ notEmpty' = AfterWake(notEmpty)
    /\ Goto(t, "idle")
    /\ UNCHANGED <<buffer, notFull, calls, received>>

-----------------------------------------------------------------------------
(* recv and try_recv *)

Pop(t) ==
    /\ At(t, "recv") \/ At(t, "tryRecv")
    /\ buffer # <<>>
    /\ buffer' = Tail(buffer)
    /\ received' = Append(received, Head(buffer))
    /\ Goto(t, "recvWake")
    /\ UNCHANGED <<threadVars, notEmpty, notFull, calls>>

WaitNotEmpty(t) ==
    /\ At(t, "recv")
    /\ buffer = <<>>
    /\ PrepareWait(t)
    /\ notEmpty' = Append(notEmpty, t)
    /\ Goto(t, "recvSleep")
    /\ UNCHANGED <<buffer, notFull, calls, received>>

(* try_recv on an empty buffer returns None.                                *)
TryRecvEmpty(t) ==
    /\ At(t, "tryRecv")
    /\ buffer = <<>>
    /\ Goto(t, "idle")
    /\ UNCHANGED <<threadVars, buffer, notEmpty, notFull, calls, received>>

WakeSender(t) ==
    /\ At(t, "recvWake")
    /\ WakeOne(notFull)
    /\ notFull' = AfterWake(notFull)
    /\ Goto(t, "idle")
    /\ UNCHANGED <<buffer, notEmpty, calls, received>>

-----------------------------------------------------------------------------
(* schedule() and finish_wait, after which the loop starts again.           *)
ChanSchedule(t) ==
    /\ \/ At(t, "sendSleep") /\ Goto(t, "sendAwake")
       \/ At(t, "recvSleep") /\ Goto(t, "recvAwake")
    /\ Reschedule
    /\ UNCHANGED <<buffer, notEmpty, notFull, calls, received>>

ChanLeave(t) ==
    /\ \/ /\ At(t, "sendAwake")
          /\ Goto(t, "send")
          /\ notFull' = Without(notFull, t)
          /\ UNCHANGED notEmpty
       \/ /\ At(t, "recvAwake")
          /\ Goto(t, "recv")
          /\ notEmpty' = Without(notEmpty, t)
          /\ UNCHANGED notFull
    /\ FinishWait(t)
    /\ UNCHANGED <<buffer, calls, received>>

ChanPreempt == Reschedule /\ UNCHANGED chanVars

ChanStep(t) ==
    \/ Push(t) \/ WaitNotFull(t) \/ TrySendFull(t) \/ WakeReceiver(t)
    \/ Pop(t) \/ WaitNotEmpty(t) \/ TryRecvEmpty(t) \/ WakeSender(t)
    \/ ChanSchedule(t) \/ ChanLeave(t)

ChanNext ==
    \/ ChanPreempt
    \/ \E t \in Threads, op \in {"send", "trySend", "recv", "tryRecv"} : ChanCall(t, op)
    \/ \E t \in Threads : ChanStep(t)

(* The timer keeps firing, and a thread inside a call gets on when it has   *)
(* the CPU again and again.                                                 *)
ChanFairness == WF_channelVars(ChanPreempt) /\ \A t \in Threads : SF_channelVars(ChanStep(t))

ChanSpec == ChanInit /\ [][ChanNext]_channelVars /\ ChanFairness

-----------------------------------------------------------------------------
(* Properties *)

ChanTypeOK ==
    /\ ThreadsTypeOK
    /\ notEmpty \in Seq(Threads) /\ notFull \in Seq(Threads)
    /\ pc \in [Threads -> ChanPcs]
    /\ calls \in [Threads -> Nat]
    /\ buffer \in Seq(Threads \X Nat)
    /\ received \in Seq(Threads \X Nat)

(* The channel is exact: its buffer never exceeds the capacity, no message  *)
(* is received twice or lies in the buffer after it was received, and the   *)
(* messages of one sender come out in the order they were sent.             *)
ExactlyOnceInOrder ==
    LET all == received \o buffer
    IN  /\ Len(buffer) <= Capacity
        /\ \A i, j \in DOMAIN all :
              i < j /\ all[i][1] = all[j][1] => all[i][2] < all[j][2]

(* Who sleeps has a reason, or somebody about to wake a sleeper: a blocked  *)
(* receiver sleeps only while every message in the buffer is accounted for  *)
(* by a thread that is going to wake a receiver or is a receiver already    *)
(* awake; and the same for senders and free places.                         *)
SleepIsJustified ==
    LET Asleep(q) == \E t \in ToSet(q) : state[t] = "Blocked" /\ current # t
        Awake(labels) == Cardinality({t \in Threads :
                            pc[t] \in labels /\ state[t] # "Blocked"})
    IN  /\ Asleep(notEmpty) =>
              Len(buffer) <= Awake({"sendWake", "recv", "tryRecv",
                                   "recvSleep", "recvAwake"})
        /\ Asleep(notFull) =>
              Capacity - Len(buffer)
                 <= Awake({"recvWake", "send", "trySend",
                           "sendSleep", "sendAwake"})

(* The buffer is exact and nobody sleeps without a reason (sync.rs:         *)
(* BlockingChannel's send and recv against each other and the timer).       *)
ChannelSound == ExactlyOnceInOrder /\ SleepIsJustified

(* send returns while there is room, and recv while there are messages, for *)
(* one of the threads that wait: a channel with room or messages and a      *)
(* waiter always makes progress.                                            *)
ChannelProgress ==
    /\ \A t \in Threads :
          (pc[t] \in {"recv", "recvSleep", "recvAwake"} /\ buffer # <<>>)
             ~> (pc[t] = "recvWake" \/ buffer = <<>>)
    /\ \A t \in Threads :
          (pc[t] \in {"send", "sendSleep", "sendAwake"} /\ Len(buffer) < Capacity)
             ~> (pc[t] = "sendWake" \/ Len(buffer) = Capacity)
=============================================================================
