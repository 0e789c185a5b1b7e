------------------------------ MODULE WaitFifo ------------------------------
(***************************************************************************)
(* What a wait queue promises: the processes that wait on it, in the order *)
(* they came.  A process joins at the end, is woken from the front, and    *)
(* may leave from anywhere.                                                *)
(***************************************************************************)
EXTENDS Naturals, Sequences

CONSTANTS Pids, Queues

VARIABLE fifo

Init == fifo = [q \in Queues |-> <<>>]

Join(p, q) ==
    /\ \A r \in Queues : \A i \in 1 .. Len(fifo[r]) : fifo[r][i] # p
    /\ fifo' = [fifo EXCEPT ![q] = Append(@, p)]

WakeFirst(q) ==
    /\ fifo[q] # <<>>
    /\ fifo' = [fifo EXCEPT ![q] = Tail(@)]

Leave(p, q) == fifo' = [fifo EXCEPT ![q] = SelectSeq(@, LAMBDA r : r # p)]

Next ==
    \E q \in Queues :
        \/ WakeFirst(q)
        \/ \E p \in Pids : Join(p, q) \/ Leave(p, q)

Spec == Init /\ [][Next]_fifo
=============================================================================
