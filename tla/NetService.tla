----------------------------- MODULE NetService -----------------------------
(* The decoupled network service (network_service.rs): sockets with an       *)
(* owner, TCP streams that segments are appended to, and the permission      *)
(* every request needs (permission.rs).  What arrives for a port goes to     *)
(* every socket of that port, whoever owns it, and nothing feeds the queues  *)
(* of UDP sockets.                                                           *)
EXTENDS Integers, Sequences, FiniteSets

CONSTANTS Apps, SvcPorts,     \* processes, ports they name
          FirstFree, LastFree,\* ephemeral ports
          MaxIds, MaxBytes    \* bounds: sockets created, bytes sent or received

VARIABLES udp, tcp,          \* socket id -> record, of the open sockets
          nextId, nextFree,
          granted,           \* processes with the network permission
          arrived,           \* socket id -> bytes that arrived since it was created
          taken,             \* socket id -> bytes its owner read
          sentBytes          \* socket id -> bytes sent, SYNs included
svcVars == <<udp, tcp, nextId, nextFree, granted, arrived, taken, sentBytes>>

Ids == 1..MaxIds
NetSvcInit ==
    /\ udp = <<>> /\ tcp = <<>> /\ nextId = 1 /\ nextFree = FirstFree /\ granted = {}
    /\ arrived = [i \in Ids |-> <<>>] /\ taken = [i \in Ids |-> <<>>] /\ sentBytes = [i \in Ids |-> 0]

With(f, k, v) == [x \in DOMAIN f \cup {k} |-> IF x = k THEN v ELSE f[x]]
Without(f, k) == [x \in DOMAIN f \ {k} |-> f[x]]
WrapPort(p) == IF p = LastFree THEN FirstFree ELSE p + 1
PortFor(port) == IF port = 0 THEN nextFree ELSE port
Permitted(pid) == pid \in granted

Grant(pid) ==
    /\ granted' = granted \cup {pid}
    /\ UNCHANGED <<udp, tcp, nextId, nextFree, arrived, taken, sentBytes>>
(* The process ends: its permissions go, its sockets do not. *)
Unregister(pid) ==
    /\ granted' = granted \ {pid}
    /\ UNCHANGED <<udp, tcp, nextId, nextFree, arrived, taken, sentBytes>>

CreateUdp(pid, port) ==
    /\ Permitted(pid) /\ nextId <= MaxIds
    /\ udp' = With(udp, nextId, [owner |-> pid, port |-> PortFor(port)])
    /\ nextId' = nextId + 1 /\ nextFree' = IF port = 0 THEN WrapPort(nextFree) ELSE nextFree
    /\ UNCHANGED <<tcp, granted, arrived, taken, sentBytes>>
CloseUdp(pid, id) ==
    /\ Permitted(pid) /\ id \in DOMAIN udp /\ udp[id].owner = pid
    /\ udp' = Without(udp, id)
    /\ UNCHANGED <<tcp, nextId, nextFree, granted, arrived, taken, sentBytes>>

CreateTcp(pid, port) ==
    /\ Permitted(pid) /\ nextId <= MaxIds
    /\ tcp' = With(tcp, nextId, [owner |-> pid, port |-> PortFor(port), state |-> "closed",
                                 seq |-> 0, ack |-> 0, rx |-> <<>>])
    /\ nextId' = nextId + 1 /\ nextFree' = IF port = 0 THEN WrapPort(nextFree) ELSE nextFree
    /\ UNCHANGED <<udp, granted, arrived, taken, sentBytes>>

OwnTcp(pid, id) == Permitted(pid) /\ id \in DOMAIN tcp /\ tcp[id].owner = pid
(* The SYN is sent and the connection is established without an answer. *)
ConnectTcp(pid, id) ==
    /\ OwnTcp(pid, id) /\ sentBytes[id] < MaxBytes
    /\ tcp' = [tcp EXCEPT ![id].state = "established", ![id].seq = @ + 1]
    /\ sentBytes' = [sentBytes EXCEPT ![id] = @ + 1]
    /\ UNCHANGED <<udp, nextId, nextFree, granted, arrived, taken>>
SendTcp(pid, id) ==
    /\ OwnTcp(pid, id) /\ tcp[id].state = "established" /\ sentBytes[id] < MaxBytes
    /\ tcp' = [tcp EXCEPT ![id].seq = @ + 1]
    /\ sentBytes' = [sentBytes EXCEPT ![id] = @ + 1]
    /\ UNCHANGED <<udp, nextId, nextFree, granted, arrived, taken>>

(* Mutant: what was not asked for is dropped. *)
RecvTcpAll(pid, id, max) ==
    /\ OwnTcp(pid, id) /\ tcp[id].rx # <<>>
    /\ LET n == IF Len(tcp[id].rx) < max THEN Len(tcp[id].rx) ELSE max
       IN taken' = [taken EXCEPT ![id] = @ \o SubSeq(tcp[id].rx, 1, n)]
    /\ tcp' = [tcp EXCEPT ![id].rx = <<>>]
    /\ UNCHANGED <<udp, nextId, nextFree, granted, arrived, sentBytes>>
(* At most max bytes from the front of the stream; the rest stays. *)
RecvTcp(pid, id, max) ==
    /\ OwnTcp(pid, id) /\ tcp[id].rx # <<>>
    /\ LET n == IF Len(tcp[id].rx) < max THEN Len(tcp[id].rx) ELSE max
       IN /\ taken' = [taken EXCEPT ![id] = @ \o SubSeq(tcp[id].rx, 1, n)]
          /\ tcp' = [tcp EXCEPT ![id].rx = SubSeq(@, n + 1, Len(@))]
    /\ UNCHANGED <<udp, nextId, nextFree, granted, arrived, sentBytes>>
CloseTcp(pid, id) ==
    /\ OwnTcp(pid, id)
    /\ tcp' = Without(tcp, id)
    /\ UNCHANGED <<udp, nextId, nextFree, granted, arrived, taken, sentBytes>>

(* dispatch_incoming_tcp: a segment of n bytes for every socket of the port. *)
OfPort(port) == {id \in DOMAIN tcp : tcp[id].port = port}
Segment(port, n) ==
    /\ OfPort(port) # {} /\ \A id \in OfPort(port) : Len(arrived[id]) + n <= MaxBytes
    /\ LET data(id) == [k \in 1..n |-> Len(arrived[id]) + k]
       IN /\ tcp' = [id \in DOMAIN tcp |->
                       IF id \notin OfPort(port) THEN tcp[id]
                       ELSE [tcp[id] EXCEPT !.ack = Len(arrived[id]) + (IF n = 0 THEN 1 ELSE n),
                                            !.rx = @ \o data(id)]]
          /\ arrived' = [id \in Ids |-> IF id \in OfPort(port) THEN arrived[id] \o data(id) ELSE arrived[id]]
    /\ UNCHANGED <<udp, nextId, nextFree, granted, taken, sentBytes>>

NetSvcNext ==
    \/ \E pid \in Apps : Grant(pid) \/ Unregister(pid)
    \/ \E pid \in Apps, port \in SvcPorts \cup {0} : CreateUdp(pid, port) \/ CreateTcp(pid, port)
    \/ \E pid \in Apps, id \in Ids :
          \/ CloseUdp(pid, id) \/ ConnectTcp(pid, id) \/ SendTcp(pid, id) \/ CloseTcp(pid, id)
          \/ \E max \in 1..2 : RecvTcp(pid, id, max)
    \/ \E port \in SvcPorts \cup FirstFree..LastFree, n \in 0..2 : Segment(port, n)
-----------------------------------------------------------------------------
(* What a socket's owner read and what still waits is what arrived for the   *)
(* socket, in order and once, however reads and segments alternate.          *)
StreamIsWhole == \A id \in DOMAIN tcp : taken[id] \o tcp[id].rx = arrived[id]

(* A socket's sequence number counts what was sent on it, over connections   *)
(* that are made again too.                                                  *)
SequenceCounts == \A id \in DOMAIN tcp : tcp[id].seq = sentBytes[id]
=============================================================================
