------------------------------ MODULE Network -------------------------------
(* The kernel's own network stack (net.rs, net_socket.rs): a table of        *)
(* sockets under one spin lock, the ARP cache, and the frames of the         *)
(* receive ring, which have two readers: the kernel while it resolves an     *)
(* address, and the system call of a driver in user space.                   *)
(*                                                                           *)
(* find_slot takes the lock of the socket table, and sys_connect, sys_send   *)
(* and sys_recv call it with that lock held: the lock is a spin lock that    *)
(* its owner cannot take twice, so that these calls never return, and the    *)
(* rest of their bodies (the TCP handshake with it) is never reached.        *)
EXTENDS Integers, Sequences, SequencesExt, FiniteSets

CONSTANTS Callers,            \* processes that use sockets
          NSockets,           \* slots of the socket table (64)
          FirstPort, LastPort,\* the ports allocate_port deals out (49152..65535)
          RxMax,              \* datagrams a socket keeps (16)
          CacheMax,           \* entries of the ARP cache (32)
          Hosts, Macs,        \* other hosts, hardware addresses
          Tries, Polls,       \* requests per resolution, polls per request (3, 50)
          RingMax, MaxFrames, \* bounds: frames in the ring, frames in all
          MaxFd               \* bound: descriptors given out

VARIABLES sock,      \* SOCKET_TABLE.sockets
          nextFd, nextPort,
          holds,     \* who holds the lock of the table
          at,        \* caller -> "runs" or "spins"
          rxRing,    \* the receive ring of the card
          arp,       \* ARP_CACHE, the oldest entry first
          res,       \* the resolution under way
          frames,    \* frames that arrived so far
          clash,     \* descriptors to which allocate_port gave a port another socket had
          lastRead,  \* descriptor -> number of the last datagram read
          claims,    \* hardware addresses claimed by the replies taken from the ring
          answered   \* requests for our address taken, and replies sent
netVars == <<sock, nextFd, nextPort, holds, at, rxRing, arp, res, frames, clash, lastRead, claims, answered>>

Nobody == "nobody"
MyIp == "my ip"
Broadcast == "broadcast"
NoSocket == [fd |-> -1, kind |-> "none", port |-> 0, listening |-> FALSE, rx |-> <<>>]
IdleRes == [ip |-> MyIp, tries |-> 0, polls |-> 0, state |-> "idle", mac |-> Broadcast]
(* One shape for every frame: what follows an ARP request is its padding. *)
Frame(kind, ip, mac, port) == [kind |-> kind, ip |-> ip, mac |-> mac, port |-> port]
Frames ==
    {Frame("reply", h, m, 0) : h \in Hosts \cup {MyIp}, m \in Macs}
    \cup {Frame("request", "none", "none", 0)}
    \cup {Frame("udp", "none", "none", p) : p \in FirstPort..LastPort}
    \cup {Frame("tcp", "none", "none", FirstPort)}
    \cup {Frame("runt", "none", "none", FirstPort)}     \* UDP with a length field below 8
-----------------------------------------------------------------------------
SocketInit ==
    /\ sock = [i \in 1..NSockets |-> NoSocket] /\ nextFd = 0 /\ nextPort = FirstPort
    /\ holds = Nobody /\ at = [p \in Callers |-> "runs"]
    /\ rxRing = <<>> /\ arp = <<>> /\ res = IdleRes /\ frames = 0
    /\ clash = {} /\ lastRead = [d \in 0..MaxFd |-> 0] /\ claims = {} /\ answered = <<0, 0>>

Live == {i \in 1..NSockets : sock[i].fd # -1}
SlotsOf(fd) == {i \in Live : sock[i].fd = fd}
Lowest(S) == CHOOSE i \in S : \A j \in S : i <= j
AfterPort(p) == IF p = LastPort THEN FirstPort ELSE p + 1

(* A call that needs the table: while someone holds its lock the caller *)
(* spins, and nobody who holds it between two steps ever lets it go.    *)
Panicked == res.state = "panicked"     \* the panic handler never returns
Enters(p) == at[p] = "runs" /\ holds = Nobody /\ ~Panicked
WaitTable(p) ==
    /\ at[p] = "runs" /\ holds # Nobody /\ ~Panicked
    /\ at' = [at EXCEPT ![p] = "spins"]
    /\ UNCHANGED <<sock, nextFd, nextPort, holds, rxRing, arp, res, frames, clash, lastRead, claims, answered>>
(* sys_connect, sys_send, sys_recv: the lock is taken, and find_slot waits for it. *)
Relock(p) ==
    /\ Enters(p)
    /\ holds' = p /\ at' = [at EXCEPT ![p] = "spins"]
    /\ UNCHANGED <<sock, nextFd, nextPort, rxRing, arp, res, frames, clash, lastRead, claims, answered>>

OpenSocket(p, kind) ==
    /\ Enters(p) /\ Live # 1..NSockets /\ nextFd < MaxFd
    /\ LET i == Lowest((1..NSockets) \ Live)
       IN sock' = [sock EXCEPT ![i] = [NoSocket EXCEPT !.fd = nextFd, !.kind = kind]]
    /\ nextFd' = nextFd + 1
    /\ UNCHANGED <<nextPort, holds, at, rxRing, arp, res, frames, clash, lastRead, claims, answered>>

PortTaken(port) == \E i \in Live : sock[i].port = port
BoundTo(fd, port) ==
    sock' = [sock EXCEPT ![Lowest(SlotsOf(fd))].port = IF port = 0 THEN nextPort ELSE port]
Bind(p, fd, port) ==
    /\ Enters(p) /\ SlotsOf(fd) # {}
    /\ port # 0 => ~PortTaken(port)
    /\ BoundTo(fd, port)
    /\ nextPort' = IF port = 0 THEN AfterPort(nextPort) ELSE nextPort
    /\ clash' = IF port = 0 /\ \E i \in Live \ SlotsOf(fd) : sock[i].port = nextPort
                THEN clash \cup {fd} ELSE clash \ {fd}
    /\ UNCHANGED <<nextFd, holds, at, rxRing, arp, res, frames, lastRead, claims, answered>>

Listen(p, fd) ==
    /\ Enters(p) /\ \E i \in SlotsOf(fd) : sock[i].kind = "tcp" /\ ~sock[i].listening
    /\ sock' = [sock EXCEPT ![Lowest(SlotsOf(fd))].listening = TRUE]
    /\ UNCHANGED <<nextFd, nextPort, holds, at, rxRing, arp, res, frames, clash, lastRead, claims, answered>>

(* recv of the dispatcher, which looks for the socket itself. *)
Recv(p, fd) ==
    /\ Enters(p) /\ \E i \in SlotsOf(fd) : sock[i].rx # <<>>
    /\ LET i == Lowest(SlotsOf(fd))
       IN /\ sock' = [sock EXCEPT ![i].rx = Tail(@)]
          /\ lastRead' = [lastRead EXCEPT ![fd] = Head(sock[i].rx)]
    /\ UNCHANGED <<nextFd, nextPort, holds, at, rxRing, arp, res, frames, clash, claims, answered>>

CloseSocket(p, fd) ==
    /\ Enters(p) /\ SlotsOf(fd) # {}
    /\ sock' = [sock EXCEPT ![Lowest(SlotsOf(fd))] = NoSocket]
    /\ clash' = clash \ {fd}
    /\ UNCHANGED <<nextFd, nextPort, holds, at, rxRing, arp, res, frames, lastRead, claims, answered>>
-----------------------------------------------------------------------------
(* deliver_packet_to_socket: the first slot with the port takes the datagram, *)
(* or drops it when its buffer is full.  A TCP segment finds a socket that is *)
(* closed or listening, neither of which takes it.                            *)
Takers(port) == {i \in Live : sock[i].kind = "udp" /\ sock[i].port = port}
DeliverPacket(port, n) ==
    IF Takers(port) = {} THEN sock
    ELSE LET i == Lowest(Takers(port))
         IN IF Len(sock[i].rx) < RxMax THEN [sock EXCEPT ![i].rx = Append(@, n)] ELSE sock

(* The cache refreshes the entry of a host, or evicts the oldest. *)
CacheInsert(ip, mac) ==
    IF \E i \in DOMAIN arp : arp[i].ip = ip
    THEN [i \in DOMAIN arp |-> IF arp[i].ip = ip THEN [arp[i] EXCEPT !.mac = mac] ELSE arp[i]]
    ELSE Append(IF Len(arp) >= CacheMax THEN Tail(arp) ELSE arp, [ip |-> ip, mac |-> mac])
Cached(cache, ip) == \E i \in DOMAIN cache : cache[i].ip = ip
MacOf(cache, ip) == (CHOOSE e \in Range(cache) : e.ip = ip).mac

(* handle_incoming_arp.  The address a request asks for is read behind the   *)
(* frame's four addresses, at byte 42 instead of 38: nothing, or padding.    *)
AsksFor(f) == "padding"
Learnt(f) ==
    IF f.kind = "reply" /\ f.ip # MyIp THEN CacheInsert(f.ip, f.mac) ELSE arp
Answers(f) ==
    IF f.kind # "request" THEN answered
    ELSE <<answered[1] + 1, answered[2] + IF AsksFor(f) = MyIp THEN 1 ELSE 0>>
-----------------------------------------------------------------------------
(* resolve_ip: the cache first, then requests and polls. *)
Resolve(ip) ==
    /\ res.state = "idle"
    /\ res' = IF Cached(arp, ip) THEN [IdleRes EXCEPT !.ip = ip, !.state = "done", !.mac = MacOf(arp, ip)]
              ELSE [IdleRes EXCEPT !.ip = ip, !.state = "asks"]
    /\ UNCHANGED <<sock, nextFd, nextPort, holds, at, rxRing, arp, frames, clash, lastRead, claims, answered>>

AskAgain ==
    /\ res.state = "asks" /\ res.tries < Tries
    /\ res' = [res EXCEPT !.tries = @ + 1, !.polls = 0, !.state = "polls"]
    /\ UNCHANGED <<sock, nextFd, nextPort, holds, at, rxRing, arp, frames, clash, lastRead, claims, answered>>

(* A frame that is not ARP goes to the sockets: with the table held by a     *)
(* caller that spins, the resolution spins as well.                          *)
PollStuck ==
    /\ res.state = "polls" /\ rxRing # <<>> /\ holds # Nobody
    /\ Head(rxRing).frame.kind \in {"udp", "tcp"}
    /\ rxRing' = Tail(rxRing) /\ res' = [res EXCEPT !.state = "spins"]
    /\ UNCHANGED <<sock, nextFd, nextPort, holds, at, arp, frames, clash, lastRead, claims, answered>>

(* handle_incoming_udp cuts the payload out from byte 8 to the length field: *)
(* a range that ends before it begins panics, before the table is locked.    *)
PollRunt ==
    /\ res.state = "polls" /\ rxRing # <<>> /\ Head(rxRing).frame.kind = "runt"
    /\ rxRing' = Tail(rxRing) /\ res' = [res EXCEPT !.state = "panicked"]
    /\ UNCHANGED <<sock, nextFd, nextPort, holds, at, arp, frames, clash, lastRead, claims, answered>>

Polled(cache) ==
    IF Cached(cache, res.ip) THEN [res EXCEPT !.state = "done", !.mac = MacOf(cache, res.ip)]
    ELSE [res EXCEPT !.polls = @ + 1, !.state = IF res.polls + 1 = Polls THEN "asks" ELSE "polls"]
PollEmpty ==
    /\ res.state = "polls" /\ rxRing = <<>>
    /\ res' = Polled(arp)
    /\ UNCHANGED <<sock, nextFd, nextPort, holds, at, rxRing, arp, frames, clash, lastRead, claims, answered>>
PollFrame ==
    /\ res.state = "polls" /\ rxRing # <<>>
    /\ LET f == Head(rxRing).frame
       IN /\ f.kind # "runt" /\ (f.kind \in {"udp", "tcp"} => holds = Nobody)
          /\ sock' = IF f.kind = "udp" THEN DeliverPacket(f.port, Head(rxRing).n) ELSE sock
          /\ arp' = Learnt(f) /\ answered' = Answers(f)
          /\ claims' = IF f.kind = "reply" THEN claims \cup {<<f.ip, f.mac>>} ELSE claims
          /\ res' = Polled(Learnt(f))
    /\ rxRing' = Tail(rxRing)
    /\ UNCHANGED <<nextFd, nextPort, holds, at, frames, clash, lastRead>>

GiveUp ==
    /\ res.state = "asks" /\ res.tries = Tries
    /\ res' = [res EXCEPT !.state = "done",
                          !.mac = IF Cached(arp, res.ip) THEN MacOf(arp, res.ip) ELSE Broadcast]
    /\ UNCHANGED <<sock, nextFd, nextPort, holds, at, rxRing, arp, frames, clash, lastRead, claims, answered>>
Answered ==
    /\ res.state = "done" /\ res' = IdleRes
    /\ UNCHANGED <<sock, nextFd, nextPort, holds, at, rxRing, arp, frames, clash, lastRead, claims, answered>>

(* sys_net_recv_frame: a driver in user space takes the next frame. *)
TakeFrame ==
    /\ rxRing # <<>> /\ ~Panicked /\ rxRing' = Tail(rxRing)
    /\ UNCHANGED <<sock, nextFd, nextPort, holds, at, arp, res, frames, clash, lastRead, claims, answered>>
(* The card drops what its ring has no room for. *)
Arrive(f) ==
    /\ frames < MaxFrames /\ Len(rxRing) < RingMax /\ ~Panicked
    /\ frames' = frames + 1 /\ rxRing' = Append(rxRing, [frame |-> f, n |-> frames + 1])
    /\ UNCHANGED <<sock, nextFd, nextPort, holds, at, arp, res, clash, lastRead, claims, answered>>

Resolver == AskAgain \/ PollStuck \/ PollRunt \/ PollEmpty \/ PollFrame \/ GiveUp \/ Answered
SocketCalls ==
    \E p \in Callers :
       \/ \E kind \in {"udp", "tcp"} : OpenSocket(p, kind)
       \/ \E fd \in 0..(MaxFd - 1) : Listen(p, fd) \/ Recv(p, fd) \/ CloseSocket(p, fd)
       \/ \E fd \in 0..(MaxFd - 1), port \in 0..LastPort : Bind(p, fd, port)
StuckCalls == \E p \in Callers : WaitTable(p) \/ Relock(p)
-----------------------------------------------------------------------------
(* Two sockets share a port only while one of them was given it by           *)
(* allocate_port although the other had it: allocate_port does not look      *)
(* whether its port is in use, bind refuses one it is asked for that is.     *)
PortsDiffer ==
    \A i, j \in Live : i # j /\ sock[i].port = sock[j].port /\ sock[i].port # 0
                       => {sock[i].fd, sock[j].fd} \cap clash # {}

(* A socket hands out its datagrams in the order in which they arrived, and  *)
(* none twice, whoever polled them out of the ring.                          *)
DatagramsInOrder ==
    \A i \in Live : LET all == <<lastRead[sock[i].fd]>> \o sock[i].rx
                    IN \A k \in 1..(Len(all) - 1) : all[k] < all[k + 1]

(* The ARP cache has one entry for a host, none for this machine, and only   *)
(* addresses that a reply claimed.                                           *)
CacheIsSound ==
    /\ Len(arp) <= CacheMax
    /\ \A i, j \in DOMAIN arp : i # j => arp[i].ip # arp[j].ip
    /\ \A i \in DOMAIN arp : arp[i].ip # MyIp /\ <<arp[i].ip, arp[i].mac>> \in claims

(* A resolution ends, with an address or the broadcast one, whatever frames  *)
(* come in or are taken away, unless it takes a datagram for the sockets     *)
(* from the ring while a caller sits on their table, or one whose length     *)
(* field is too small, on which the kernel panics.                           *)
ResolveEnds == []<>(res.state \in {"idle", "spins", "panicked"})

(* connect is bounded (the comment of tcp_handshake): a call returns. *)
CallReturns == \A p \in Callers : (at[p] = "spins") ~> (at[p] = "runs")

(* A request for this machine's address is answered when it is read. *)
RequestAnswered == answered[1] = answered[2]

-----------------------------------------------------------------------------
(* The RTL8139 driver (rtl8139.rs) and the card's receive ring.  The card    *)
(* writes an entry of 4 bytes of header and the packet, rounded up to 4, at  *)
(* its own position; the driver reads at rx_idx and tells the card through   *)
(* CAPR how far it read.  init() resets the card and neither rx_idx nor      *)
(* tx_cur.                                                                   *)

CONSTANTS RingBytes,   \* bytes of the ring (8192)
          BufferBytes, \* bytes of rx_buffer (8192 + 16 + 1500)
          Lengths,     \* lengths the card reports, the CRC included
          NTx,         \* transmit descriptors (4)
          MaxPackets   \* bound: packets that arrive

VARIABLES rxIdx, txCur,        \* the driver's indices
          cardAt, cardRead,    \* where the card writes next, and what it was told is read
          entries,             \* [at, len, id] of the entries not yet read
          cardTx,              \* the descriptor the card looks at next
          arrivals, seen,      \* packets that arrived, the id of the last one handed up
          outOfStep,           \* the ring's end was hit exactly, or the card was reset
          copyPanic            \* poll_rx panicked in copying a packet
nicVars == <<rxIdx, txCur, cardAt, cardRead, entries, cardTx, arrivals, seen, outOfStep, copyPanic>>

Aligned(n) == ((n + 3) \div 4) * 4
EntryBytes(len) == Aligned(len + 4)
NicInit ==
    /\ rxIdx = 0 /\ txCur = 0 /\ cardAt = 0 /\ cardRead = 0 /\ entries = <<>> /\ cardTx = 0
    /\ arrivals = 0 /\ seen = 0 /\ outOfStep = FALSE /\ copyPanic = FALSE

(* The card keeps a packet when it fits in what was read. *)
Room == (RingBytes + cardRead - cardAt) % RingBytes
CardReceives(len) ==
    /\ arrivals < MaxPackets /\ (Room = 0 \/ EntryBytes(len) < Room)
    /\ arrivals' = arrivals + 1
    /\ entries' = Append(entries, [at |-> cardAt, len |-> len, id |-> arrivals + 1])
    /\ cardAt' = (cardAt + EntryBytes(len)) % RingBytes
    /\ UNCHANGED <<rxIdx, txCur, cardRead, cardTx, seen, outOfStep, copyPanic>>

(* The length includes the four bytes of the CRC, which are not copied: a   *)
(* length below 4 underflows, and the packet must end inside the buffer.    *)
Copies(len) == len >= 4 /\ rxIdx + 4 + (len - 4) <= BufferBytes
Advance(len) ==
    LET next == rxIdx + EntryBytes(len) IN IF next > RingBytes THEN next - RingBytes ELSE next
NotEmpty == cardAt # cardRead
(* poll_rx: a header the card wrote, or whatever lies there. *)
Here == {i \in DOMAIN entries : entries[i].at = rxIdx}
PollPacket ==
    /\ NotEmpty /\ Here # {}
    /\ LET i == CHOOSE i \in Here : \A j \in Here : i <= j
       IN /\ Copies(entries[i].len)
          /\ rxIdx' = Advance(entries[i].len) /\ seen' = entries[i].id
          /\ entries' = SubSeq(entries, i + 1, Len(entries))
    /\ cardRead' = rxIdx' % RingBytes
    /\ outOfStep' = (outOfStep \/ rxIdx' = RingBytes)
    /\ UNCHANGED <<txCur, cardAt, cardTx, arrivals, copyPanic>>
PollStale(len) ==
    /\ NotEmpty /\ Here = {} /\ Copies(len)
    /\ rxIdx' = Advance(len) /\ cardRead' = rxIdx' % RingBytes
    /\ UNCHANGED <<txCur, cardAt, entries, cardTx, arrivals, seen, outOfStep, copyPanic>>
PollPanic ==
    /\ NotEmpty
    /\ \E len \in IF Here = {} THEN 1..RingBytes ELSE {entries[i].len : i \in Here} : ~Copies(len)
    /\ copyPanic' = TRUE
    /\ UNCHANGED <<rxIdx, txCur, cardAt, cardRead, entries, cardTx, arrivals, seen, outOfStep>>
PollReset ==
    /\ NotEmpty /\ Here = {}
    /\ cardAt' = 0 /\ cardRead' = 0 /\ entries' = <<>> /\ cardTx' = 0
    /\ outOfStep' = TRUE
    /\ UNCHANGED <<rxIdx, txCur, arrivals, seen, copyPanic>>

(* send_packet writes the next descriptor; the card sends it at once when it *)
(* is the one it looks at, and waits for its own otherwise.                  *)
NextTx(i) == (i + 1) % NTx
SendPacket ==
    /\ txCur' = NextTx(txCur)
    /\ cardTx' = IF cardTx = txCur THEN (cardTx + 1) % NTx ELSE cardTx
    /\ UNCHANGED <<rxIdx, cardAt, cardRead, entries, arrivals, seen, outOfStep, copyPanic>>

NicNext ==
    /\ ~copyPanic
    /\ \/ \E len \in Lengths : CardReceives(len)
       \/ \E len \in 1..RingBytes : PollStale(len)
       \/ PollPacket \/ PollPanic \/ PollReset \/ SendPacket
-----------------------------------------------------------------------------
(* The driver reads where the card wrote the oldest unread entry, and writes *)
(* the descriptor the card looks at, unless its index stood exactly at the   *)
(* ring's end, which poll_rx does not wrap, or the card was reset.           *)
DriverInStep ==
    ~outOfStep => /\ txCur = cardTx
                  /\ rxIdx % RingBytes = cardRead
                  /\ entries # <<>> => entries[1].at = rxIdx % RingBytes

(* The driver begins to read inside the ring, in step or not, and a packet   *)
(* the card wrote is always copied: only out of step can it meet a length    *)
(* that underflows or leads behind the buffer, on which it panics.           *)
ReadInBuffer == rxIdx \in 0..RingBytes /\ (copyPanic => outOfStep /\ Here = {})

-----------------------------------------------------------------------------
(* parse_dns_response (net.rs): the questions are skipped, then the address  *)
(* of each A record is read.  A packet is a short sequence of cells: the     *)
(* length of a label, 0 for the end of a name, Pointer for a compressed one; *)
(* the four bytes behind a question are one cell, the ten of a record's      *)
(* fixed part two, the second its rdlength.                                  *)

CONSTANTS Cells,       \* what a cell may hold, Pointer apart
          MaxCells     \* length of the packets
Pointer == 192
QTail == 1
Fixed == 2
ALen == 1              \* the length of an IPv4 address

VARIABLES cells, qLeft, aLeft, off, dnsAt, reads, ips
dnsVars == <<cells, qLeft, aLeft, off, dnsAt, reads, ips>>

Size == Len(cells)
Cell == cells[off + 1]
DnsInit ==
    /\ cells \in UNION {[1..n -> Cells \cup {Pointer}] : n \in 1..MaxCells}
    /\ qLeft \in 0..2 /\ aLeft \in 1..2 /\ off = 0
    /\ dnsAt = "questions" /\ reads = {} /\ ips = <<>>
Reads(S) == reads' = reads \cup S

QuestionLabel ==
    /\ dnsAt = "questions" /\ qLeft > 0 /\ off < Size
    /\ Cell # 0 /\ Cell # Pointer
    /\ off' = off + Cell + 1 /\ Reads({off})
    /\ UNCHANGED <<cells, qLeft, aLeft, dnsAt, ips>>
QuestionEnd ==
    /\ dnsAt = "questions" /\ qLeft > 0
    /\ off < Size => Cell \in {0, Pointer}
    /\ off' = off + (IF off < Size /\ Cell = Pointer THEN 1 ELSE 0) + 1 + QTail
    /\ qLeft' = qLeft - 1 /\ Reads(IF off < Size THEN {off} ELSE {})
    /\ UNCHANGED <<cells, aLeft, dnsAt, ips>>
QuestionsRead ==
    /\ dnsAt = "questions" /\ qLeft = 0
    /\ dnsAt' = IF off >= Size THEN "done" ELSE "name"
    /\ UNCHANGED <<cells, qLeft, aLeft, off, reads, ips>>

NamePointer ==
    /\ dnsAt = "name" /\ off < Size /\ Cell = Pointer
    /\ off' = off + 2 /\ dnsAt' = "fixed" /\ Reads({off})
    /\ UNCHANGED <<cells, qLeft, aLeft, ips>>
(* Mutant: the offset stays where it is. *)
NameLabelStuck ==
    /\ dnsAt \in {"name", "label"} /\ off < Size /\ Cell # 0
    /\ dnsAt = "name" => Cell # Pointer
    /\ dnsAt' = "label" /\ Reads({off})
    /\ UNCHANGED <<cells, qLeft, aLeft, off, ips>>
(* A pointer behind a label counts as the length of a label. *)
NameLabel ==
    /\ dnsAt \in {"name", "label"} /\ off < Size /\ Cell # 0
    /\ dnsAt = "name" => Cell # Pointer
    /\ off' = off + Cell + 1 /\ dnsAt' = "label" /\ Reads({off})
    /\ UNCHANGED <<cells, qLeft, aLeft, ips>>
NameEnd ==
    /\ dnsAt \in {"name", "label"}
    /\ off < Size => Cell = 0
    /\ off' = off + 1 /\ dnsAt' = "fixed" /\ Reads(IF off < Size THEN {off} ELSE {})
    /\ UNCHANGED <<cells, qLeft, aLeft, ips>>

Truncated == dnsAt' = "done" /\ UNCHANGED <<cells, qLeft, aLeft, off, reads, ips>>
FixedCut == dnsAt = "fixed" /\ off + Fixed > Size /\ Truncated
RdLength == cells[off + Fixed]
Behind == off + Fixed
DataFits(len) == Behind + len <= Size
DataCut ==
    /\ dnsAt = "fixed" /\ off + Fixed <= Size /\ ~DataFits(RdLength)
    /\ dnsAt' = "done" /\ Reads({off, off + 1})
    /\ UNCHANGED <<cells, qLeft, aLeft, off, ips>>
PastRecord == Behind + RdLength
Record ==
    /\ dnsAt = "fixed" /\ off + Fixed <= Size /\ DataFits(RdLength)
    /\ LET isA == Cell = 1 /\ RdLength = ALen
       IN /\ ips' = IF isA THEN Append(ips, Behind) ELSE ips
          /\ Reads({off, off + 1} \cup IF isA THEN {Behind} ELSE {})
    /\ off' = PastRecord /\ aLeft' = aLeft - 1
    /\ dnsAt' = IF aLeft = 1 \/ PastRecord >= Size THEN "done" ELSE "name"
    /\ UNCHANGED <<cells, qLeft>>

DnsNext ==
    \/ QuestionLabel \/ QuestionEnd \/ QuestionsRead
    \/ NamePointer \/ NameLabel \/ NameEnd \/ FixedCut \/ DataCut \/ Record
-----------------------------------------------------------------------------
(* The parser reads nothing outside the packet, whatever lengths, pointers   *)
(* and counts the packet holds.                                              *)
DnsReadsInside == \A r \in reads : r < Size

(* The addresses it returns lie behind one another, each behind a record's   *)
(* name and fixed part of its own.                                           *)
AnswersApart == \A k \in 1..(Len(ips) - 1) : ips[k + 1] >= ips[k] + ALen + Fixed + 1

(* It comes to an end. *)
DnsParsed == []<>(dnsAt = "done")
=============================================================================
