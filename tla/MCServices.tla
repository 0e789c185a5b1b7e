----------------------------- MODULE MCServices -----------------------------
(* Model checking of the network and of the services, which share no state:  *)
(* a behaviour is one of one of them.  The network stack is followed once    *)
(* with every call on sockets, once with every kind of frame.                *)
EXTENDS Network, NetService, Services, Packages, Access

VARIABLE part
allVars == <<netVars, nicVars, dnsVars, svcVars, serviceVars, depends, packageVars, authVars, accessVars, part>>

Policies == [n \in Names |-> IF n = "fs" THEN "onfailure" ELSE "never"]
Asked == CHOOSE h \in Hosts : TRUE    \* the host that is resolved
Parts == {"sockets", "arp", "nic", "dns", "netsvc", "services", "boot", "packages", "auth", "modes", "pages"}

(* The parts that do not move begin in one state only. *)
Init ==
    /\ part \in Parts
    /\ SocketInit /\ NicInit /\ NetSvcInit /\ ServicesInit /\ AuthInit
    /\ IF part = "dns" THEN DnsInit
       ELSE cells = <<>> /\ qLeft = 0 /\ aLeft = 0 /\ off = 0 /\ dnsAt = "done" /\ reads = {} /\ ips = <<>>
    /\ IF part = "boot" THEN BootInit ELSE depends = [i \in Boot |-> {}]
    /\ IF part = "packages" THEN PackagesInit ELSE packages = {} /\ installed = <<>> /\ byShell = {}
    /\ IF part = "modes" THEN ModeInit
       ELSE req = [uid |-> 0, gid |-> 0, groups |-> {}, fuid |-> 0, fgid |-> 0, owner |-> {}, group |-> {},
                   others |-> {}, right |-> "read"]
    /\ IF part = "pages" THEN WalkInit
       ELSE walk = [table |-> [p \in Pages |-> Open], ptr |-> UserBase, len |-> 0]

Still == UNCHANGED <<depends, accessVars, part>>
Next ==
    \/ /\ part = "sockets"
       /\ \/ SocketCalls \/ Resolve(Asked) \/ Resolver
          \/ \E f \in Frames : f.kind \in {"udp", "tcp", "runt"} /\ frames < 2 /\ Arrive(f)
       /\ UNCHANGED <<nicVars, dnsVars, svcVars, serviceVars, packageVars, authVars>> /\ Still
    \/ /\ part = "arp"
       /\ \/ StuckCalls \/ Resolve(Asked) \/ Resolver \/ TakeFrame
          \/ \E f \in Frames : f.port < LastPort /\ Arrive(f)
       /\ UNCHANGED <<nicVars, dnsVars, svcVars, serviceVars, packageVars, authVars>> /\ Still
    \/ /\ part = "nic" /\ NicNext
       /\ UNCHANGED <<netVars, dnsVars, svcVars, serviceVars, packageVars, authVars>> /\ Still
    \/ /\ part = "dns" /\ DnsNext
       /\ UNCHANGED <<netVars, nicVars, svcVars, serviceVars, packageVars, authVars>> /\ Still
    \/ /\ part = "netsvc" /\ NetSvcNext
       /\ UNCHANGED <<netVars, nicVars, dnsVars, serviceVars, packageVars, authVars>> /\ Still
    \/ /\ part = "services" /\ ServicesNext
       /\ late' = {} \/ started' <= 2      \* a bound: late registrations among two processes
       /\ UNCHANGED <<netVars, nicVars, dnsVars, svcVars, packageVars, authVars>> /\ Still
    \/ /\ part = "packages" /\ PackagesNext
       /\ UNCHANGED <<netVars, nicVars, dnsVars, svcVars, serviceVars, authVars>> /\ Still
    \/ /\ part = "auth" /\ AuthNext
       /\ UNCHANGED <<netVars, nicVars, dnsVars, svcVars, serviceVars, packageVars>> /\ Still

(* The resolver polls in a loop of the kernel and the parser is a loop. *)
ResolverPolls ==
    /\ part \in {"sockets", "arp"} /\ Resolver
    /\ UNCHANGED <<nicVars, dnsVars, svcVars, serviceVars, packageVars, authVars>> /\ Still
Parses ==
    /\ part = "dns" /\ DnsNext
    /\ UNCHANGED <<netVars, nicVars, svcVars, serviceVars, packageVars, authVars>> /\ Still
Spec == Init /\ [][Next]_allVars /\ WF_allVars(ResolverPolls) /\ WF_allVars(Parses)
-----------------------------------------------------------------------------
(* Two sockets share a port only where allocate_port gave it twice, data     *)
(* arrives in order and is counted once, addresses in the ARP cache were     *)
(* announced, the driver and the card agree on the ring until it is hit at   *)
(* its end or reset and the driver panics only then, and the parser of names *)
(* reads nothing behind a packet (net_socket.rs, net.rs, rtl8139.rs,         *)
(* network_service.rs).                                                      *)
NetworkSound ==
    /\ PortsDiffer /\ DatagramsInOrder /\ CacheIsSound
    /\ DriverInStep /\ ReadInBuffer
    /\ DnsReadsInside /\ AnswersApart
    /\ StreamIsWhole /\ SequenceCounts

(* A service that is looked up is alive and of the generation that was       *)
(* given, but for the cases the parts name, restarts are bounded, and boot   *)
(* follows the dependencies (service.rs).                                    *)
ServicesSound == FoundIsAlive /\ GenerationTells /\ RestartsBounded /\ BootIsOrdered

(* What the package registry holds can be explained, wrong passwords lock an *)
(* account, the two checks of a file's mode agree, and the kernel writes for *)
(* a user only where the user could (pkg_service.rs, auth.rs, security.rs,   *)
(* sec_mem.rs).                                                              *)
AccessSound == RegistryIsExplained /\ ThreeStrikes /\ ChecksAgree /\ KernelWritesAsUser

(* A name is resolved or given up, unless the resolver waits for the socket  *)
(* table for ever or panics, and an answer is parsed to its end (net.rs).    *)
ServiceMoves == ResolveEnds /\ DnsParsed
=============================================================================
