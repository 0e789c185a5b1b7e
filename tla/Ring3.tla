------------------------------- MODULE Ring3 -------------------------------
(* The services the kernel starts in user space (process.rs): programs the   *)
(* kernel assembles, run under preemption with the I/O ports of the task     *)
(* state segment as their only way to the devices.                           *)
(*                                                                           *)
(* An instruction is a system call, a port access or a jump.  The byte 0x49  *)
(* that the loops of the disk and of the network driver hold for dec ecx is  *)
(* a prefix in 64-bit mode, so that jnz tests what the instruction before it *)
(* left: the wait for BSY has no bound, the other two waits look once.       *)
EXTENDS Integers, Sequences, FiniteSets

CONSTANTS Together,    \* the sets of services that are started together
          TxLen,       \* bytes the serial driver writes (16)
          MaxEvents,   \* events the key service echoes (64)
          MaxKernel    \* bound: sectors the kernel reads meanwhile

NoPorts == "none"
Debug == "port_0x80"
Idle == "idle"
Chains == {<<"keysvc">>, <<"serdrv">>, <<"faultsvc">>, <<"netdrv", "netsvc">>, <<"demo">>, <<"livedemo">>,
           <<"disksvc", "fssvc", "sh", "displaysvc", "wm">>}
Services3 == UNION {{c[i] : i \in DOMAIN c} : c \in Chains}
ASSUME TogetherAssumption == \A t \in Together : t \subseteq Services3

VARIABLES at3,       \* service -> "off", "none", "ready", "runs", a state of Leaving, "exited", "killed" or "failed"
          pc, count, \* service -> next instruction, loop counter
          cur,       \* who runs on the processor
          ports,     \* service -> allowed_ports
          bitmap,    \* ports the task state segment lets user space use
          cached,    \* CURRENT_IOPB_PORTS
          capsOf,    \* service -> what its capabilities name
          spaces,    \* address spaces that exist
          drive,     \* the disk: sector asked for, status, what it holds ready
          got,       \* what the disk service read
          card,      \* the network card: reset, enabled, the frame it received
          slots,     \* frames handed to the kernel's endpoint
          events, said, kernelReads
r3Vars == <<at3, pc, count, cur, ports, bitmap, cached, capsOf, spaces, drive, got, card, slots, events, said, kernelReads>>

I(op, arg) == [op |-> op, arg |-> arg, yes |-> 0, no |-> 0]
B(op, arg, yes, no) == [op |-> op, arg |-> arg, yes |-> yes, no |-> no]
(* Behind an instruction without a jump: the next. *)
ServiceCode == <<I("call", "create_endpoint"), I("bind", "timer"), I("bind", "keyboard"), I("write", "SVC_UP"),
                 B("try_recv", "irq", 6, 5), I("write", "echo"), B("more", MaxEvents, 5, 8), I("exit", 0)>>
SerialCode == <<I("ioperm", "com1"), B("thr_empty", "com1", 3, 2), I("out", "com1"), B("more", TxLen, 2, 5),
                I("exit", 0)>>
NetCode == <<I("ioperm", "nic"), B("map_dma", "dma", 3, 15), I("out_reset", "nic"), B("in_reset", "nic", 4, 5),
             I("out_enable", "nic"), I("out_transmit", "nic"), B("rok", "dma", 10, 8), I("in", Debug),
             B("jump", "always", 17, 17), B("verify", "dma", 11, 19), B("create_slot", "dma", 12, 21), B("send", "rx", 13, 21),
             I("write", "RX_verified"), I("exit", 0), I("write", "MAP_DMA_failed"), I("exit", 1),
             I("write", "RX_timeout"), I("exit", 1), I("write", "frame_verify_failed"), I("exit", 1),
             I("write", "IPC_send_failed"), I("exit", 1)>>
DiskCode == <<I("ioperm", "ide"), I("out_lba", "ide"), I("out_read", "ide"), B("in_busy", "ide", 4, 5),
              B("in_drq", "ide", 6, 10), I("in_sector", "ide"), B("is_spfs", "ide", 8, 10),
              I("write", "sector_verified"), I("exit", 0), I("write", "sector_mismatch"), I("exit", 1)>>
(* The number of its receive call is that of ioperm; what it closes is the   *)
(* number of bytes of its last write; the slot it sends it does not have.    *)
NetsvcCode == <<I("call", "ioperm_of_a_pointer"), I("write", "netsvc_RX_verified"), I("call", "socket"),
                I("write", "socket_opened"), I("call", "close"), I("write", "socket_closed"),
                I("call", "send_without_slot"), I("write", "slot_recycled"), I("exit", 0)>>
(* They write that they verified something, and end. *)
FssvcCode == <<I("write", "fs_verified"), I("exit", 0)>>
ShellCode == <<I("write", "shell_ready"), I("exit", 0)>>
DisplayCode == <<I("write", "display_ready"), I("exit", 0)>>
WmCode == <<I("write", "wm_ready"), I("exit", 0)>>
FaultCode == <<I("load", "unmapped"), I("halt", 0)>>
(* Its delay loop jumps on a flag that nothing sets. *)
DemoCode == <<B("jump", "always", 1, 1)>>
LiveDemoCode == <<I("call", "present"), I("call", "yield"), B("jump", "always", 1, 1)>>
CodeOf(s) == CASE s = "keysvc" -> ServiceCode [] s = "serdrv" -> SerialCode [] s = "netdrv" -> NetCode
               [] s = "disksvc" -> DiskCode [] s = "netsvc" -> NetsvcCode [] s = "faultsvc" -> FaultCode
               [] s = "demo" -> DemoCode [] s = "livedemo" -> LiveDemoCode [] s = "fssvc" -> FssvcCode
               [] s = "sh" -> ShellCode [] s = "displaysvc" -> DisplayCode [] s = "wm" -> WmCode

(* What each spawn does in its order; a member of MadeCaps is a capability   *)
(* made for the process.                                                     *)
MadeCaps == {"device", "com1", "ide", "nic", "dma", "rx", "recycle"}
SpawnRaw == <<"space", "map", "stack">>
SpawnService == <<"space", "device", "map", "stack">>
SpawnSerial == <<"com1", "space", "map", "stack">>
SpawnNet == <<"rx", "nic", "dma", "space", "map", "stack">>
SpawnDisk == <<"ide", "space", "map", "stack">>
SpawnNetsvc == <<"rx", "recycle", "space", "map", "stack">>
SpawnFs == <<"space", "map", "stack">>
SpawnFault == <<"space", "map", "stack">>
SpawnShell == <<"space", "map", "stack">>
SpawnDisplay == <<"space", "map", "stack">>
SpawnWm == <<"space", "map", "stack">>
SpawnLiveDemo == <<"space", "map", "stack", "process", "surface", "window">>
StepsOf(s) == CASE s = "keysvc" -> SpawnService [] s = "serdrv" -> SpawnSerial [] s = "netdrv" -> SpawnNet
                [] s = "disksvc" -> SpawnDisk [] s = "netsvc" -> SpawnNetsvc [] s = "fssvc" -> SpawnFs
                [] s = "faultsvc" -> SpawnFault [] s = "sh" -> SpawnShell [] s = "displaysvc" -> SpawnDisplay
                [] s = "wm" -> SpawnWm [] s = "livedemo" -> SpawnLiveDemo [] s = "demo" -> SpawnRaw

R3Init ==
    /\ \E t \in Together : at3 = [s \in Services3 |-> IF s \in t THEN "none" ELSE "off"]
    /\ pc = [s \in Services3 |-> 1] /\ count = [s \in Services3 |-> 0]
    /\ cur = Idle /\ ports = [s \in Services3 |-> NoPorts] /\ bitmap = {} /\ cached = NoPorts
    /\ capsOf = [s \in Services3 |-> {}] /\ spaces = {}
    /\ \E spfs \in BOOLEAN : drive = [lba |-> 1, status |-> "idle", data |-> "none", spfs |-> spfs]
    /\ got = "none"
    /\ card = [reset |-> FALSE, on |-> FALSE, frame |-> "none"] /\ slots = {}
    /\ events = 0 /\ said = {} /\ kernelReads = 0
-----------------------------------------------------------------------------
(* A demo of main.rs starts a service and waits for its end; net_demo and    *)
(* disk_demo then start the next of their chain.                             *)
Ended == {"exited", "killed"}
NetDemo == at3["netdrv"] \in Ended \cup {"off"}
DiskDemo(s) ==
    \A c \in Chains : \A i, j \in DOMAIN c :
        i < j /\ c[j] = s => at3[c[i]] \in Ended \cup {"failed", "off"}
MayStart(s) == IF s = "netsvc" THEN NetDemo ELSE DiskDemo(s)

(* A spawn makes an address space with the code, and a process with          *)
(* capabilities.  Where a step fails the address space goes, the             *)
(* capabilities made before it stay and are nobody's.                        *)
Made(s, n) == {StepsOf(s)[i] : i \in 1 .. n} \cap MadeCaps
Dropped(s) == UNCHANGED spaces
Spawn(s) ==
    /\ at3[s] = "none" /\ MayStart(s) /\ at3' = [at3 EXCEPT ![s] = "ready"]
    /\ spaces' = spaces \cup {s} /\ capsOf' = [capsOf EXCEPT ![s] = Made(s, Len(StepsOf(s)))]
    /\ UNCHANGED <<pc, count, cur, ports, bitmap, cached, drive, got, card, slots, events, said, kernelReads>>
SpawnFails(s) ==
    /\ at3[s] = "none" /\ MayStart(s) /\ at3' = [at3 EXCEPT ![s] = "failed"] /\ Dropped(s)
    /\ \E n \in DOMAIN StepsOf(s) : capsOf' = [capsOf EXCEPT ![s] = Made(s, n - 1)]
    /\ UNCHANGED <<pc, count, cur, ports, bitmap, cached, drive, got, card, slots, events, said, kernelReads>>

(* sync_iopb_for_process: the bitmap is written again when the ports differ  *)
(* from the ports it was last written for.                                   *)
SyncIopb(p) ==
    /\ cached' = p
    /\ bitmap' = IF cached = p THEN bitmap ELSE {p} \ {NoPorts}
PortsFor(s) == IF s = Idle THEN NoPorts ELSE ports[s]
(* exit_current turns interrupts on and marks the process Exiting; then it   *)
(* gives up the address space, then the capabilities.                        *)
Leaving == {"exiting", "released", "disowned"}
(* A switch: the timer takes the processor from whoever runs.  Only a        *)
(* process that is Running goes back to the queue: one that is leaving is    *)
(* never resumed.  Idle stands for the threads of the kernel.                *)
Rests(s) == IF at3[s] = "runs" THEN "ready" ELSE at3[s]
Switch(s) ==
    /\ s # cur
    /\ s # Idle => at3[s] = "ready"
    /\ at3' = [t \in Services3 |-> IF t = s THEN "runs" ELSE IF t = cur THEN Rests(t) ELSE at3[t]]
    /\ cur' = s /\ SyncIopb(PortsFor(s))
    /\ UNCHANGED <<pc, count, ports, capsOf, spaces, drive, got, card, slots, events, said, kernelReads>>
(* With nothing to run the switch to process 0 leaves the bitmap alone. *)
NothingReady == \A t \in Services3 : at3[t] # "ready"
SwitchToZero ==
    /\ cur # Idle /\ at3[cur] \in Leaving /\ NothingReady /\ cur' = Idle
    /\ UNCHANGED <<at3, pc, count, ports, bitmap, cached, capsOf, spaces, drive, got, card, slots, events, said, kernelReads>>

Here3 == CodeOf(cur)[pc[cur]]
Runs3 == cur # Idle /\ at3[cur] = "runs"
Leave ==
    /\ at3' = [at3 EXCEPT ![cur] = "exiting"]
    /\ UNCHANGED <<pc, count, cur, ports, bitmap, cached, capsOf, spaces, drive, got, card, slots, events, said, kernelReads>>
(* release_process_address_space, which refuses only the space that is       *)
(* loaded, not so here, and one with a surface, which no service that ends   *)
(* has.                                                                      *)
ReleaseSpace ==
    /\ cur # Idle /\ at3[cur] = "exiting" /\ at3' = [at3 EXCEPT ![cur] = "released"]
    /\ spaces' = spaces \ {cur}
    /\ UNCHANGED <<pc, count, cur, ports, bitmap, cached, capsOf, drive, got, card, slots, events, said, kernelReads>>
(* destroy_process_cspace. *)
DropCaps ==
    /\ cur # Idle /\ at3[cur] = "released" /\ at3' = [at3 EXCEPT ![cur] = "disowned"]
    /\ capsOf' = [capsOf EXCEPT ![cur] = {}]
    /\ UNCHANGED <<pc, count, cur, ports, bitmap, cached, spaces, drive, got, card, slots, events, said, kernelReads>>
(* The rest under the scheduler's lock: the ports go, and the next process   *)
(* is switched to.  A process that faulted is killed.                        *)
How == IF Here3.op = "exit" THEN "exited" ELSE "killed"
FinishExit ==
    /\ cur # Idle /\ at3[cur] = "disowned"
    /\ \E s \in {t \in Services3 : at3[t] = "ready"} \cup {Idle} :
          /\ (s = Idle) => NothingReady
          /\ at3' = [t \in Services3 |-> IF t = cur THEN How ELSE IF t = s THEN "runs" ELSE at3[t]]
          /\ cur' = s /\ SyncIopb(PortsFor(s))
    /\ ports' = [ports EXCEPT ![cur] = NoPorts]
    /\ UNCHANGED <<pc, count, capsOf, spaces, drive, got, card, slots, events, said, kernelReads>>
-----------------------------------------------------------------------------
Now(op) == Runs3 /\ Here3.op = op
Goes(n) == pc' = [pc EXCEPT ![cur] = n]
Jumps(yes) == Goes(IF yes THEN Here3.yes ELSE Here3.no)
Steps == Goes(pc[cur] + 1)
Kept == UNCHANGED <<at3, cur, cached, capsOf, spaces, kernelReads>>

(* sys_ioperm: a Device capability for the ports.  The bitmap is changed,    *)
(* and what it was last written for is not.  A system call runs with         *)
(* interrupts off, behind the gate of vector 0x80: no switch comes between   *)
(* its steps.                                                                *)
Ioperm(dev) ==
    IF dev \in capsOf[cur] THEN bitmap' = bitmap \cup {dev} /\ ports' = [ports EXCEPT ![cur] = dev]
    ELSE UNCHANGED <<ports, bitmap>>
SysIoperm ==
    /\ Now("ioperm") /\ Ioperm(Here3.arg) /\ Steps /\ Kept
    /\ UNCHANGED <<count, drive, got, card, slots, events, said>>
SysWrite ==
    /\ Now("write") /\ said' = said \cup {Here3.arg} /\ Steps /\ Kept
    /\ UNCHANGED <<count, ports, bitmap, drive, got, card, slots, events>>
SysOther ==
    /\ Runs3 /\ Here3.op \in {"call", "bind"} /\ Steps /\ Kept
    /\ UNCHANGED <<count, ports, bitmap, drive, got, card, slots, events, said>>
SysExit == Now("exit") /\ Leave
Jump ==
    /\ Now("jump") /\ Jumps(TRUE) /\ Kept
    /\ UNCHANGED <<count, ports, bitmap, drive, got, card, slots, events, said>>
More ==
    /\ Now("more") /\ Jumps(count[cur] + 1 < Here3.arg) /\ count' = [count EXCEPT ![cur] = @ + 1] /\ Kept
    /\ UNCHANGED <<ports, bitmap, drive, got, card, slots, events, said>>
TryRecv ==
    /\ Now("try_recv") /\ Jumps(events > 0) /\ events' = (IF events > 0 THEN events - 1 ELSE events) /\ Kept
    /\ UNCHANGED <<count, ports, bitmap, drive, got, card, slots, said>>

(* An instruction that user space may not execute, or a port outside the     *)
(* bitmap: the processor faults, and recover_user_fault ends the process.    *)
PortOps == {"thr_empty", "out", "out_reset", "in_reset", "out_enable", "out_transmit", "in", "out_lba", "out_read",
            "in_busy", "in_drq", "in_sector"}
MayUse == Here3.arg \in bitmap
Faults ==
    /\ Runs3
    /\ Here3.op \in {"load", "halt"} \/ (Here3.op \in PortOps /\ ~MayUse)
    /\ Leave
PortAccess(op) == Now(op) /\ MayUse
Quiet == UNCHANGED <<ports, bitmap, events, said>>

SerialReady == PortAccess("thr_empty") /\ (\E yes \in BOOLEAN : Jumps(yes)) /\ Kept /\ Quiet /\ UNCHANGED <<count, drive, got, card, slots>>
SerialOut == PortAccess("out") /\ Steps /\ Kept /\ Quiet /\ UNCHANGED <<count, drive, got, card, slots>>

CardOut ==
    /\ \/ PortAccess("out_reset") /\ card' = [reset |-> TRUE, on |-> FALSE, frame |-> "none"]
       \/ PortAccess("out_enable") /\ card' = [card EXCEPT !.on = TRUE]
       \/ PortAccess("out_transmit") /\ UNCHANGED card
    /\ Steps /\ Kept /\ Quiet /\ UNCHANGED <<count, drive, got, slots>>
CardAsk == PortAccess("in_reset") /\ Jumps(card.reset) /\ Kept /\ Quiet /\ UNCHANGED <<count, drive, got, card, slots>>
MapDma == Now("map_dma") /\ Jumps(Here3.arg \in capsOf[cur]) /\ Kept /\ Quiet /\ UNCHANGED <<count, drive, got, card, slots>>
CardRok == Now("rok") /\ Jumps(card.frame # "none") /\ Kept /\ Quiet /\ UNCHANGED <<count, drive, got, card, slots>>
(* Mutant: any frame will do. *)
VerifiedAny(frame) == TRUE
(* The frame's type, operation and sender. *)
Verified(frame) == frame = "arp_reply"
Verify == Now("verify") /\ Jumps(Verified(card.frame)) /\ Kept /\ Quiet /\ UNCHANGED <<count, drive, got, card, slots>>
CreateSlot == Now("create_slot") /\ Jumps(Here3.arg \in capsOf[cur]) /\ Kept /\ Quiet /\ UNCHANGED <<count, drive, got, card, slots>>
Send ==
    /\ Now("send") /\ Jumps(Here3.arg \in capsOf[cur])
    /\ slots' = IF Here3.arg \in capsOf[cur] THEN slots \cup {card.frame} ELSE slots
    /\ Kept /\ Quiet /\ UNCHANGED <<count, drive, got, card>>

DiskOut ==
    /\ \/ PortAccess("out_lba") /\ drive' = [drive EXCEPT !.lba = 0]
       \/ PortAccess("out_read") /\ drive' = [drive EXCEPT !.status = "busy"]
    /\ Steps /\ Kept /\ Quiet /\ UNCHANGED <<count, got, card, slots>>
DiskAsk ==
    /\ \/ PortAccess("in_busy") /\ Jumps(drive.status = "busy")
       \/ PortAccess("in_drq") /\ Jumps(drive.status = "drq")
    /\ Kept /\ Quiet /\ UNCHANGED <<count, drive, got, card, slots>>
DiskIn ==
    /\ PortAccess("in_sector") /\ Steps
    /\ got' = drive.data /\ drive' = [drive EXCEPT !.status = "idle", !.data = "none"]
    /\ Kept /\ Quiet /\ UNCHANGED <<count, card, slots>>
(* The magic number in what was read. *)
IsSpfs(data) == data = "superblock"
DiskVerify == Now("is_spfs") /\ Jumps(IsSpfs(got)) /\ Kept /\ Quiet /\ UNCHANGED <<count, drive, got, card, slots>>

Instruction ==
    \/ SysIoperm \/ SysWrite \/ SysOther \/ SysExit \/ Jump \/ More \/ TryRecv \/ Faults
    \/ SerialReady \/ SerialOut \/ CardOut \/ CardAsk \/ MapDma \/ CardRok \/ Verify \/ CreateSlot \/ Send
    \/ DiskOut \/ DiskAsk \/ DiskIn \/ DiskVerify
-----------------------------------------------------------------------------
(* The devices, and the kernel's own disk driver, which shares the           *)
(* controller and no lock with the service.                                  *)
Outside == UNCHANGED <<at3, pc, count, cur, ports, bitmap, cached, capsOf, spaces, got, slots, said>>
Sector(lba) == IF lba = 0 /\ drive.spfs THEN "superblock" ELSE "sector"
DriveReady ==
    /\ drive.status = "busy" /\ drive' = [drive EXCEPT !.status = "drq", !.data = Sector(drive.lba)]
    /\ Outside /\ UNCHANGED <<card, events, kernelReads>>
KernelReads ==
    /\ kernelReads < MaxKernel /\ kernelReads' = kernelReads + 1 /\ drive.status # "busy"
    /\ drive' \in {[drive EXCEPT !.lba = 1, !.status = "busy"], [drive EXCEPT !.lba = 1, !.status = "idle", !.data = "none"]}
    /\ Outside /\ UNCHANGED <<card, events>>
CardReset == card.reset /\ card' = [card EXCEPT !.reset = FALSE] /\ Outside /\ UNCHANGED <<drive, events, kernelReads>>
CardReceives3(f) ==
    /\ card.on /\ card.frame = "none" /\ card' = [card EXCEPT !.frame = f]
    /\ Outside /\ UNCHANGED <<drive, events, kernelReads>>
IrqEvent == events < 1 /\ events' = events + 1 /\ Outside /\ UNCHANGED <<drive, card, kernelReads>>

R3Next ==
    \/ \E s \in Services3 : Spawn(s) \/ SpawnFails(s) \/ Switch(s)
    \/ Switch(Idle) \/ SwitchToZero \/ Instruction
    \/ ReleaseSpace \/ DropCaps \/ FinishExit
    \/ DriveReady \/ KernelReads \/ CardReset \/ IrqEvent
    \/ \E f \in {"arp_reply", "other"} : CardReceives3(f)
R3Spec == R3Init /\ [][R3Next]_r3Vars
-----------------------------------------------------------------------------
(* A process whose request for ports was granted finds them whenever it      *)
(* runs, whoever ran and asked for ports in between.                         *)
OwnPortsWork == cur # Idle /\ ports[cur] # NoPorts => ports[cur] \in bitmap

(* The disk service says that it verified the superblock only when the disk  *)
(* has one, also when the kernel's own driver used the controller between    *)
(* two of its instructions.                                                  *)
VerifiedIsTrue == "sector_verified" \in said => drive.spfs /\ got = "superblock"

(* Only frames that were verified to be ARP replies reach the endpoint of    *)
(* the kernel as slots.                                                      *)
OnlyVerifiedSlots == slots \subseteq {"arp_reply"}

(* There is an address space for each process that lives, and for one that   *)
(* is exiting until it is released, and for no other, after spawns that      *)
(* failed and processes that faulted too.  One that is preempted in the      *)
(* middle of exit_current keeps its space for ever.                          *)
SpacesAreOfTheLiving == spaces = {s \in Services3 : at3[s] \in {"ready", "runs", "exiting"}}

(* A process whose exit came to its end has no ports and no capabilities.    *)
EndedHasNothing == \A s \in Services3 : at3[s] \in Ended => ports[s] = NoPorts /\ capsOf[s] = {}

(* A process without ports reaches none: "None == no port can be accessed"   *)
(* (the comment of allowed_ports), whatever another process was granted.     *)
PortsArePrivate == cur # Idle => bitmap \subseteq {ports[cur]}

(* However the services are switched, a service finds the ports it was       *)
(* given, what a service reports it really read, and a service whose exit    *)
(* came to its end has no address space, ports or capabilities (process.rs,  *)
(* gdt.rs, syscall.rs, the services assembled in process.rs).                *)
Ring3Sound == OwnPortsWork /\ VerifiedIsTrue /\ OnlyVerifiedSlots /\ SpacesAreOfTheLiving /\ EndedHasNothing
=============================================================================
