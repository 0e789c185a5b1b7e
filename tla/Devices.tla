------------------------------ MODULE Devices ------------------------------
(* What the kernel reads of the hardware when it starts: the configuration   *)
(* space of PCI devices, the tables of the firmware, and USB devices.        *)
EXTENDS Integers, Sequences, SequencesExt

(* PCI: one device as pci.rs reads and writes it: the scan that sizes the    *)
(* base address registers (check_device, bars_of, read_bar), the walk of the *)
(* capability list (find_capability) and the message-signalled interrupts    *)
(* switched on behind it (enable_msi).                                       *)
Registers == 0 .. 5
(* What a register says of itself.  The upper half of a 64-bit address can   *)
(* look like any of them.                                                    *)
Layouts == [Registers -> {"zero", "io", "mem32", "mem64"}]
Entries == 1 .. 3                   \* places of the capability list, 0 ends it
Lists == [Entries -> [id : {"msi", "other"}, next : 0 .. 3]]

VARIABLES layout,    \* what the firmware wrote to the registers
          regs,      \* what they hold now
          index,     \* the loop of bars_of
          phase,     \* "read", "size" and "restore" of read_bar; "walk", "message" and "enable" of enable_msi
          bars,      \* the registers reported as base addresses
          list,      \* the capability list
          ptr,       \* where the walk is, 0 at the end
          seen,      \* the places it has left
          msi        \* the device: its message, and whether it may send it
pciVars == <<layout, regs, index, phase, bars, list, ptr, seen, msi>>

NoMessage == [message |-> {}, on |-> FALSE, wide |-> FALSE]
BarsInit ==
    /\ layout \in Layouts /\ regs = layout /\ index = 0 /\ phase = "read" /\ bars = {}
    /\ list = [e \in Entries |-> [id |-> "other", next |-> 0]] /\ ptr = 0 /\ seen = {} /\ msi = NoMessage
ListInit ==
    /\ layout = [r \in Registers |-> "zero"] /\ regs = layout /\ index = 6 /\ phase = "walk" /\ bars = {}
    /\ list \in Lists /\ ptr \in 0 .. 3 /\ seen = {}
    /\ \E wide \in BOOLEAN : msi = [NoMessage EXCEPT !.wide = wide]
-----------------------------------------------------------------------------
(* read_bar(index): an unused register, and a 64-bit one without a second    *)
(* half, is none.                                                            *)
Wide(r) == regs[r] = "mem64"
Unusable(r) == regs[r] = "zero" \/ (Wide(r) /\ r >= 5)
Halves(r) == IF layout[r] = "mem64" THEN {r, r + 1} ELSE {r}
ReadNone ==
    /\ phase = "read" /\ index < 6 /\ Unusable(index) /\ index' = index + 1
    /\ UNCHANGED <<layout, regs, phase, bars, list, ptr, seen, msi>>
(* All ones are written to the register, and to its second half. *)
ReadBar ==
    /\ phase = "read" /\ index < 6 /\ ~Unusable(index) /\ phase' = "size"
    /\ regs' = [r \in Registers |-> IF r \in Halves(index) THEN "ones" ELSE regs[r]]
    /\ UNCHANGED <<layout, index, bars, list, ptr, seen, msi>>
(* The size is read, what was there before is written back; bars_of goes on  *)
(* behind it.                                                                *)
Rewritten(r) == Halves(r)
Skip(r) == IF layout[r] = "mem64" THEN 2 ELSE 1
RestoreBar ==
    /\ phase = "size" /\ phase' = "read" /\ bars' = bars \cup {index} /\ index' = index + Skip(index)
    /\ regs' = [r \in Registers |-> IF r \in Rewritten(index) THEN layout[r] ELSE regs[r]]
    /\ UNCHANGED <<layout, list, ptr, seen, msi>>
BarsNext == ReadNone \/ ReadBar \/ RestoreBar
-----------------------------------------------------------------------------
(* find_capability and enable_msi: the message first, then the permission to *)
(* send it.  The walk stops at an MSI capability and at the end of the list; *)
(* nothing else stops it.                                                    *)
Following == list[ptr].next
WalkOn ==
    /\ phase = "walk" /\ ptr # 0 /\ list[ptr].id # "msi" /\ ptr' = Following /\ seen' = seen \cup {ptr}
    /\ UNCHANGED <<layout, regs, index, phase, bars, list, msi>>
NotFound ==
    /\ phase = "walk" /\ ptr = 0 /\ phase' = "none"
    /\ UNCHANGED <<layout, regs, index, bars, list, ptr, seen, msi>>
Found ==
    /\ phase = "walk" /\ ptr # 0 /\ list[ptr].id = "msi" /\ phase' = "message"
    /\ UNCHANGED <<layout, regs, index, bars, list, ptr, seen, msi>>
Parts3 == IF msi.wide THEN {"low", "high", "data"} ELSE {"low", "data"}
Written(p) == [msi EXCEPT !.message = @ \cup {p}]
WriteMessage(p) ==
    /\ phase = "message" /\ p \in Parts3 \ msi.message
    /\ p = "data" => Parts3 \ msi.message = {"data"}
    /\ p = "high" => "low" \in msi.message
    /\ msi' = Written(p) /\ phase' = (IF p = "data" THEN "enable" ELSE "message")
    /\ UNCHANGED <<layout, regs, index, bars, list, ptr, seen>>
EnableMsi ==
    /\ phase = "enable" /\ msi' = [msi EXCEPT !.on = TRUE] /\ phase' = "done"
    /\ UNCHANGED <<layout, regs, index, bars, list, ptr, seen>>
ListNext == WalkOn \/ NotFound \/ Found \/ EnableMsi \/ \E p \in {"low", "high", "data"} : WriteMessage(p)
PciSpec == (BarsInit \/ ListInit) /\ [][BarsNext \/ ListNext]_pciVars
-----------------------------------------------------------------------------
(* Which registers are second halves follows from those in front of them. *)
HalfAt[r \in Registers] == IF r > 0 /\ HalfAt[r - 1] = "first" /\ layout[r - 1] = "mem64" THEN "second" ELSE "first"

(* The scan leaves every register as it found it: at any moment only the     *)
(* registers of the address that is being sized hold something else, and     *)
(* what it reports are exactly the first halves in use, whatever the upper   *)
(* half of a 64-bit address looks like.                                      *)
ScanIsHarmless ==
    /\ \A r \in Registers : regs[r] # layout[r] => phase = "size" /\ r \in Halves(index)
    /\ index >= 6 /\ phase = "read" =>
          bars = {r \in Registers : HalfAt[r] = "first" /\ layout[r] # "zero" /\ ~(r = 5 /\ layout[r] = "mem64")}

(* A device never may send a message of which a part is not written yet. *)
MessageIsWhole == msi.on => msi.message = Parts3

(* find_capability has no bound: a walk that comes to an end was never twice *)
(* at one place, and one that comes to a place it has left goes on for ever  *)
(* (no place it was at ends the walk or leads out of those).                 *)
WalkEndsOrCircles ==
    /\ phase # "walk" => ptr \notin seen
    /\ ptr \in seen => \A e \in seen : list[e].id # "msi" /\ list[e].next \in seen

-----------------------------------------------------------------------------
(* ACPI: the tables as acpi.rs reads them: which table a lookup finds        *)
(* (get_madt, get_dmar) and the loops over the entries of the MADT and of    *)
(* the DMAR, where each length is whatever the firmware wrote.               *)
CONSTANTS TotalLens,   \* lengths of a table in its header
          EntryLens,   \* lengths written in the entries
          MaxEntry,    \* bound: u8::MAX, the length of an entry of the MADT
          MadtHead,    \* bytes in front of the first entry of the MADT
          DmarHead,    \* size_of::<DmarHeader>()
          DrhdHead     \* size_of::<DrhdHeader>()
ASSUME HeadAssumption ==
    /\ {MadtHead, DmarHead, DrhdHead, MaxEntry} \subseteq Nat /\ MadtHead <= DmarHead /\ MaxEntry >= 2
    /\ TotalLens \subseteq Nat /\ EntryLens \subseteq Nat

(* A table: its signature and whether its bytes add up to 0. *)
Tables == {"madt", "dmar", "badDmar", "null"}
NoTable == "none"

VARIABLES roots,    \* the RSDP: revision, the two lists of tables and whether their checksums hold
          total,    \* header.length
          offset3, unitLen, scope,  \* the loops of parse_dmar_table: structure, its length, place in it
          acpiAt,   \* "madt", "dmar", "scopes" or "end"
          turns3,   \* turns of the outer loop
          lastRead, \* one past the last byte read
          inUnit    \* every scope was read inside its structure
acpiVars == <<roots, total, offset3, unitLen, scope, acpiAt, turns3, lastRead, inUnit>>

RootLists == UNION {[1 .. n -> Tables] : n \in 0 .. 2}
NoRoots == [new |-> FALSE, xsdt |-> <<>>, xsdtOk |-> FALSE, rsdt |-> <<>>, rsdtOk |-> FALSE]
AtStart(where, start) ==
    /\ acpiAt = where /\ offset3 = start /\ unitLen = 0 /\ scope = 0 /\ turns3 = 0 /\ lastRead = start /\ inUnit = TRUE
LookupInit ==
    /\ roots \in [new : BOOLEAN, xsdt : RootLists, xsdtOk : BOOLEAN, rsdt : RootLists, rsdtOk : BOOLEAN]
    /\ total = 0 /\ AtStart("end", 0)
MadtInit == roots = NoRoots /\ total \in TotalLens /\ AtStart("madt", MadtHead)
DmarInit == roots = NoRoots /\ total \in TotalLens /\ AtStart("dmar", DmarHead)
-----------------------------------------------------------------------------
(* The lookups take the first table of the name whose checksum holds.        *)
(* get_dmar asks the list of 64-bit addresses first and goes on to the other *)
(* when it is not there; get_madt knows only the other.                      *)
FirstOf(tables, name) == IF Contains(tables, name) THEN name ELSE NoTable
FromRsdt(name) == IF roots.rsdtOk THEN FirstOf(roots.rsdt, name) ELSE NoTable
FromXsdt(name) == IF roots.new /\ roots.xsdtOk THEN FirstOf(roots.xsdt, name) ELSE NoTable
GetMadt == FromRsdt("madt")
(* Mutant: the older list is not looked at when there is a newer. *)
GetDmarNewOnly == IF roots.new THEN FromXsdt("dmar") ELSE FromRsdt("dmar")
GetDmar == IF FromXsdt("dmar") # NoTable THEN FromXsdt("dmar") ELSE FromRsdt("dmar")
-----------------------------------------------------------------------------
(* Madt::iterate_entries: an entry that begins in the table is handed on     *)
(* with all its bytes, wherever they end.                                    *)
TooShort(len) == len < 2
MadtEntry(len) ==
    /\ acpiAt = "madt" /\ offset3 < total /\ ~TooShort(len) /\ len <= MaxEntry
    /\ offset3' = offset3 + len /\ lastRead' = offset3 + len /\ turns3' = turns3 + 1
    /\ UNCHANGED <<roots, total, unitLen, scope, acpiAt, inUnit>>
MadtStop ==
    /\ acpiAt = "madt" /\ acpiAt' = "end"
    /\ \/ offset3 >= total /\ UNCHANGED lastRead
       \/ offset3 < total /\ (\E len \in EntryLens : TooShort(len)) /\ lastRead' = offset3 + 2
    /\ UNCHANGED <<roots, total, offset3, unitLen, scope, turns3, inUnit>>

(* parse_dmar_table: a structure that does not fit ends the loop, one that   *)
(* is no DRHD, or a short one, is passed over.                               *)
StructFits(len) == len >= 4 /\ offset3 + len <= total
Past(len) == turns3' = turns3 + 1 /\ offset3' = offset3 + len /\ acpiAt' = "dmar" /\ UNCHANGED <<unitLen, scope, inUnit>>
DmarStruct(len) ==
    /\ acpiAt = "dmar" /\ offset3 + 4 <= total /\ StructFits(len)
    /\ lastRead' = offset3 + 4 /\ Past(len) /\ UNCHANGED <<roots, total>>
DmarUnit(len) ==
    /\ acpiAt = "dmar" /\ offset3 + 4 <= total /\ StructFits(len) /\ len >= DrhdHead
    /\ acpiAt' = "scopes" /\ unitLen' = len /\ scope' = DrhdHead /\ lastRead' = offset3 + DrhdHead
    /\ UNCHANGED <<roots, total, offset3, turns3, inUnit>>
DmarStop ==
    /\ acpiAt = "dmar" /\ acpiAt' = "end"
    /\ \/ offset3 + 4 > total /\ UNCHANGED lastRead
       \/ offset3 + 4 <= total /\ (\E len \in EntryLens : ~StructFits(len)) /\ lastRead' = offset3 + 4
    /\ UNCHANGED <<roots, total, offset3, unitLen, scope, turns3, inUnit>>
(* The devices of a unit: a bus and the pairs behind it. *)
ScopeFits(len) == len >= 6 /\ scope + len <= unitLen
DmarScope(len) ==
    /\ acpiAt = "scopes" /\ scope + 6 <= unitLen /\ ScopeFits(len)
    /\ scope' = scope + len /\ lastRead' = offset3 + scope + 6 + ((len - 6) \div 2) * 2
    /\ inUnit' = (inUnit /\ lastRead' <= offset3 + unitLen)
    /\ UNCHANGED <<roots, total, offset3, unitLen, acpiAt, turns3>>
DmarUnitEnd ==
    /\ acpiAt = "scopes"
    /\ scope + 6 > unitLen \/ \E len \in EntryLens : ~ScopeFits(len)
    /\ Past(unitLen) /\ UNCHANGED <<roots, total, lastRead>>

AcpiNext ==
    \/ MadtStop \/ DmarStop \/ DmarUnitEnd
    \/ \E len \in EntryLens : MadtEntry(len) \/ DmarStruct(len) \/ DmarUnit(len) \/ DmarScope(len)
AcpiSpec == (LookupInit \/ MadtInit \/ DmarInit) /\ [][AcpiNext]_acpiVars
-----------------------------------------------------------------------------
(* A table with a valid checksum that either valid list names is found, and  *)
(* the broken one never: a list of 64-bit addresses that is broken, or does  *)
(* not have the table, hides nothing of the other.                           *)
Listed(name) == (roots.rsdtOk /\ Contains(roots.rsdt, name)) \/ (roots.new /\ roots.xsdtOk /\ Contains(roots.xsdt, name))
DmarIsFound == (GetDmar = "dmar") = Listed("dmar")

(* Whatever lengths the firmware wrote, the parser of a DMAR that has its    *)
(* head reads no byte behind the table, and no byte of a device scope behind *)
(* its structure.  Of a shorter table it reads the head, the part that is    *)
(* not the table's too, and nothing more.                                    *)
DmarReadsInside ==
    acpiAt \in {"dmar", "scopes"} =>
        /\ total >= DmarHead => lastRead <= total
        /\ total < DmarHead => lastRead = DmarHead
(* The parser of the MADT knows no such limit: an entry that begins in the   *)
(* table may end behind it, which is less than one entry of bytes that are   *)
(* not the table's.                                                          *)
MadtOverreads ==
    acpiAt = "madt" =>
        /\ total >= MadtHead => lastRead < total + MaxEntry
        /\ total < MadtHead => lastRead = MadtHead
ScopesInUnit == inUnit

(* Both loops end, also over entries of length 0 or 1, after at most one     *)
(* turn for each two bytes behind the head.                                  *)
TablesEnd == turns3 > 0 => 2 * turns3 <= total - MadtHead + 1

-----------------------------------------------------------------------------
(* USB: enumeration (UsbEnumerator) over a host controller that may fail     *)
(* each transfer, and the loop of parse_configuration over a configuration   *)
(* with any lengths in it.                                                   *)
CONSTANTS Ports,       \* ports of the controller, 0 .. n - 1
          LastValid,   \* 127, the last address that a device can have
          MaxAddress,  \* bound: u8::MAX, where next_address stays
          BufLen,      \* bytes of a configuration
          DescLens     \* lengths written in its descriptors
ASSUME UsbAssumption == Ports \subseteq Nat /\ MaxAddress \in Nat \ {0}
                        /\ LastValid \in 1 .. MaxAddress - 2 /\ BufLen \in Nat /\ DescLens \subseteq Nat

Off == -1              \* no device answers
VARIABLES answers,     \* port -> the address its device answers to
          nextAddress, \* next_address
          portAt, step, address, \* enumerate_port: the port, the step, the address
          found,       \* port -> address, of the devices reported
          early,       \* devices left at address 0 by a failure behind the reset of their port
          descAt, descEnd, turnsU, lastByte \* parse_configuration: offset, whether it ended, turns, one past the last byte read
usbVars == <<answers, nextAddress, portAt, step, address, found, early, descAt, descEnd, turnsU, lastByte>>

UsbInit ==
    /\ \E plugged \in SUBSET Ports : answers = [p \in Ports |-> IF p \in plugged THEN MaxAddress + 1 ELSE Off]
    /\ nextAddress = 1 /\ portAt = 0 /\ step = "port" /\ address = 0 /\ found = [p \in Ports |-> Off]
    /\ early = {} /\ descAt = 0 /\ descEnd = FALSE /\ turnsU = 0 /\ lastByte = 0
-----------------------------------------------------------------------------
(* enumerate_all: a port without a device, or that cannot be reset, is       *)
(* passed over; a step that fails gives the port up.                         *)
Parse == UNCHANGED <<descAt, descEnd, turnsU, lastByte>>
PassOver ==
    /\ step = "port" /\ portAt \in Ports /\ portAt' = portAt + 1
    /\ UNCHANGED <<answers, nextAddress, step, address, found, early>> /\ Parse
ResetPort ==
    /\ step = "port" /\ portAt \in Ports /\ answers[portAt] # Off
    /\ answers' = [answers EXCEPT ![portAt] = 0] /\ step' = "head" /\ early' = early \ {portAt}
    /\ UNCHANGED <<nextAddress, portAt, address, found>> /\ Parse
ReadHead ==
    /\ step = "head" /\ step' = "address"
    /\ UNCHANGED <<answers, nextAddress, portAt, address, found, early>> /\ Parse
(* SET_ADDRESS goes to whoever answers to address 0.  next_address is not    *)
(* kept at 127 or below; which address a device makes of a greater one is    *)
(* not defined.                                                              *)
Taken(a) == IF a <= LastValid THEN {a} ELSE 0 .. MaxAddress
Succ3 == IF nextAddress = MaxAddress THEN nextAddress ELSE nextAddress + 1
SetAddress ==
    /\ step = "address" /\ address' = nextAddress /\ nextAddress' = Succ3 /\ step' = "full"
    /\ \E a \in Taken(nextAddress) :
          answers' = [p \in Ports |-> IF answers[p] = 0 THEN a ELSE answers[p]]
    /\ UNCHANGED <<portAt, found, early>> /\ Parse
SetAddressFails ==
    /\ step = "address" /\ nextAddress' = Succ3 /\ step' = "port" /\ portAt' = portAt + 1
    /\ \/ early' = early \cup {portAt} /\ UNCHANGED answers
       \/ (\E a \in Taken(nextAddress) : answers' = [answers EXCEPT ![portAt] = a]) /\ UNCHANGED early
    /\ UNCHANGED <<address, found>> /\ Parse
ReadFull ==
    /\ step = "full" /\ found' = [found EXCEPT ![portAt] = address] /\ step' = "port" /\ portAt' = portAt + 1
    /\ UNCHANGED <<answers, nextAddress, address, early>> /\ Parse
TransferFails ==
    /\ step \in {"head", "full"} /\ step' = "port" /\ portAt' = portAt + 1
    /\ early' = IF step = "head" THEN early \cup {portAt} ELSE early
    /\ UNCHANGED <<answers, nextAddress, address, found>> /\ Parse
(* Called again, it begins with the first port and reports anew. *)
Again ==
    /\ step = "port" /\ portAt \notin Ports /\ portAt' = 0 /\ found' = [p \in Ports |-> Off]
    /\ UNCHANGED <<answers, nextAddress, step, address, early>> /\ Parse
-----------------------------------------------------------------------------
(* parse_configuration: a descriptor of length 0 ends it, an interface is    *)
(* read when 9 bytes are left.                                               *)
EndsLoop(len) == len = 0
NineLeft == descAt + 9 <= BufLen
Descriptor(len, isInterface) ==
    /\ ~descEnd /\ descAt + 2 <= BufLen /\ ~EndsLoop(len) /\ descAt' = descAt + len /\ turnsU' = turnsU + 1
    /\ lastByte' = descAt + IF isInterface /\ NineLeft THEN 9 ELSE 2
    /\ UNCHANGED <<answers, nextAddress, portAt, step, address, found, early, descEnd>>
DescriptorsEnd ==
    /\ ~descEnd /\ descEnd' = TRUE
    /\ descAt + 2 > BufLen \/ \E len \in DescLens : EndsLoop(len)
    /\ UNCHANGED <<answers, nextAddress, portAt, step, address, found, early, descAt, turnsU, lastByte>>

Enumerate == PassOver \/ ResetPort \/ ReadHead \/ SetAddress \/ SetAddressFails \/ ReadFull \/ TransferFails \/ Again
Descriptors == DescriptorsEnd \/ \E len \in DescLens, i \in BOOLEAN : Descriptor(len, i)
UsbSpec == UsbInit /\ [][Enumerate \/ Descriptors]_usbVars
-----------------------------------------------------------------------------
(* Each device that is reported answers to its address, and no other device  *)
(* does, but one that an earlier failure left at address 0, which            *)
(* SET_ADDRESS reached too.  This holds as long as only the addresses 1 to   *)
(* 127 were given: the 128th device, or attempt, gets no address of its own. *)
AnswersAlone ==
    nextAddress <= LastValid + 1 =>
        \A p \in Ports : found[p] # Off /\ step = "port" =>
            \A q \in Ports : answers[q] = found[p] => q = p \/ q \in early

(* An interface descriptor is read inside the buffer. *)
InterfacesInside == lastByte <= BufLen
(* The loop ends: each turn comes further, over broken descriptors too.      *)
ConfigurationRead == turnsU <= BufLen

-----------------------------------------------------------------------------
(* Whatever the devices and the firmware say: at most the register being     *)
(* sized is changed, a message is enabled when it is whole, and a walk of    *)
(* the capabilities ends or goes in a circle; a valid DMAR is found, the     *)
(* DMAR parser reads inside a table that has its head, the MADT parser less  *)
(* than an entry behind it, and both end; while the addresses to 127 last, a *)
(* reported USB device is alone at its own, and a configuration is read      *)
(* inside its buffer (pci.rs, acpi.rs, usb.rs).                              *)
DevicesSound ==
    /\ ScanIsHarmless /\ MessageIsWhole /\ WalkEndsOrCircles
    /\ DmarIsFound /\ DmarReadsInside /\ ScopesInUnit /\ MadtOverreads /\ TablesEnd
    /\ AnswersAlone /\ InterfacesInside /\ ConfigurationRead
=============================================================================
