------------------------------- MODULE MCUser -------------------------------
(* Model checking of what surrounds the kernel's core: the Ring 3 services,  *)
(* the switch of contexts, the devices and firmware tables that are walked   *)
(* at boot, the loader, the widget library and the text console.  They share *)
(* no state: a behaviour is one of one of them.                              *)
EXTENDS Ring3, Context, Devices, Loader, Widgets, Console

VARIABLE part
allVars == <<r3Vars, cxVars, pciVars, acpiVars, usbVars, loadVars, widgetVars, consoleVars, part>>

MCTogether == {{"serdrv", "disksvc", "fssvc"}, {"keysvc", "netdrv", "netsvc"},
               {"faultsvc", "demo", "serdrv"}, {"sh", "displaysvc", "wm", "livedemo"}}
MCSegments == [offset : {1}, filesz : {0, 2}, memsz : {0, 1, 3}, vaddr : {1, 2, 3, 6},
               flags : {{"x"}, {"w"}, {"x", "w"}}]
              \cup [offset : {2}, filesz : {2}, memsz : {3}, vaddr : {2}, flags : {{"x"}}]
MCTrees == {[kind |-> <<"box", "button", "scroll", "dialog">>, first |-> <<1, 2, 1, 1>>, right |-> {<<1, 2>>}],
            [kind |-> <<"check", "drop", "slider", "tabs">>, first |-> <<1, 1, 3, 1>>, right |-> {}],
            [kind |-> <<"label", "box", "button">>, first |-> <<1, 1, 1>>, right |-> {}],
            [kind |-> <<"box", "slider", "dialog", "box", "dialog">>, first |-> <<1, 2, 2, 4, 1>>, right |-> {<<1, 2>>, <<1, 3>>}]}
MCNames == {<<"a", "c", "a">>, <<"8">>, <<"c", "a">>, <<"c", "c">>}
MCBudgets == {<<3, 0>>, <<2, 2>>, <<0, 4>>}
Parts == {"ring3", "context", "bars", "list", "lookup", "madt", "dmar", "usb", "conf", "load", "legacy", "package", "widgets", "console"}

(* The parts that do not move begin in one state only. *)
R3Rest ==
    /\ at3 = [s \in Services3 |-> "off"] /\ pc = [s \in Services3 |-> 1] /\ count = [s \in Services3 |-> 0] /\ cur = Idle
    /\ ports = [s \in Services3 |-> NoPorts] /\ bitmap = {} /\ cached = NoPorts /\ capsOf = [s \in Services3 |-> {}]
    /\ spaces = {} /\ drive = [lba |-> 1, status |-> "idle", data |-> "none", spfs |-> FALSE] /\ got = "none"
    /\ card = [reset |-> FALSE, on |-> FALSE, frame |-> "none"] /\ slots = {} /\ events = 0 /\ said = {} /\ kernelReads = 0
CxRest ==
    /\ curPid = CHOOSE p \in Threads : TRUE
    /\ onStack = curPid /\ waiting = Procs \ {curPid}
    /\ place = At("kernel") /\ loaded = KernelTable /\ userTables = Users /\ caught = {} /\ ticksOf = Quantum
    /\ contexts = [p \in Procs |-> Context(p, At("stub"))]
PciRest ==
    /\ layout = [r \in Registers |-> "zero"] /\ regs = layout /\ index = 6 /\ phase = "read" /\ bars = {}
    /\ list = [e \in Entries |-> [id |-> "other", next |-> 0]] /\ ptr = 0 /\ seen = {} /\ msi = NoMessage
AcpiRest == roots = NoRoots /\ total = 0 /\ AtStart("end", 0)
UsbRest ==
    /\ answers = [p \in Ports |-> Off] /\ nextAddress = 1 /\ portAt = 0 /\ step = "port" /\ address = 0
    /\ found = [p \in Ports |-> Off] /\ early = {} /\ descAt = 0 /\ descEnd = FALSE /\ lastByte = 0 /\ turnsU = 0
LoadRest ==
    /\ elf = [segs |-> <<>>, entry |-> 0] /\ loadAt = "end" /\ toMap = {} /\ space = <<>> /\ short = FALSE
    /\ returnTo = "unset" /\ got3 = "unread" /\ pkg = NoPackage /\ before = <<>>
WidgetRest == tree = [kind |-> <<>>, first |-> <<>>, right |-> {}] /\ st = <<>> /\ dirtyW = {} /\ screen = <<>> /\ uiEvents = 0
ConsoleRest ==
    /\ ring = [i \in 0 .. RingSize - 1 |-> NoKey] /\ readAt = 0 /\ writeAt = 0 /\ ctrl = FALSE /\ extended = FALSE
    /\ unread = <<>> /\ scans = <<>> /\ budget = <<0, 0>> /\ stuck = "none" /\ conAt = "prompt" /\ key = NoKey
    /\ line = <<>> /\ history = <<>> /\ historyIdx = 0 /\ gui = FALSE /\ shown = <<>>
    /\ column = 0 /\ room = 0 /\ fits = FALSE /\ lost = FALSE /\ mixed = FALSE
Init ==
    /\ part \in Parts
    /\ IF part = "ring3" THEN R3Init ELSE R3Rest
    /\ IF part = "context" THEN CxInit ELSE CxRest
    /\ CASE part = "bars" -> BarsInit [] part = "list" -> ListInit [] OTHER -> PciRest
    /\ CASE part = "lookup" -> LookupInit [] part = "madt" -> MadtInit [] part = "dmar" -> DmarInit [] OTHER -> AcpiRest
    /\ IF part = "usb" THEN UsbInit ELSE UsbRest
    /\ CASE part = "load" -> LoadInit("parse") [] part = "legacy" -> LoadInit("legacyParse") [] part = "package" -> PackInit
         [] OTHER -> LoadRest
    /\ IF part = "widgets" THEN WidgetInit ELSE WidgetRest
    /\ IF part = "console" THEN ConsoleInit ELSE ConsoleRest

Next ==
    /\ \/ /\ part = "ring3" /\ R3Next
          /\ UNCHANGED <<cxVars, pciVars, acpiVars, usbVars, loadVars, widgetVars, consoleVars>>
       \/ /\ part = "context" /\ CxNext
          /\ UNCHANGED <<r3Vars, pciVars, acpiVars, usbVars, loadVars, widgetVars, consoleVars>>
       \/ /\ part = "bars" /\ BarsNext
          /\ UNCHANGED <<r3Vars, cxVars, acpiVars, usbVars, loadVars, widgetVars, consoleVars>>
       \/ /\ part = "list" /\ ListNext
          /\ UNCHANGED <<r3Vars, cxVars, acpiVars, usbVars, loadVars, widgetVars, consoleVars>>
       \/ /\ part \in {"madt", "dmar"} /\ AcpiNext
          /\ UNCHANGED <<r3Vars, cxVars, pciVars, usbVars, loadVars, widgetVars, consoleVars>>
       \/ /\ part = "usb" /\ Enumerate
          /\ UNCHANGED <<r3Vars, cxVars, pciVars, acpiVars, loadVars, widgetVars, consoleVars>>
       \/ /\ part = "conf" /\ Descriptors
          /\ UNCHANGED <<r3Vars, cxVars, pciVars, acpiVars, loadVars, widgetVars, consoleVars>>
       \/ /\ part \in {"load", "legacy", "package"} /\ LoadNext
          /\ UNCHANGED <<r3Vars, cxVars, pciVars, acpiVars, usbVars, widgetVars, consoleVars>>
       \/ /\ part = "widgets" /\ WidgetNext
          /\ UNCHANGED <<r3Vars, cxVars, pciVars, acpiVars, usbVars, loadVars, consoleVars>>
       \/ /\ part = "console" /\ ConsoleNext
          /\ UNCHANGED <<r3Vars, cxVars, pciVars, acpiVars, usbVars, loadVars, widgetVars>>
    /\ UNCHANGED part

Spec == Init /\ [][Next]_allVars
=============================================================================
