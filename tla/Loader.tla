------------------------------- MODULE Loader -------------------------------
(* Programs on their way into memory: parse_elf, the process that            *)
(* exec_elf_proc makes of an image, the older exec_elf that runs it in the   *)
(* kernel's own address space, and the package container of pkg.rs.          *)
(*                                                                           *)
(* A byte of a file is its place in it.  Sizes are scaled: a page has        *)
(* PageBytes bytes.                                                          *)
EXTENDS Integers, Sequences, FiniteSetsExt

CONSTANTS PageBytes,   \* bytes of a page
          FileBytes,   \* bytes of the file behind its headers
          UserMin, UserMax,  \* USER_ADDR_MIN, USER_ADDR_MAX, in pages
          StackPage,   \* the page below USER_STACK_TOP
          MaxImage,    \* MAX_IMAGE_BYTES, in pages
          MaxHeaders,  \* MAX_PROGRAM_HEADERS
          Segments,    \* program headers an image can have
          Entries3     \* entry points it can have
ASSUME PageAssumption ==
    /\ PageBytes \in Nat \ {0} /\ {UserMin, UserMax, StackPage} \subseteq Nat
    /\ UserMin < UserMax /\ UserMax <= StackPage /\ Entries3 \subseteq Nat
    /\ \A s \in Segments : {s.offset, s.filesz, s.memsz, s.vaddr} \subseteq Nat

VARIABLES elf,       \* headers and entry point
          loadAt,    \* "parse", "map", "runs", "rejected", "failed"; "legacyParse", "legacyMap", "legacyRuns", "fault", "lost"
          toMap,     \* the segments that are not mapped yet
          space,     \* page -> what it holds and allows, of the new or the loaded address space
          before,    \* what was mapped there when exec_elf began
          short,     \* a frame was missing
          returnTo,  \* KERNEL_RIP
          pkg, got3  \* a package on disk, and what parse_spkg made of it
loadVars == <<elf, loadAt, toMap, space, before, short, returnTo, pkg, got3>>

PageOf(addr) == addr \div PageBytes
Images == [segs : UNION {[1 .. n -> Segments] : n \in 0 .. MaxHeaders}, entry : Entries3]
NoPackage == [manifest |-> <<>>, elf |-> <<>>, resources |-> <<>>, split |-> <<0, 0, 0>>, sum |-> <<>>, body |-> <<>>]
(* exec_elf maps into the address space that happens to be loaded, where a   *)
(* page of the user region may be mapped already.                            *)
Whatever == [b \in 0 .. PageBytes - 1 |-> -2]
OldSpaces == {<<>>} \cup {[p \in {UserMin} |-> [flags |-> [w |-> w, nx |-> FALSE], bytes |-> Whatever]] : w \in BOOLEAN}
LoadInit(first) ==
    /\ elf \in Images /\ loadAt = first /\ toMap = {} /\ short = FALSE /\ returnTo = "unset"
    /\ space \in (IF first = "legacyParse" THEN OldSpaces ELSE {<<>>}) /\ before = space
    /\ pkg = NoPackage /\ got3 = "unread"
-----------------------------------------------------------------------------
(* parse_elf. *)
MemEnd(s) == s.vaddr + s.memsz
PagesOf(s) == IF s.memsz = 0 THEN {} ELSE PageOf(s.vaddr) .. PageOf(MemEnd(s) - 1)
Used == {i \in DOMAIN elf.segs : elf.segs[i].memsz > 0}
Segment(i) == elf.segs[i]
InUserSpace(s) == s.vaddr >= UserMin * PageBytes /\ MemEnd(s) <= UserMax * PageBytes
SegmentValid(s) == s.memsz >= s.filesz /\ s.offset + s.filesz <= FileBytes /\ InUserSpace(s)
ImagePages == MapThenSumSet(LAMBDA i : Cardinality(PagesOf(Segment(i))), Used)
Touches(a, b) == PagesOf(a) \cap PagesOf(b) # {}
(* Mutant: the entry point may lie in data. *)
EntryAnywhere(s) == elf.entry >= s.vaddr /\ elf.entry < MemEnd(s)
EntryIn(s) == "x" \in s.flags /\ elf.entry >= s.vaddr /\ elf.entry < MemEnd(s)
ParseOk ==
    /\ \A i \in DOMAIN elf.segs : SegmentValid(Segment(i))
    /\ Used # {} /\ ImagePages <= MaxImage
    /\ \A i, j \in Used : i < j => ~Touches(Segment(i), Segment(j))
    /\ \E i \in Used : EntryIn(Segment(i))

(* exec_elf_proc: each segment into fresh, zeroed pages; a page that is      *)
(* mapped already is an error.                                               *)
Copied(s, addr) == IF addr - s.vaddr < s.filesz THEN s.offset + addr - s.vaddr ELSE -1
Bytes(s, p) == [b \in 0 .. PageBytes - 1 |->
                  LET addr == p * PageBytes + b IN IF addr \in s.vaddr .. MemEnd(s) - 1 THEN Copied(s, addr) ELSE -1]
(* Writable pages cannot be executed, but for the first two. *)
Flags(p, w) == [w |-> w, nx |-> w /\ p >= UserMin + 2]
PageFor(s, p) == [flags |-> Flags(p, "w" \in s.flags), bytes |-> Bytes(s, p)]
Mapped(s, ps) == [p \in DOMAIN space \cup ps |-> IF p \in ps THEN PageFor(s, p) ELSE space[p]]
Parsed(then) ==
    /\ loadAt' = (IF ParseOk THEN then ELSE "rejected") /\ toMap' = Used
    /\ UNCHANGED <<elf, space, short, returnTo, pkg, got3, before>>
ExecElfProc == loadAt = "parse" /\ Parsed("map")
MapSegment ==
    /\ loadAt = "map" /\ toMap # {}
    /\ LET s == Segment(Min(toMap))
       IN  IF PagesOf(s) \cap DOMAIN space = {}
           THEN space' = Mapped(s, PagesOf(s)) /\ toMap' = toMap \ {Min(toMap)} /\ UNCHANGED loadAt
           ELSE space' = <<>> /\ loadAt' = "failed" /\ UNCHANGED toMap
    /\ UNCHANGED <<elf, short, returnTo, pkg, got3, before>>
MapStack ==
    /\ loadAt = "map" /\ toMap = {} /\ loadAt' = "runs"
    /\ space' = [p \in DOMAIN space \cup {StackPage} |->
                    IF p = StackPage THEN [flags |-> Flags(p, TRUE), bytes |-> [b \in 0 .. PageBytes - 1 |-> -1]] ELSE space[p]]
    /\ UNCHANGED <<elf, toMap, short, returnTo, pkg, got3, before>>
NoFrames ==
    /\ loadAt = "map" /\ loadAt' = "failed" /\ short' = TRUE /\ space' = <<>>
    /\ UNCHANGED <<elf, toMap, returnTo, pkg, got3, before>>
-----------------------------------------------------------------------------
(* exec_elf: as many pages as the length fills are mapped from the page of   *)
(* the address on and written from the address on, through the mapping.  A   *)
(* page that is mapped already is kept as it is.  The kernel faults on a     *)
(* page that is not mapped or, CR0.WP being set, not writable.  A segment    *)
(* for which a frame is missing is left out, its first pages stay.           *)
LegacyPages(s) == (s.memsz + PageBytes - 1) \div PageBytes
LegacyFirst(s, n) == {PageOf(s.vaddr) + i : i \in 0 .. n - 1}
LegacyMapped(s) == LegacyFirst(s, LegacyPages(s))
LegacyLast(s) == s.vaddr + LegacyPages(s) * PageBytes - 1
LegacyWritten(s) == PageOf(s.vaddr) .. PageOf(LegacyLast(s))
MapUserRange(s, ps) ==
    [p \in DOMAIN space \cup ps |->
        IF p \in DOMAIN space THEN space[p] ELSE [flags |-> Flags(p, "w" \in s.flags), bytes |-> Whatever]]
(* The bytes from the address on, over whatever the pages belong to. *)
Filled(s, sp) ==
    [p \in DOMAIN sp |-> [flags |-> sp[p].flags, bytes |-> [b \in 0 .. PageBytes - 1 |->
        LET addr == p * PageBytes + b IN IF addr \in s.vaddr .. LegacyLast(s) THEN Copied(s, addr) ELSE sp[p].bytes[b]]]]
Writable(sp, ps) == \A p \in ps : p \in DOMAIN sp /\ sp[p].flags.w
ExecElf == loadAt = "legacyParse" /\ Parsed("legacyMap")
MapUserImage ==
    /\ loadAt = "legacyMap" /\ toMap # {} /\ toMap' = toMap \ {Min(toMap)}
    /\ LET s == Segment(Min(toMap))
           sp == MapUserRange(s, LegacyMapped(s))
       IN  \/ Writable(sp, LegacyWritten(s)) /\ space' = Filled(s, sp) /\ UNCHANGED <<loadAt, short>>
           \/ ~Writable(sp, LegacyWritten(s)) /\ space' = sp /\ loadAt' = "fault" /\ UNCHANGED short
           \/ /\ short' = TRUE /\ UNCHANGED loadAt
              /\ \E n \in 0 .. LegacyPages(s) - 1 : space' = MapUserRange(s, LegacyFirst(s, n))
    /\ UNCHANGED <<elf, returnTo, pkg, got3, before>>
(* The stack is a page of its own; without a frame for it the program gets a *)
(* vector of the kernel's heap, which is freed before the program begins.    *)
EnterRing3 ==
    /\ loadAt = "legacyMap" /\ toMap = {} /\ loadAt' = "legacyRuns"
    /\ \/ /\ space' = [p \in DOMAIN space \cup {StackPage} |->
                IF p = StackPage THEN [flags |-> Flags(p, TRUE), bytes |-> [b \in 0 .. PageBytes - 1 |-> -1]] ELSE space[p]]
          /\ UNCHANGED short
       \/ short' = TRUE /\ UNCHANGED space
    /\ UNCHANGED <<elf, toMap, returnTo, pkg, got3, before>>
(* sys_exit and kill_user_task jump to KERNEL_RIP, an output of the very asm *)
(* block that they are to return to: it is stored when that block is left.   *)
LegacyExit ==
    /\ loadAt = "legacyRuns" /\ loadAt' = (IF returnTo = "unset" THEN "lost" ELSE "back")
    /\ UNCHANGED <<elf, toMap, space, short, returnTo, pkg, got3, before>>
-----------------------------------------------------------------------------
(* build_spkg: header and payload.  The checksum is of the payload, here the *)
(* payload itself.                                                           *)
Build(m, e, r) ==
    [manifest |-> m, elf |-> e, resources |-> r, split |-> <<Len(m), Len(e), Len(r)>>, sum |-> m \o e \o r, body |-> m \o e \o r]
Manifests == {<<"name", "version", "entry">>, <<"name", "version">>, <<"name", "version", "entry", "network">>}
Elfs == {<<"magic", "code">>, <<"code">>, <<>>}
PackInit ==
    /\ elf = [segs |-> <<>>, entry |-> 0] /\ loadAt = "package" /\ toMap = {} /\ space = <<>> /\ short = FALSE
    /\ returnTo = "unset" /\ got3 = "unread" /\ before = <<>>
    /\ \E m \in Manifests, e \in Elfs, r \in {<<>>, <<"icon">>, <<"magic", "icon">>} : pkg = Build(m, e, r)
(* On disk a byte of the payload changes, bytes are cut off or added, or the *)
(* lengths in the header change, which the checksum does not cover.          *)
SplitBuilt == pkg.split = <<Len(pkg.manifest), Len(pkg.elf), Len(pkg.resources)>>
Damage3 ==
    /\ loadAt = "package" /\ pkg.body = pkg.sum /\ SplitBuilt /\ got3 = "unread"
    /\ \/ \E i \in DOMAIN pkg.body : pkg' = [pkg EXCEPT !.body[i] = "changed"]
       \/ pkg.body # <<>> /\ pkg' = [pkg EXCEPT !.body = SubSeq(@, 1, Len(@) - 1)]
       \/ pkg' = [pkg EXCEPT !.body = Append(@, "extra")]
       \/ \E n \in (0 .. Len(pkg.body)) \X (0 .. Len(pkg.body)) \X (0 .. Len(pkg.body)) : pkg' = [pkg EXCEPT !.split = n]
    /\ UNCHANGED <<elf, loadAt, toMap, space, short, returnTo, got3, before>>
(* parse_spkg. *)
Payload == LET n == pkg.split[1] + pkg.split[2] + pkg.split[3] IN SubSeq(pkg.body, 1, IF n < Len(pkg.body) THEN n ELSE Len(pkg.body))
LongEnough == Len(pkg.body) >= pkg.split[1] + pkg.split[2] + pkg.split[3]
SumHolds == Payload = pkg.sum
Cut(from, n) == SubSeq(Payload, from + 1, from + n)
HasMagic == pkg.split[2] > 0 /\ Payload[pkg.split[1] + 1] = "magic"
Complete(m) == \A key \in {"name", "version", "entry"} : \E i \in DOMAIN m : m[i] = key
ParseSpkg ==
    /\ loadAt = "package" /\ got3 = "unread"
    /\ got3' = IF LongEnough /\ SumHolds /\ Complete(Cut(0, pkg.split[1])) /\ HasMagic
               THEN "package" ELSE "refused"
    /\ UNCHANGED <<elf, loadAt, toMap, space, short, returnTo, pkg, before>>

LoadNext ==
    \/ ExecElfProc \/ MapSegment \/ MapStack \/ NoFrames \/ ExecElf \/ MapUserImage \/ EnterRing3 \/ LegacyExit
    \/ Damage3 \/ ParseSpkg
LoadSpec == (LoadInit("parse") \/ LoadInit("legacyParse") \/ PackInit) /\ [][LoadNext]_loadVars
-----------------------------------------------------------------------------
(* An image that parse_elf accepts fails to load only for want of frames. *)
AcceptedIsLoadable == loadAt = "failed" => short

(* A program that runs finds the bytes of its file where its headers say,    *)
(* zeros behind them, and every page writable exactly when its segment is;   *)
(* the stack apart, nothing else is mapped.                                  *)
LoadedAsDescribed ==
    loadAt = "runs" =>
        /\ DOMAIN space = (UNION {PagesOf(Segment(i)) : i \in Used}) \cup {StackPage}
        /\ \A i \in Used : LET s == Segment(i) IN \A a \in s.vaddr .. MemEnd(s) - 1 :
              /\ space[PageOf(a)].bytes[a % PageBytes] = IF a < s.vaddr + s.filesz THEN s.offset + a - s.vaddr ELSE -1
              /\ space[PageOf(a)].flags.w = ("w" \in s.flags)

(* No page outside the region of user code is mapped for a program, the      *)
(* stack apart: not those of the surfaces above it, nor the kernel's.        *)
InUserRegion == loadAt \in {"map", "runs"} => DOMAIN space \subseteq (UserMin .. UserMax - 1) \cup {StackPage}

(* A program that runs begins with an instruction of its code, in a page     *)
(* that can be executed; excepted are code segments that are writable too.   *)
EntryIsCode ==
    loadAt = "runs" => \E i \in Used :
        /\ EntryIn(Segment(i)) /\ "x" \in Segment(i).flags
        /\ ~space[PageOf(elf.entry)].flags.nx \/ "w" \in Segment(i).flags

(* exec_elf faults in the kernel only on an image of which a segment begins  *)
(* inside a page or is not writable, or over pages that were mapped before.  *)
LegacyFaults ==
    loadAt = "fault" => before # <<>> \/ \E i \in Used : Segment(i).vaddr % PageBytes # 0 \/ "w" \notin Segment(i).flags

(* And it comes to run a program, with a frame for each page and nothing     *)
(* mapped before, only when every segment is writable, the code too, and     *)
(* none is written beyond the pages of the image: of one that begins inside  *)
(* a page the rest falls into the page of another segment.                   *)
LegacyRunsOnly ==
    loadAt = "legacyRuns" /\ ~short /\ before = <<>> => \A i \in Used :
        /\ "w" \in Segment(i).flags
        /\ LegacyWritten(Segment(i)) \subseteq UNION {LegacyMapped(Segment(j)) : j \in Used}

(* A package that is accepted has the payload it was built with, byte for    *)
(* byte (what follows it in the file is not looked at), and its three parts  *)
(* are those it was built from when the header still has their lengths.      *)
(* Lengths that were changed and have the same sum are not noticed: the same *)
(* payload is then cut elsewhere.                                            *)
PackageIsWhole ==
    got3 = "package" =>
        /\ Payload = pkg.manifest \o pkg.elf \o pkg.resources
        /\ SplitBuilt =>
              /\ Cut(0, pkg.split[1]) = pkg.manifest
              /\ Cut(pkg.split[1], pkg.split[2]) = pkg.elf
              /\ Cut(pkg.split[1] + pkg.split[2], pkg.split[3]) = pkg.resources

(* The kernel continues behind a program that ends: "its KERNEL_RSP and      *)
(* KERNEL_RIP frame is valid" (recover_user_fault).                          *)
ReturnsToCaller == loadAt # "lost"

(* What exec_elf_proc accepts is loaded inside the user region as the file   *)
(* describes it, and starts in its code; the older exec_elf runs only images *)
(* that are writable throughout, and faults in the kernel on others; and a   *)
(* package that is accepted has the payload that it was built with (elf.rs,  *)
(* process.rs, user.rs, pkg.rs).                                             *)
LoaderSound ==
    /\ AcceptedIsLoadable /\ LoadedAsDescribed /\ InUserRegion /\ EntryIsCode
    /\ LegacyFaults /\ LegacyRunsOnly /\ PackageIsWhole
=============================================================================
