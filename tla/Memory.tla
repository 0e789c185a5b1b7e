------------------------------- MODULE Memory -------------------------------
(***************************************************************************)
(* Physical frames and who holds them: kernel/src/frame_pool.rs, the       *)
(* address spaces of memory.rs, the surfaces of surface.rs, the memory     *)
(* objects of mem_object.rs and the DMA regions of dma_region.rs with      *)
(* their IOMMU mapping.  A frame is a number, a page of a user space is a  *)
(* region and an index; each region has a level-1 table of its own.  One   *)
(* call that runs under one lock, or that works on a space nobody else     *)
(* knows yet, is one action.                                               *)
(***************************************************************************)
EXTENDS Integers, Sequences, FiniteSets, FiniteSetsExt, SequencesExt, Functions

CONSTANTS
    Users,          \* user processes, each with at most one address space
    Objects,        \* memory objects, a new one for each creation
    MemHandles,     \* capability handles for them
    Extents,        \* the pool's regions: a sequence of <<first, last>>
    CodePages, SurfacePages, ObjectPages, DmaPages,
    SurfaceSlots,   \* MAX_SURFACES_PER_PROCESS
    Quota,          \* pages a process may be charged for
    MaxMemOps       \* bound on the operations

ASSUME MemoryAssumption ==
    /\ {CodePages, SurfacePages, ObjectPages, DmaPages, SurfaceSlots, Quota, MaxMemOps}
          \subseteq Nat \ {0}
    /\ Extents \in Seq((Nat \ {0}) \X Nat)
    /\ \A i, j \in DOMAIN Extents :
          i # j => (Extents[i][1] .. Extents[i][2]) \cap (Extents[j][1] .. Extents[j][2]) = {}

VARIABLES
    pool,       \* FramePool: next free of each region, recycled, allocated
    space,      \* the address space of each process, or NoSpace
    life,       \* none, pending, live, exiting, releasing, exited
    charge,     \* resource_usage.current_memory_bytes, in pages
    surfaces,   \* SURFACE_REGISTRY
    job,        \* a surface creation between its two parts, or NoJob
    store,      \* MEM_OBJECT_STORE
    handles,    \* open handles for memory objects: what they name and may do
    dma,        \* frames of the DMA region
    iommu,      \* frames that the device may reach
    tables2,    \* frames of the IOMMU's own tables
    leaked,     \* history: frames that no record names any more
    spoiled,    \* history: tables were written in a frame that is somebody else's
    memOps

memVars == <<pool, space, life, charge, surfaces, job, store, handles, dma, iommu,
             tables2, leaked, spoiled, memOps>>

NoSpace == [root |-> 0]
NoJob == [owner |-> "nobody"]
Rights == {"map", "grant", "destroy"}

-----------------------------------------------------------------------------
(* FramePool *)

(* Runs of n adjacent frames among the recycled ones, by their first frame. *)
Runs(p, n) == {a \in p.recycled : a .. a + n - 1 \subseteq p.recycled}

RoomIn(p, n) == {i \in DOMAIN Extents : p.next[i] + n - 1 <= Extents[i][2]}

(* allocate: the first run, else the first region with room, else nothing.  *)
Allocate(p, n) ==
    IF Runs(p, n) # {}
    THEN LET a == Min(Runs(p, n))
         IN  [first |-> a,
              pool |-> [next |-> p.next, recycled |-> p.recycled \ (a .. a + n - 1),
                        allocated |-> p.allocated \cup (a .. a + n - 1)]]
    ELSE IF RoomIn(p, n) # {}
    THEN LET i == Min(RoomIn(p, n))
             a == p.next[i]
         IN  [first |-> a,
              pool |-> [next |-> [p.next EXCEPT ![i] = a + n], recycled |-> p.recycled,
                        allocated |-> p.allocated \cup (a .. a + n - 1)]]
    ELSE [first |-> 0, pool |-> p]

(* Only frames that are allocated come back.                                *)
Release(p, frames) ==
    [next |-> p.next, recycled |-> p.recycled \cup (frames \cap p.allocated),
     allocated |-> p.allocated \ frames]

-----------------------------------------------------------------------------
(* Address spaces *)

(* Up to n single frames, one after the other.                              *)
TakeOne(w) ==
    LET a == Allocate(w.pool, 1)
    IN  IF a.first = 0 THEN w ELSE [pool |-> a.pool, frames |-> Append(w.frames, a.first)]
Take(p, n) ==
    LET taken[i \in 0 .. n] == IF i = 0 THEN [pool |-> p, frames |-> << >>] ELSE TakeOne(taken[i - 1])
    IN  taken[n]

(* clone_active_cr3: the root and the table of the low half.                *)
CloneActiveCr3(p) ==
    LET got == Take(p, 2)
    IN  IF Len(got.frames) < 2
        THEN [ok |-> FALSE, pool |-> Release(got.pool, ToSet(got.frames)), space |-> NoSpace]
        ELSE [ok |-> TRUE, pool |-> got.pool,
              space |-> [root |-> got.frames[1], low |-> got.frames[2], l2 |-> 0,
                         l1 |-> << >>, pages |-> << >>]]

(* n pages of a region, with frames of the space's own or with the given    *)
(* ones; a page that is mapped stays as it is.  On an error the pages       *)
(* mapped so far and the tables made for them go back.                      *)
TablesFor(sp, region) == (IF sp.l2 = 0 THEN 1 ELSE 0) + (IF region \in DOMAIN sp.l1 THEN 0 ELSE 1)
WithPages(sp, region, n, given, f) ==
    LET tables == TablesFor(sp, region)
    IN  [root |-> sp.root, low |-> sp.low, l2 |-> IF sp.l2 = 0 THEN f[1] ELSE sp.l2,
         l1 |-> [r \in DOMAIN sp.l1 \cup {region} |-> IF r \in DOMAIN sp.l1 THEN sp.l1[r] ELSE f[tables]],
         pages |-> [g \in DOMAIN sp.pages \cup {<<region, i>> : i \in 1 .. n} |->
                      IF g \in DOMAIN sp.pages THEN sp.pages[g]
                      ELSE [frame |-> IF given = << >> THEN f[tables + g[2]] ELSE given[g[2]], own |-> given = << >>]]]
MapRegion(p, sp, region, n, given) ==
    LET need == TablesFor(sp, region) + (IF given = << >> THEN n ELSE 0)
        got == Take(p, need)
    IN  IF Len(got.frames) < need
        THEN [ok |-> FALSE, pool |-> Release(got.pool, ToSet(got.frames)), space |-> sp]
        ELSE [ok |-> TRUE, pool |-> got.pool, space |-> WithPages(sp, region, n, given, got.frames)]

(* The n frames from a on.                                                  *)
From(a, n) == [i \in 1 .. n |-> a + i - 1]

(* prune_empty_user_tables, after the last page of the region is unmapped.  *)
Prune(p, sp, region) ==
    LET left == Restrict(sp.l1, DOMAIN sp.l1 \ {region})
        freed == {sp.l1[region]} \cup (IF left = << >> THEN {sp.l2} ELSE {})
    IN  [pool |-> Release(p, freed),
         space |-> [root |-> sp.root, low |-> sp.low, l2 |-> IF left = << >> THEN 0 ELSE sp.l2,
                    l1 |-> left, pages |-> sp.pages]]

(* The first n pages of a region.                                           *)
UnmapRegion(p, sp, region, n) ==
    LET rest == {g \in DOMAIN sp.pages : g[1] # region \/ g[2] \notin 1 .. n}
        mid == [sp EXCEPT !.pages = Restrict(@, rest)]
    IN  IF region \in DOMAIN sp.l1 /\ \A g \in rest : g[1] # region THEN Prune(p, mid, region)
        ELSE [pool |-> p, space |-> mid]

(* update_flags on pages that are mapped: they keep their frame and lose    *)
(* the bit that says it is the space's own.                                 *)
Disowned(sp, region, n) ==
    [sp EXCEPT !.pages = [g \in DOMAIN @ |->
        [frame |-> @[g].frame, own |-> @[g].own /\ (g[1] # region \/ g[2] \notin 1 .. n)]]]

OwnFrames(w) == {w.pages[g].frame : g \in {h \in DOMAIN w.pages : w.pages[h].own}}
TableFrames(w) ==
    {w.root, w.low} \cup {w.l1[r] : r \in DOMAIN w.l1} \cup ({w.l2} \ {0})
SpaceFrames(w) == OwnFrames(w) \cup TableFrames(w)

(* Mutant: every mapped frame is given back.                                *)
DestroyWithAllPages(w, p) ==
    Release(p, TableFrames(w) \cup {w.pages[g].frame : g \in DOMAIN w.pages})

(* destroy_user_address_space: the space's own pages and its tables.        *)
DestroyUserAddressSpace(w, p) == Release(p, SpaceFrames(w))

-----------------------------------------------------------------------------
MemInit ==
    /\ pool = [next |-> [i \in DOMAIN Extents |-> Extents[i][1]],
               recycled |-> {}, allocated |-> {}]
    /\ space = [p \in Users |-> NoSpace] /\ life = [p \in Users |-> "none"]
    /\ charge = [p \in Users |-> 0]
    /\ surfaces = {} /\ job = NoJob
    /\ store = << >> /\ handles = << >>
    /\ dma = {} /\ iommu = {} /\ tables2 = {}
    /\ leaked = {} /\ spoiled = FALSE /\ memOps = 0

(* uncharge_memory saturates.                                               *)
Uncharged(p, n) == [charge EXCEPT ![p] = Max({0, @ - n})]

Op == memOps < MaxMemOps /\ memOps' = memOps + 1

(* spawn_raw_user, exec_elf_proc and the spawn functions of the services:   *)
(* the builder's drop destroys what an error leaves.                        *)
SpawnProcess(p, next) ==
    LET made == CloneActiveCr3(pool)
        code == MapRegion(made.pool, made.space, <<"code", 0>>, CodePages, << >>)
        stack == MapRegion(code.pool, code.space, <<"stack", 0>>, 1, << >>)
    IN  /\ Op /\ life[p] = "none"
        /\ \/ /\ made.ok /\ code.ok /\ stack.ok
              /\ pool' = stack.pool /\ space' = [space EXCEPT ![p] = stack.space]
              /\ life' = [life EXCEPT ![p] = next]
           \/ /\ made.ok /\ code.ok /\ ~stack.ok
              /\ pool' = DestroyUserAddressSpace(stack.space, stack.pool)
              /\ UNCHANGED <<space, life>>
           \/ /\ made.ok /\ ~code.ok
              /\ pool' = DestroyUserAddressSpace(code.space, code.pool)
              /\ UNCHANGED <<space, life>>
           \/ ~made.ok /\ pool' = made.pool /\ UNCHANGED <<space, life>>
        /\ UNCHANGED <<charge, surfaces, job, store, handles, dma, iommu, tables2,
                       leaked, spoiled>>

-----------------------------------------------------------------------------
(* Surfaces *)

FreeSlots(p) == (1 .. SurfaceSlots) \ {s.slot : s \in {t \in surfaces : t.owner = p}}
SurfaceRegion(slot) == <<"surface", slot>>

(* create_surface_for_pid up to the point where SCHEDULER is given back:    *)
(* the owner has a space, is not yet exited and is charged.  The registry   *)
(* stays locked.                                                            *)
ChargeSurface(p) ==
    /\ Op /\ job = NoJob
    /\ life[p] \in {"pending", "live", "exiting", "releasing"}
    /\ FreeSlots(p) # {} /\ charge[p] + SurfacePages <= Quota
    /\ charge' = [charge EXCEPT ![p] = @ + SurfacePages]
    /\ job' = [owner |-> p, slot |-> Min(FreeSlots(p)), cr3 |-> space[p].root]
    /\ UNCHANGED <<pool, space, life, surfaces, store, handles, dma, iommu, tables2,
                   leaked, spoiled>>

UnchargedOnError(p) == Uncharged(p, SurfacePages)

SurfaceRecord(first) == [owner |-> job.owner, slot |-> job.slot, first |-> first]

(* ... and the rest of it: frames, mapping, record.  A page that is mapped  *)
(* already is an error here.                                                *)
FinishSurface ==
    LET p == job.owner
        backing == Allocate(pool, SurfacePages)
        frames == backing.first .. backing.first + SurfacePages - 1
        clash == \E g \in DOMAIN space[p].pages : g[1] = SurfaceRegion(job.slot) /\ g[2] \in 1 .. SurfacePages
        w == MapRegion(backing.pool, space[p], SurfaceRegion(job.slot), SurfacePages,
                       From(backing.first, SurfacePages))
    IN  /\ job # NoJob /\ space[p] # NoSpace
        /\ job' = NoJob
        /\ \/ /\ backing.first # 0 /\ ~clash /\ w.ok
              /\ pool' = w.pool /\ space' = [space EXCEPT ![p] = w.space]
              /\ surfaces' = surfaces \cup {SurfaceRecord(backing.first)}
              /\ UNCHANGED charge
           \/ /\ backing.first = 0 \/ clash \/ ~w.ok
              /\ charge' = UnchargedOnError(p)
              /\ pool' = IF backing.first = 0 THEN pool
                         ELSE Release(IF clash THEN backing.pool ELSE w.pool, frames)
              /\ UNCHANGED <<space, surfaces>>
        /\ UNCHANGED <<life, store, handles, dma, iommu, tables2, leaked, spoiled, memOps>>

(* The owner's tables were released between the two parts, and owner_cr3    *)
(* still names their root.  Its entry for the low half is empty, so that    *)
(* three tables are made below it and the surface is recorded; without      *)
(* frames for them all but the first are pruned.  Nobody ever releases the  *)
(* rest.  The root itself is free, and is written: what was there by then   *)
(* is not known, and once it is somebody's nothing holds any more.          *)
FinishSurfaceInFreedSpace ==
    LET backing == Allocate(pool, SurfacePages)
        frames == backing.first .. backing.first + SurfacePages - 1
        got == Take(backing.pool, 3)
        stay == {got.frames[i] : i \in DOMAIN got.frames \cap {1}}
    IN  /\ job # NoJob /\ space[job.owner] = NoSpace
        /\ job' = NoJob
        /\ \/ /\ backing.first = 0
              /\ charge' = UnchargedOnError(job.owner)
              /\ UNCHANGED <<pool, surfaces, leaked, spoiled>>
           \/ /\ backing.first # 0 /\ Len(got.frames) < 3
              /\ charge' = UnchargedOnError(job.owner)
              /\ pool' = Release(got.pool, (frames \cup ToSet(got.frames)) \ stay)
              /\ leaked' = leaked \cup stay
              /\ spoiled' \in {TRUE, spoiled \/ job.cr3 \in got.pool.allocated}
              /\ UNCHANGED surfaces
           \/ /\ backing.first # 0 /\ Len(got.frames) = 3
              /\ pool' = got.pool
              /\ surfaces' = surfaces \cup {SurfaceRecord(backing.first)}
              /\ leaked' = leaked \cup ToSet(got.frames)
              /\ spoiled' \in {TRUE, spoiled \/ job.cr3 \in got.pool.allocated}
              /\ UNCHANGED charge
        /\ UNCHANGED <<space, life, store, handles, dma, iommu, tables2, memOps>>

UnmapSurface(sp, region) == UnmapRegion(pool, sp, region, SurfacePages)

(* destroy_surface_for_pid: every page must still be the surface's.         *)
RemoveSurface(s) ==
    LET w == UnmapSurface(space[s.owner], SurfaceRegion(s.slot))
        frames == s.first .. s.first + SurfacePages - 1
    IN  /\ job = NoJob /\ space[s.owner] # NoSpace
        /\ \A i \in 1 .. SurfacePages :
              space[s.owner].pages[<<SurfaceRegion(s.slot), i>>].frame = s.first + i - 1
        /\ pool' = Release(w.pool, frames)
        /\ space' = [space EXCEPT ![s.owner] = w.space]
        /\ surfaces' = surfaces \ {s}
        /\ charge' = Uncharged(s.owner, SurfacePages)
        /\ UNCHANGED <<job, store, handles, dma, iommu, tables2, leaked, spoiled>>

DestroySurface(s) ==
    /\ Op /\ life[s.owner] \in {"pending", "live"}
    /\ RemoveSurface(s)
    /\ UNCHANGED life

-----------------------------------------------------------------------------
(* The end of a process *)

(* PendingProcess: the window exists, or the process is taken back.         *)
CommitPending(p) ==
    /\ life[p] = "pending"
    /\ life' = [life EXCEPT ![p] = "live"]
    /\ UNCHANGED <<pool, space, charge, surfaces, job, store, handles, dma, iommu,
                   tables2, leaked, spoiled, memOps>>

ExitCurrent(p) ==
    /\ life[p] \in {"pending", "live"}
    /\ life' = [life EXCEPT ![p] = "exiting"]
    /\ UNCHANGED <<pool, space, charge, surfaces, job, store, handles, dma, iommu,
                   tables2, leaked, spoiled, memOps>>

(* cleanup_surfaces_for_pid *)
CleanupSurface(s) ==
    /\ life[s.owner] = "exiting"
    /\ RemoveSurface(s)
    /\ UNCHANGED <<life, memOps>>

(* release_process_address_space: with a surface left the tables are kept.  *)
CheckSurfaces(p) ==
    /\ life[p] = "exiting" /\ job = NoJob
    /\ life' = [life EXCEPT ![p] = IF \E s \in surfaces : s.owner = p
                                   THEN "exited" ELSE "releasing"]
    /\ UNCHANGED <<pool, space, charge, surfaces, job, store, handles, dma, iommu,
                   tables2, leaked, spoiled, memOps>>

ReleaseAddressSpace(p) ==
    /\ life[p] = "releasing"
    /\ pool' = DestroyUserAddressSpace(space[p], pool)
    /\ space' = [space EXCEPT ![p] = NoSpace]
    /\ life' = [life EXCEPT ![p] = "exited"]
    /\ UNCHANGED <<charge, surfaces, job, store, handles, dma, iommu, tables2, leaked,
                   spoiled, memOps>>

-----------------------------------------------------------------------------
(* Memory objects *)

(* The map f with x standing for v.                                         *)
Entered(f, x, v) == [y \in DOMAIN f \cup {x} |-> IF y = x THEN v ELSE f[y]]

(* The store with an object's state changed; its owner and frames never do. *)
Becomes(o, mapped, refs, destroyed) ==
    [store EXCEPT ![o] = [owner |-> @.owner, frames |-> @.frames,
                          mapped |-> mapped, refs |-> refs, destroyed |-> destroyed]]

Fresh(o) == o \in Objects \ DOMAIN store /\ \A h \in DOMAIN handles : handles[h].obj # o

(* MemObject::new takes frames one by one.  When they do not suffice the    *)
(* ones taken are lost: the list of addresses is dropped, and only a        *)
(* complete object frees frames when it is.                                 *)
MemCreate(p, o, h) ==
    LET got == Take(pool, ObjectPages)
    IN  /\ Op /\ life[p] = "live" /\ Fresh(o) /\ h \notin DOMAIN handles
        /\ charge[p] + ObjectPages <= Quota
        /\ pool' = got.pool
        /\ IF Len(got.frames) = ObjectPages
           THEN /\ store' = Entered(store, o, [owner |-> p, frames |-> got.frames,
                                               mapped |-> << >>, refs |-> 1, destroyed |-> FALSE])
                /\ handles' = Entered(handles, h, [obj |-> o, rights |-> Rights, parent |-> h])
                /\ charge' = [charge EXCEPT ![p] = @ + ObjectPages]
                /\ UNCHANGED leaked
           ELSE leaked' = leaked \cup ToSet(got.frames) /\ UNCHANGED <<store, handles, charge>>
        /\ UNCHANGED <<space, life, surfaces, job, dma, iommu, tables2, spoiled>>

(* No capability can be made: the object is dropped, which uncharges the    *)
(* owner, after mem_create has uncharged it already.                        *)
MemCreateFails(p) ==
    LET got == Take(pool, ObjectPages)
    IN  /\ Op /\ life[p] = "live" /\ charge[p] + ObjectPages <= Quota
        /\ Len(got.frames) = ObjectPages
        /\ pool' = Release(got.pool, ToSet(got.frames))
        /\ charge' = Uncharged(p, ObjectPages)
        /\ UNCHANGED <<space, life, surfaces, job, store, handles, dma, iommu, tables2,
                       leaked, spoiled>>

MayMem(h, right) ==
    /\ h \in DOMAIN handles /\ right \in handles[h].rights
    /\ handles[h].obj \in DOMAIN store

MemDup(h, g, rights) ==
    /\ Op /\ MayMem(h, "grant") /\ g \notin DOMAIN handles
    /\ ~store[handles[h].obj].destroyed
    /\ handles' = Entered(handles, g, [obj |-> handles[h].obj, rights |-> rights, parent |-> h])
    /\ LET o == handles[h].obj
       IN  store' = Becomes(o, store[o].mapped, store[o].refs + 1, FALSE)
    /\ UNCHANGED <<pool, space, life, charge, surfaces, job, dma, iommu, tables2, leaked,
                   spoiled>>

(* mem_map: a page that is mapped already counts as success and stays.      *)
MemMap(h, p) ==
    LET o == handles[h].obj
        w == MapRegion(pool, space[p], <<"map", 0>>, ObjectPages, store[o].frames)
    IN  /\ Op /\ MayMem(h, "map") /\ ~store[o].destroyed
        /\ life[p] \in {"live", "exiting"} /\ space[p] # NoSpace
        /\ pool' = w.pool /\ space' = [space EXCEPT ![p] = w.space]
        /\ store' = IF w.ok THEN Becomes(o, Append(store[o].mapped, p), store[o].refs + 1, FALSE)
                    ELSE store
        /\ UNCHANGED <<life, charge, surfaces, job, handles, dma, iommu, tables2, leaked,
                       spoiled>>

(* Dropping an object: its owner is uncharged and its frames are free.      *)
Dropped(o, p) ==
    /\ store' = Restrict(store, DOMAIN store \ {o})
    /\ pool' = Release(p, ToSet(store[o].frames))
    /\ charge' = Uncharged(store[o].owner, ObjectPages)

MemUnmap(h, p) ==
    LET o == handles[h].obj
        at == SelectInSeq(store[o].mapped, LAMBDA q : q = p)
        rest == RemoveAt(store[o].mapped, at)
        w == IF space[p] = NoSpace THEN [pool |-> pool, space |-> NoSpace]
             ELSE UnmapRegion(pool, space[p], <<"map", 0>>, ObjectPages)
    IN  /\ Op /\ MayMem(h, "map") /\ at # 0
        /\ space' = [space EXCEPT ![p] = w.space]
        /\ IF store[o].destroyed /\ rest = << >> /\ store[o].refs <= 2
           THEN Dropped(o, w.pool)
           ELSE /\ store' = Becomes(o, rest, Max({0, store[o].refs - 1}), store[o].destroyed)
                /\ pool' = w.pool /\ UNCHANGED charge
        /\ UNCHANGED <<life, surfaces, job, handles, dma, iommu, tables2, leaked, spoiled>>

LastUse(o) == store[o].mapped = << >> /\ store[o].refs <= 1

(* The last use revokes what was derived from the handle.                   *)
MemDestroy(h) ==
    LET o == handles[h].obj
    IN  /\ Op /\ MayMem(h, "destroy")
        /\ IF LastUse(o)
           THEN /\ Dropped(o, pool)
                /\ handles' = Restrict(handles, {g \in DOMAIN handles :
                                                   g # h /\ handles[g].parent # h})
           ELSE /\ store' = Becomes(o, store[o].mapped, Max({0, store[o].refs - 1}), TRUE)
                /\ handles' = Restrict(handles, DOMAIN handles \ {h})
                /\ UNCHANGED <<pool, charge>>
        /\ UNCHANGED <<space, life, surfaces, job, dma, iommu, tables2, leaked, spoiled>>

-----------------------------------------------------------------------------
(* DMA *)

(* probe_and_setup_iommu, at boot: the root, context and top-level tables.  *)
(* The ones it got before an allocation fails are lost.                     *)
ProbeIommu ==
    LET got == Take(pool, 3)
    IN  /\ Op /\ tables2 = {} /\ dma = {} /\ \A p \in Users : life[p] = "none"
        /\ pool' = got.pool
        /\ IF Len(got.frames) = 3
           THEN tables2' = ToSet(got.frames) /\ UNCHANGED leaked
           ELSE leaked' = leaked \cup ToSet(got.frames) /\ UNCHANGED tables2
        /\ UNCHANGED <<space, life, charge, surfaces, job, store, handles, dma, iommu, spoiled>>

(* map_iommu_dma_range: nothing without an IOMMU, else three more tables.   *)
MapIommuDmaRange(p) == IF tables2 = {} THEN [pool |-> p, frames |-> << >>] ELSE Take(p, 3)

(* spawn_net_service allocates one region and registers it.  (Without       *)
(* frames for the tables the kernel panics.)                                *)
RegisterDmaRegion ==
    LET region == Allocate(pool, DmaPages)
        frames == region.first .. region.first + DmaPages - 1
        t == MapIommuDmaRange(region.pool)
    IN  /\ Op /\ dma = {} /\ region.first # 0 /\ Len(t.frames) \in {0, 3}
        /\ (tables2 # {} => t.frames # << >>)
        /\ pool' = t.pool
        /\ dma' = frames
        /\ tables2' = tables2 \cup ToSet(t.frames)
        /\ iommu' = IF tables2 = {} THEN iommu ELSE iommu \cup frames
        /\ UNCHANGED <<space, life, charge, surfaces, job, store, handles, leaked, spoiled>>

(* sys_map_dma at any address of the caller's space, which may be mapped:   *)
(* such a page goes on showing what it showed, but its frame is no longer   *)
(* the space's to free.                                                     *)
DmaTargets == {<<"dma", 0>>, <<"code", 0>>, <<"stack", 0>>, <<"map", 0>>}
              \cup {SurfaceRegion(k) : k \in 1 .. SurfaceSlots}
SysMapDma(p, region, n) ==
    LET sp == Disowned(space[p], region, n)
        w == MapRegion(pool, sp, region, n, From(Min(dma), n))
    IN  /\ Op /\ life[p] = "live" /\ dma # {} /\ n <= Cardinality(dma)
        /\ pool' = w.pool /\ space' = [space EXCEPT ![p] = w.space]
        /\ leaked' = leaked \cup (OwnFrames(space[p]) \ OwnFrames(sp))
        /\ UNCHANGED <<life, charge, surfaces, job, store, handles, dma, iommu, tables2, spoiled>>

-----------------------------------------------------------------------------
MemNext ==
    \/ FinishSurface \/ FinishSurfaceInFreedSpace \/ ProbeIommu \/ RegisterDmaRegion
    \/ \E s \in surfaces : DestroySurface(s) \/ CleanupSurface(s)
    \/ \E p \in Users :
          \/ \E next \in {"pending", "live"} : SpawnProcess(p, next)
          \/ ChargeSurface(p) \/ CommitPending(p) \/ ExitCurrent(p)
          \/ CheckSurfaces(p) \/ ReleaseAddressSpace(p) \/ MemCreateFails(p)
          \/ \E region \in DmaTargets, n \in 1 .. DmaPages : SysMapDma(p, region, n)
          \/ \E o \in Objects, h \in MemHandles : MemCreate(p, o, h)
          \/ \E h \in DOMAIN handles : MemMap(h, p) \/ MemUnmap(h, p)
    \/ \E h \in DOMAIN handles :
          \/ MemDestroy(h)
          \/ \E g \in MemHandles, r \in {Rights, {"map"}} : MemDup(h, g, r)

MemSpec == MemInit /\ [][MemNext]_memVars

-----------------------------------------------------------------------------
(* Properties *)

LiveSpaces == {p \in Users : space[p] # NoSpace}
SurfaceFrames(s) == s.first .. s.first + SurfacePages - 1

(* The sets of frames that the records of the kernel lay claim to.          *)
Claims ==
    {<<"space", p, SpaceFrames(space[p])>> : p \in LiveSpaces}
    \cup {<<"surface", s, SurfaceFrames(s)>> : s \in surfaces}
    \cup {<<"object", o, ToSet(store[o].frames)>> : o \in DOMAIN store}
    \cup {<<"dma", 0, dma>>, <<"iommu", 0, tables2>>, <<"lost", 0, leaked>>}

MemTypeOK ==
    /\ pool.recycled \cap pool.allocated = {}
    /\ life \in [Users -> {"none", "pending", "live", "exiting", "releasing", "exited"}]
    /\ \A p \in Users : charge[p] \in 0 .. Quota
    /\ iommu \in {{}, dma}

(* Every allocated frame belongs to exactly one record, and every frame a   *)
(* record names is allocated: whatever fails or is undone, none has two     *)
(* owners, and lost are only the frames of a MemObject::new, an IOMMU setup *)
(* or a surface that did not come about and those of pages a DMA region was *)
(* mapped over.                                                             *)
FramesHaveOneOwner ==
    /\ pool.allocated = UNION {c[3] : c \in Claims}
    /\ \A c, d \in Claims : c # d => c[3] \cap d[3] = {}

(* A page of a user space never shows a frame that somebody else may be     *)
(* given: its own frames, those of a surface of the process, of an object   *)
(* or of the DMA region that is still there, or one that is lost for good.  *)
NoDanglingPage ==
    \A p \in LiveSpaces : \A g \in DOMAIN space[p].pages :
        LET page == space[p].pages[g]
        IN  \/ page.own /\ page.frame \in pool.allocated
            \/ page.frame \in dma \cup leaked
            \/ \E o \in DOMAIN store : page.frame \in ToSet(store[o].frames)
            \/ \E s \in surfaces : s.owner = p /\ page.frame \in SurfaceFrames(s)

Accounted(p) ==
    SurfacePages * Cardinality({s \in surfaces : s.owner = p})
    + ObjectPages * Cardinality({o \in DOMAIN store : store[o].owner = p})
    + (IF job # NoJob /\ job.owner = p THEN SurfacePages ELSE 0)

(* No error path keeps a charge: a process is never charged for more pages  *)
(* than it holds.  (It may be charged for less, see MemCreateFails.)        *)
ChargeIsGivenBack == \A p \in Users : charge[p] <= Accounted(p)

(* A frame has one owner, is free or is lost for good, no page outlives the  *)
(* frames it maps, and nobody pays for more than it holds, whatever fails    *)
(* half way or is torn down by another (memory.rs, frame_pool.rs,            *)
(* mem_object.rs): unless a surface was mapped through tables that were      *)
(* released meanwhile and whose root somebody else has (surface.rs).         *)
MemorySound ==
    MemTypeOK /\ (spoiled \/ (FramesHaveOneOwner /\ NoDanglingPage)) /\ ChargeIsGivenBack
=============================================================================
