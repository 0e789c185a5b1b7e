---------------------------- MODULE KernelProofs ----------------------------
(* Theorems about the processors (Smp), for every number of processors,      *)
(* pages and tasks, and about the block engine (SpfsEngine), for every size  *)
(* of the drive, of its inodes and tables and of the log; and about physical *)
(* memory (Memory), for any pool of frames, any processes, and any sizes of  *)
(* code, surfaces, objects and DMA region; and about the file tree, its      *)
(* image and the descriptors (Vfs), for any callers, paths and descriptors.  *)
EXTENDS Smp, SpfsEngine, Memory, Vfs, QueueLemmas

(* The start of the processors.  While nobody is late, the processor that is *)
(* in the trampoline is the one that start_ap works on, and its marker is    *)
(* not set yet: so the parameters it reads are its own.                      *)
BootTypes ==
    /\ booting \in Cpus /\ started \subseteq Cpus /\ late \in BOOLEAN
    /\ page \in [cpu : Cpus \cup {Max(Aps)}, marker : BOOLEAN, mapped : BOOLEAN]
    /\ ap \in [Aps -> {"off", "sipi", "entered", "ready", "lost"}]
    /\ apId \in [Aps -> Cpus \cup {NoCpu}]
PageIsOfBooting ==
    /\ booting # Bsp => page.mapped
    /\ page.mapped => booting # Bsp /\ page.cpu = booting
OneInTrampoline ==
    ~late => \A c \in Aps : ap[c] = "sipi" => booting = c /\ ~page.marker
BootInv == BootTypes /\ PageIsOfBooting /\ OneInTrampoline /\ OneIdPerCpu

LEMMA BootInvInit == SmpInit => BootInv
<1> SUFFICES ASSUME SmpInit PROVE BootInv
  OBVIOUS
<1> USE SmpAssumption DEF Cpus, Bsp, NoCpu
<1>1. CASE AtReset
  BY <1>1 DEF AtReset, BootInv, BootTypes, PageIsOfBooting, OneInTrampoline, OneIdPerCpu
<1>2. CASE AfterBoot
  BY <1>2 DEF AfterBoot, BootInv, BootTypes, PageIsOfBooting, OneInTrampoline, OneIdPerCpu
<1> QED BY <1>1, <1>2 DEF SmpInit

LEMMA BootInvNext ==
    ASSUME BootInv, BootNext
    PROVE  BootInv' /\ started \subseteq started' /\ UNCHANGED <<tlbVars, queueVars>>
<1> USE SmpAssumption DEF Cpus, Bsp, NoCpu
<1>1. PICK c \in Aps : StartAp(c) \/ ApEnter(c) \/ ApReady(c) \/ ConfirmAp(c) \/ ConfirmTimeout(c)
  BY DEF BootNext
<1> c # Bsp /\ c \in Cpus
  OBVIOUS
<1> USE DEF BootInv
<1>2. CASE StartAp(c)
  <2>1. BootTypes' /\ PageIsOfBooting'
    BY <1>2 DEF StartAp, BootTypes, PageIsOfBooting
  <2>2. OneInTrampoline' /\ OneIdPerCpu'
    BY <1>2 DEF StartAp, BootTypes, OneInTrampoline, OneIdPerCpu
  <2>3. started' = started /\ UNCHANGED <<tlbVars, queueVars>>
    BY <1>2 DEF StartAp
  <2> QED BY <2>1, <2>2, <2>3
<1>3. CASE ApEnter(c)
  <2>1. CASE page.mapped
    <3>0. /\ ap' = [ap EXCEPT ![c] = "entered"] /\ apId' = [apId EXCEPT ![c] = page.cpu]
          /\ page' = [page EXCEPT !.marker = TRUE] /\ page.cpu \in Cpus
          /\ booting' = booting /\ started' = started /\ late' = late
      BY <1>3, <2>1 DEF ApEnter, BootTypes, PageIsOfBooting
    <3>3. page' \in [cpu : Cpus \cup {Max(Aps)}, marker : BOOLEAN, mapped : BOOLEAN]
          /\ page'.cpu = page.cpu /\ page'.mapped = page.mapped
      BY <3>0 DEF BootTypes
    <3>1. BootTypes' /\ PageIsOfBooting'
      BY <3>0, <3>3 DEF BootTypes, PageIsOfBooting
    <3>2. OneInTrampoline' /\ OneIdPerCpu'
      BY <1>3, <2>1 DEF ApEnter, BootTypes, PageIsOfBooting, OneInTrampoline, OneIdPerCpu
    <3> QED BY <1>3, <3>1, <3>2 DEF ApEnter
  <2>2. CASE ~page.mapped
    <3>1. BootTypes' /\ PageIsOfBooting'
      BY <1>3, <2>2 DEF ApEnter, BootTypes, PageIsOfBooting
    <3>2. OneInTrampoline' /\ OneIdPerCpu'
      BY <1>3, <2>2 DEF ApEnter, BootTypes, OneInTrampoline, OneIdPerCpu
    <3> QED BY <1>3, <3>1, <3>2 DEF ApEnter
  <2> QED BY <2>1, <2>2
<1>4. CASE ApReady(c)
  BY <1>4 DEF ApReady, BootTypes, PageIsOfBooting, OneInTrampoline, OneIdPerCpu
<1>5. CASE ConfirmAp(c) \/ ConfirmTimeout(c)
  <2>1. Finish(c) /\ booting = c /\ late' \in BOOLEAN /\ (~late' => ~late /\ page.marker)
    BY <1>5 DEF ConfirmAp, ConfirmTimeout, BootTypes
  <2>2. BootTypes' /\ PageIsOfBooting'
    BY <2>1 DEF Finish, BootTypes, PageIsOfBooting
  <2>3. OneInTrampoline' /\ OneIdPerCpu'
    BY <2>1 DEF Finish, OneInTrampoline, OneIdPerCpu
  <2> QED BY <2>1, <2>2, <2>3 DEF Finish
<1> QED BY <1>1, <1>2, <1>3, <1>4, <1>5

-----------------------------------------------------------------------------
(* Shootdowns.  As long as none has timed out, a request that is under way   *)
(* counts exactly the processors that have flushed its page, and an          *)
(* interrupt is pending for the others only: so no interrupt outlives its    *)
(* request, and the last acknowledgement means that all have flushed.        *)
TlbTypes ==
    /\ accepting \subseteq Cpus /\ mappedPages \subseteq SmpPages /\ tlb \in [Cpus -> SUBSET SmpPages]
    /\ unmapping \in [Cpus -> SmpPages \cup {NoPage}] /\ ipi \subseteq Cpus /\ timedOut \in BOOLEAN
    /\ request \in [holder : Cpus \cup {NoCpu}, page : SmpPages \cup {NoPage},
                    targets : SUBSET Cpus, acks : Nat]
(* A page in a shootdown is not mapped, and all processors have started. *)
UnmappedMeanwhile ==
    \A c \in Cpus : unmapping[c] # NoPage => Booted /\ unmapping[c] \notin mappedPages
RequestIsOfHolder ==
    request.holder # NoCpu =>
        /\ request.page = unmapping[request.holder] /\ request.page # NoPage
        /\ request.targets = Cpus \ {request.holder}
PendingIsUnflushed ==
    ~timedOut =>
        /\ request.holder = NoCpu => ipi = {}
        /\ request.holder # NoCpu =>
              /\ ipi \subseteq request.targets /\ request.acks = Cardinality(request.targets \ ipi)
              /\ \A c \in Cpus \ ipi : request.page \notin tlb[c]
TlbInv == TlbTypes /\ UnmappedMeanwhile /\ RequestIsOfHolder /\ PendingIsUnflushed /\ NoStaleTranslation

LEMMA CpusFinite == IsFiniteSet(Cpus) /\ Cpus \subseteq Nat /\ NoCpu \notin Cpus
<1>1. IsFiniteSet({Bsp})
  BY FS_Singleton
<1>2. IsFiniteSet(Cpus)
  BY <1>1, FS_Union, SmpAssumption DEF Cpus
<1> QED BY <1>2, SmpAssumption DEF Cpus, Bsp, NoCpu

LEMMA TlbInvInit == SmpInit => TlbInv
<1> SUFFICES ASSUME SmpInit PROVE TlbInv
  OBVIOUS
<1> USE CpusFinite
<1>1. TlbTypes
  BY DEF SmpInit, TlbTypes
<1>2. UnmappedMeanwhile /\ RequestIsOfHolder /\ PendingIsUnflushed /\ NoStaleTranslation
  BY DEF SmpInit, UnmappedMeanwhile, RequestIsOfHolder, PendingIsUnflushed, NoStaleTranslation
<1> QED BY <1>1, <1>2 DEF TlbInv

(* Booting, which is over before the first shootdown, disturbs nothing. *)
LEMMA TlbInvBooting ==
    ASSUME TlbInv, started \subseteq started', started' \subseteq Cpus, UNCHANGED tlbVars
    PROVE  TlbInv'
<1>1. /\ accepting' = accepting /\ mappedPages' = mappedPages /\ tlb' = tlb /\ unmapping' = unmapping
      /\ request' = request /\ ipi' = ipi /\ timedOut' = timedOut /\ (Booted => Booted')
  BY DEF tlbVars, Booted
<1> QED BY <1>1 DEF TlbInv, TlbTypes, UnmappedMeanwhile, RequestIsOfHolder, PendingIsUnflushed, NoStaleTranslation

LEMMA HolderIsUnmapping ==
    ASSUME TlbInv, request.holder # NoCpu
    PROVE  /\ request.holder \in Cpus /\ request.page = unmapping[request.holder] /\ request.page # NoPage
           /\ request.page \notin mappedPages /\ Booted /\ request.targets = Cpus \ {request.holder}
<1>1. request.holder \in Cpus
  BY DEF TlbInv, TlbTypes
<1>2. /\ request.page = unmapping[request.holder] /\ request.page # NoPage
      /\ request.targets = Cpus \ {request.holder}
  BY DEF TlbInv, RequestIsOfHolder
<1> QED BY <1>1, <1>2 DEF TlbInv, UnmappedMeanwhile

LEMMA TlbTouch ==
    ASSUME TlbInv, NEW c \in Cpus, NEW p \in SmpPages, Touch(c, p)
    PROVE  TlbInv'
<1> USE CpusFinite, SmpAssumption
<1>1. /\ accepting' = accepting /\ mappedPages' = mappedPages /\ unmapping' = unmapping /\ started' = started
      /\ request' = request /\ ipi' = ipi /\ timedOut' = timedOut /\ p \in mappedPages
      /\ tlb' = [tlb EXCEPT ![c] = @ \cup {p}]
  BY DEF Touch, bootVars
<1>2. TlbTypes'
  BY <1>1 DEF TlbInv, TlbTypes
<1>3. UnmappedMeanwhile' /\ RequestIsOfHolder'
  BY <1>1 DEF TlbInv, UnmappedMeanwhile, RequestIsOfHolder, Booted
<1>4. \A d \in Cpus : tlb'[d] \subseteq tlb[d] \cup {p}
  BY <1>1 DEF TlbInv, TlbTypes
<1>5. request.holder # NoCpu => request.page # p
  BY <1>1, HolderIsUnmapping
<1>6. PendingIsUnflushed'
  BY <1>1, <1>4, <1>5 DEF TlbInv, PendingIsUnflushed
<1>7. NoStaleTranslation'
  BY <1>1, <1>4 DEF TlbInv, NoStaleTranslation
<1> QED BY <1>2, <1>3, <1>6, <1>7 DEF TlbInv

LEMMA TlbUnmap ==
    ASSUME TlbInv, NEW c \in Cpus, NEW p \in SmpPages, UnmapPage(c, p)
    PROVE  TlbInv'
<1> USE CpusFinite, SmpAssumption
<1>1. /\ accepting' = accepting /\ tlb' = tlb /\ started' = started /\ Booted /\ unmapping[c] = NoPage
      /\ request' = request /\ ipi' = ipi /\ timedOut' = timedOut /\ p \in mappedPages
      /\ mappedPages' = mappedPages \ {p} /\ unmapping' = [unmapping EXCEPT ![c] = p]
  BY DEF UnmapPage, bootVars
<1>2. TlbTypes'
  BY <1>1 DEF TlbInv, TlbTypes
<1>3. unmapping'[c] = p /\ \A d \in Cpus : d # c => unmapping'[d] = unmapping[d]
  BY <1>1 DEF TlbInv, TlbTypes
<1>4. UnmappedMeanwhile'
  BY <1>1, <1>3 DEF TlbInv, UnmappedMeanwhile, Booted
<1>5. request.holder # NoCpu => request.holder # c /\ request.holder \in Cpus
  BY <1>1 DEF TlbInv, TlbTypes, RequestIsOfHolder
<1>6. RequestIsOfHolder' /\ PendingIsUnflushed'
  BY <1>1, <1>3, <1>5 DEF TlbInv, RequestIsOfHolder, PendingIsUnflushed
<1>7. NoStaleTranslation'
  <2> SUFFICES ASSUME ~timedOut', NEW d \in Cpus, NEW q \in tlb'[d] \ mappedPages'
               PROVE  \E e \in Cpus : unmapping'[e] = q
    BY DEF NoStaleTranslation
  <2>1. CASE q = p
    BY <2>1, <1>3
  <2>2. CASE q # p
    <3>1. PICK e \in Cpus : unmapping[e] = q
      BY <2>2, <1>1 DEF TlbInv, NoStaleTranslation
    <3>2. q # NoPage
      BY <1>1 DEF TlbInv, TlbTypes
    <3> QED BY <3>1, <3>2, <1>1, <1>3
  <2> QED BY <2>1, <2>2
<1> QED BY <1>2, <1>4, <1>6, <1>7 DEF TlbInv

LEMMA TlbMap ==
    ASSUME TlbInv, NEW p \in SmpPages, MapPage(p)
    PROVE  TlbInv'
<1>1. /\ accepting' = accepting /\ tlb' = tlb /\ started' = started /\ unmapping' = unmapping
      /\ request' = request /\ ipi' = ipi /\ timedOut' = timedOut
      /\ mappedPages' = mappedPages \cup {p} /\ \A c \in Cpus : unmapping[c] # p
  BY DEF MapPage, bootVars
<1>2. TlbTypes'
  BY <1>1 DEF TlbInv, TlbTypes
<1>3. UnmappedMeanwhile' /\ RequestIsOfHolder' /\ PendingIsUnflushed' /\ NoStaleTranslation'
  BY <1>1 DEF TlbInv, UnmappedMeanwhile, RequestIsOfHolder, PendingIsUnflushed, NoStaleTranslation, Booted
<1> QED BY <1>2, <1>3 DEF TlbInv

LEMMA TlbBegin ==
    ASSUME TlbInv, BootInv, NEW c \in Cpus, BeginShootdown(c)
    PROVE  TlbInv'
<1> USE CpusFinite, SmpAssumption
<1>1. PICK p : p = unmapping[c]
  OBVIOUS
<1>2. PICK rest : rest = Cpus \ {c}
  OBVIOUS
<1>3. p # NoPage /\ Booted /\ started = Cpus /\ p \notin mappedPages /\ p \in SmpPages /\ Targets(c) = rest
  BY <1>1, <1>2 DEF BeginShootdown, TlbInv, TlbTypes, UnmappedMeanwhile, Booted, Targets
<1>4. /\ accepting' = accepting /\ mappedPages' = mappedPages /\ started' = started /\ timedOut' = timedOut
      /\ tlb' = [tlb EXCEPT ![c] = @ \ {p}] /\ request.holder = NoCpu
  BY <1>1 DEF BeginShootdown, bootVars
<1>5. /\ p \notin tlb'[c] /\ \A d \in Cpus : tlb'[d] \subseteq tlb[d]
      /\ tlb' \in [Cpus -> SUBSET SmpPages]
  BY <1>4 DEF TlbInv, TlbTypes
<1>6. CASE rest = {}
  <2>1. unmapping' = [unmapping EXCEPT ![c] = NoPage] /\ request' = request /\ ipi' = ipi
    BY <1>6, <1>3 DEF BeginShootdown
  <2>2. \A d \in Cpus : d = c
    BY <1>2, <1>6
  <2>3. TlbTypes' /\ RequestIsOfHolder'
    BY <2>1, <1>4, <1>5 DEF TlbInv, TlbTypes, RequestIsOfHolder
  <2>4. unmapping'[c] = NoPage
    BY <2>1 DEF TlbInv, TlbTypes
  <2>5. UnmappedMeanwhile' /\ PendingIsUnflushed'
    BY <2>1, <2>2, <2>4, <1>4 DEF TlbInv, UnmappedMeanwhile, PendingIsUnflushed
  <2>6. NoStaleTranslation'
    BY <2>2, <1>1, <1>4, <1>5 DEF TlbInv, NoStaleTranslation
  <2> QED BY <2>3, <2>5, <2>6 DEF TlbInv
<1>7. CASE rest # {}
  <2>1. /\ request' = [holder |-> c, page |-> p, targets |-> rest, acks |-> 0] /\ ipi' = ipi \cup rest
        /\ unmapping' = unmapping
    BY <1>7, <1>3, <1>1 DEF BeginShootdown
  <2>2. TlbTypes'
    BY <2>1, <1>2, <1>3, <1>4, <1>5 DEF TlbInv, TlbTypes
  <2>3. UnmappedMeanwhile' /\ RequestIsOfHolder'
    BY <2>1, <1>1, <1>2, <1>3, <1>4 DEF TlbInv, UnmappedMeanwhile, RequestIsOfHolder, Booted
  <2>4. NoStaleTranslation'
    BY <2>1, <1>4, <1>5 DEF TlbInv, NoStaleTranslation
  <2>5. PendingIsUnflushed'
    <3> SUFFICES ASSUME ~timedOut' PROVE /\ ipi' = rest /\ request'.holder = c /\ request'.targets = rest
                                         /\ request'.acks = 0 /\ Cardinality(rest \ rest) = 0
                                         /\ \A d \in Cpus \ rest : p \notin tlb'[d] /\ request'.page = p
      BY DEF PendingIsUnflushed
    <3>1. ipi = {}
      BY <1>4 DEF TlbInv, PendingIsUnflushed
    <3>2. rest \ rest = {} /\ Cardinality({}) = 0
      BY FS_EmptySet
    <3> QED BY <3>1, <3>2, <2>1, <1>2, <1>5
  <2> QED BY <2>2, <2>3, <2>4, <2>5 DEF TlbInv
<1> QED BY <1>6, <1>7

LEMMA TlbHandle ==
    ASSUME TlbInv, NEW c \in Cpus, HandleShootdown(c)
    PROVE  TlbInv'
<1> USE CpusFinite, SmpAssumption
<1>1. /\ accepting' = accepting /\ mappedPages' = mappedPages /\ started' = started /\ timedOut' = timedOut
      /\ unmapping' = unmapping /\ c \in ipi /\ ipi' = ipi \ {c}
      /\ request' = [request EXCEPT !.acks = @ + 1] /\ tlb' = [tlb EXCEPT ![c] = @ \ {request.page}]
  BY DEF HandleShootdown, bootVars
<1>2. /\ request.page \notin tlb'[c] /\ \A d \in Cpus : tlb'[d] \subseteq tlb[d]
      /\ tlb' \in [Cpus -> SUBSET SmpPages]
  BY <1>1 DEF TlbInv, TlbTypes
<1>3. /\ request' \in [holder : Cpus \cup {NoCpu}, page : SmpPages \cup {NoPage}, targets : SUBSET Cpus, acks : Nat]
      /\ request'.holder = request.holder /\ request'.page = request.page
      /\ request'.targets = request.targets /\ request'.acks = request.acks + 1
  BY <1>1 DEF TlbInv, TlbTypes
<1>4. TlbTypes' /\ UnmappedMeanwhile' /\ RequestIsOfHolder'
  BY <1>1, <1>2, <1>3 DEF TlbInv, TlbTypes, UnmappedMeanwhile, RequestIsOfHolder, Booted
<1>5. NoStaleTranslation'
  BY <1>1, <1>2 DEF TlbInv, NoStaleTranslation
<1>6. PendingIsUnflushed'
  <2> SUFFICES ASSUME ~timedOut PROVE PendingIsUnflushed'
    BY <1>1 DEF PendingIsUnflushed
  <2>1. /\ request.holder # NoCpu /\ ipi \subseteq request.targets
        /\ request.acks = Cardinality(request.targets \ ipi)
        /\ \A d \in Cpus \ ipi : request.page \notin tlb[d]
    BY <1>1 DEF TlbInv, PendingIsUnflushed
  <2>2. PICK done : done = request.targets \ ipi
    OBVIOUS
  <2>3. IsFiniteSet(done) /\ c \notin done /\ request.targets \ ipi' = done \cup {c}
    <3>1. done \subseteq Cpus
      BY <2>2 DEF TlbInv, TlbTypes
    <3>2. IsFiniteSet(done)
      BY <3>1, FS_Subset
    <3> QED BY <3>2, <2>1, <2>2, <1>1
  <2>4. Cardinality(done \cup {c}) = Cardinality(done) + 1
    BY <2>3, FS_AddElement
  <2>5. request'.acks = Cardinality(request'.targets \ ipi')
    BY <2>1, <2>2, <2>3, <2>4, <1>3
  <2>6. \A d \in Cpus \ ipi' : request'.page \notin tlb'[d]
    BY <2>1, <1>1, <1>2, <1>3
  <2> QED BY <2>1, <2>5, <2>6, <1>1, <1>3 DEF PendingIsUnflushed
<1> QED BY <1>4, <1>5, <1>6 DEF TlbInv

LEMMA TlbEnd ==
    ASSUME TlbInv, NEW c \in Cpus, EndShootdown(c)
    PROVE  TlbInv'
<1> USE CpusFinite, SmpAssumption
<1>1. /\ accepting' = accepting /\ mappedPages' = mappedPages /\ started' = started /\ tlb' = tlb
      /\ ipi' = ipi /\ request.holder = c /\ request' = [request EXCEPT !.holder = NoCpu]
      /\ unmapping' = [unmapping EXCEPT ![c] = NoPage]
      /\ timedOut' = (timedOut \/ request.acks < Cardinality(request.targets))
  BY DEF EndShootdown, bootVars
<1>2. /\ request' \in [holder : Cpus \cup {NoCpu}, page : SmpPages \cup {NoPage}, targets : SUBSET Cpus, acks : Nat]
      /\ request'.holder = NoCpu
  BY <1>1 DEF TlbInv, TlbTypes
<1>3. unmapping'[c] = NoPage /\ \A d \in Cpus : d # c => unmapping'[d] = unmapping[d]
  BY <1>1 DEF TlbInv, TlbTypes
<1>4. unmapping' \in [Cpus -> SmpPages \cup {NoPage}] /\ timedOut' \in BOOLEAN
  BY <1>1 DEF TlbInv, TlbTypes
<1>5. TlbTypes' /\ UnmappedMeanwhile' /\ RequestIsOfHolder'
  BY <1>1, <1>2, <1>3, <1>4 DEF TlbInv, TlbTypes, UnmappedMeanwhile, RequestIsOfHolder, Booted
<1>6. ~timedOut' => ipi = {} /\ \A d \in Cpus : unmapping[c] \notin tlb[d]
  <2> SUFFICES ASSUME ~timedOut' PROVE ipi = {} /\ \A d \in Cpus : unmapping[c] \notin tlb[d]
    OBVIOUS
  <2>1. ~timedOut /\ request.holder # NoCpu
    BY <1>1
  <2>2. /\ ipi \subseteq request.targets /\ request.acks = Cardinality(request.targets \ ipi)
        /\ \A d \in Cpus \ ipi : request.page \notin tlb[d]
    BY <2>1 DEF TlbInv, PendingIsUnflushed
  <2>3. IsFiniteSet(request.targets) /\ request.page = unmapping[c]
    <3>1. request.targets \subseteq Cpus
      BY DEF TlbInv, TlbTypes
    <3> QED BY <3>1, <2>1, <1>1, FS_Subset, HolderIsUnmapping
  <2>4. Cardinality(request.targets) \in Nat /\ Cardinality(request.targets \ ipi) \in Nat
        /\ Cardinality(request.targets \ ipi) <= Cardinality(request.targets)
        /\ (Cardinality(request.targets \ ipi) = Cardinality(request.targets)
                => request.targets \ ipi = request.targets)
    <3>1. request.targets \ ipi \subseteq request.targets
      OBVIOUS
    <3>2. IsFiniteSet(request.targets \ ipi)
      BY <3>1, <2>3, FS_Subset
    <3> QED BY <3>1, <3>2, <2>3, FS_Subset, FS_CardinalityType
  <2>5. ~(request.acks < Cardinality(request.targets))
    BY <1>1
  <2>6. ipi = {}
    BY <2>2, <2>4, <2>5
  <2> QED BY <2>2, <2>3, <2>6
<1>7. PendingIsUnflushed'
  BY <1>1, <1>2, <1>6 DEF PendingIsUnflushed
<1>8. NoStaleTranslation'
  <2> SUFFICES ASSUME ~timedOut', NEW d \in Cpus, NEW q \in tlb'[d] \ mappedPages'
               PROVE  \E e \in Cpus : unmapping'[e] = q
    BY DEF NoStaleTranslation
  <2>1. PICK e \in Cpus : unmapping[e] = q
    BY <1>1 DEF TlbInv, NoStaleTranslation
  <2>2. e # c
    BY <2>1, <1>1, <1>6
  <2> QED BY <2>1, <2>2, <1>3
<1> QED BY <1>5, <1>7, <1>8 DEF TlbInv

LEMMA TlbInvNext ==
    ASSUME TlbInv, BootInv, TlbNext
    PROVE  TlbInv' /\ UNCHANGED <<bootVars, queueVars>>
<1>1. CASE \E c \in Cpus : \E p \in SmpPages : Touch(c, p) \/ UnmapPage(c, p)
  <2>1. PICK c \in Cpus, p \in SmpPages : Touch(c, p) \/ UnmapPage(c, p)
    BY <1>1
  <2>2. TlbInv'
    BY <2>1, TlbTouch, TlbUnmap
  <2> QED BY <2>1, <2>2 DEF Touch, UnmapPage
<1>2. CASE \E p \in SmpPages : MapPage(p)
  <2>1. PICK p \in SmpPages : MapPage(p)
    BY <1>2
  <2>2. TlbInv'
    BY <2>1, TlbMap
  <2> QED BY <2>1, <2>2 DEF MapPage
<1>3. CASE \E c \in Cpus : BeginShootdown(c) \/ HandleShootdown(c) \/ ShootdownAcked(c) \/ ShootdownTimeout(c)
  <2>1. PICK c \in Cpus : BeginShootdown(c) \/ HandleShootdown(c) \/ ShootdownAcked(c) \/ ShootdownTimeout(c)
    BY <1>3
  <2>2. BeginShootdown(c) \/ HandleShootdown(c) \/ EndShootdown(c)
    BY <2>1 DEF ShootdownAcked, ShootdownTimeout
  <2>3. TlbInv'
    BY <2>2, TlbBegin, TlbHandle, TlbEnd
  <2>4. UNCHANGED <<bootVars, queueVars>>
    BY <2>2 DEF BeginShootdown, HandleShootdown, EndShootdown
  <2> QED BY <2>3, <2>4
<1> QED BY <1>1, <1>2, <1>3 DEF TlbNext

-----------------------------------------------------------------------------
(* Run queues.  A cell is a place where a task can be: the queue of a        *)
(* processor, its hands while it steals, the processor itself.  Each step    *)
(* moves one task into one cell and leaves it in no other.                   *)
Task == [victim : Cpus, task : SmpTasks]
InHand(s) == IF s = NoTask THEN {} ELSE {s.task}
Places == {"queue", "stolen", "running"} \X Cpus
Cells == [k \in Places |-> IF k[1] = "queue" THEN ToSet(runQueue[k[2]])
                          ELSE IF k[1] = "stolen" THEN InHand(stolen[k[2]]) ELSE InHand(running[k[2]])]
QueueTypes ==
    /\ runQueue \in [Cpus -> Seq(SmpTasks)] /\ history \in Seq(SmpTasks)
    /\ running \in [Cpus -> {NoTask} \cup Task] /\ stolen \in [Cpus -> {NoTask} \cup Task]
    /\ \A c \in Cpus : IsInjective(runQueue[c])
    /\ ran \subseteq ToSet(history)
CellsDisjoint ==
    /\ \A j, k \in Places : j # k => Cells[j] \cap Cells[k] = {}
    /\ \A k \in Places : Cells[k] \subseteq ToSet(history)
(* A thief that still looks has nothing in its hands, one at its own lock    *)
(* has.                                                                      *)
HandsAreFree ==
    /\ looking \in [Cpus -> Int] /\ queueLock \in [Cpus -> Cpus \cup {NoCpu}]
    /\ \A c \in Cpus : looking[c] # NotLooking => stolen[c] = NoTask
    /\ \A c \in Cpus : queueLock[c] = c => stolen[c] # NoTask
QueueInv == QueueTypes /\ CellsDisjoint /\ TasksGetTheirTurn /\ HandsAreFree

(* A task that is moved to one cell, and is in no other then, leaves the     *)
(* cells disjoint.                                                           *)
LEMMA Moved ==
    ASSUME NEW K, NEW old, NEW new, NEW k \in K, NEW t,
           \A i, j \in K : i # j => old[i] \cap old[j] = {},
           \A i \in K : i # k => new[i] \subseteq old[i] \ {t},
           new[k] \subseteq old[k] \cup {t}
    PROVE  \A i, j \in K : i # j => new[i] \cap new[j] = {}
OBVIOUS

LEMMA CellOf ==
    ASSUME NEW c \in Cpus
    PROVE  /\ <<"queue", c>> \in Places /\ Cells[<<"queue", c>>] = ToSet(runQueue[c])
           /\ <<"stolen", c>> \in Places /\ Cells[<<"stolen", c>>] = InHand(stolen[c])
           /\ <<"running", c>> \in Places /\ Cells[<<"running", c>>] = InHand(running[c])
BY DEF Places, Cells

LEMMA CellAfter ==
    ASSUME NEW c \in Cpus
    PROVE  /\ Cells'[<<"queue", c>>] = ToSet(runQueue'[c])
           /\ Cells'[<<"stolen", c>>] = InHand(stolen'[c])
           /\ Cells'[<<"running", c>>] = InHand(running'[c])
BY DEF Places, Cells, InHand

LEMMA CellIs ==
    ASSUME NEW k \in Places
    PROVE  \E c \in Cpus : k = <<"queue", c>> \/ k = <<"stolen", c>> \/ k = <<"running", c>>
BY DEF Places

LEMMA QueueInvInit == SmpInit => QueueInv
<1> SUFFICES ASSUME SmpInit PROVE QueueInv
  OBVIOUS
<1>1. ToSet(<<>>) = {} /\ IsInjective(<<>>)
  BY DEF ToSet, IsInjective
<1>2. QueueTypes
  BY <1>1 DEF SmpInit, QueueTypes
<1>3. \A k \in Places : Cells[k] = {}
  <2> SUFFICES ASSUME NEW k \in Places PROVE Cells[k] = {}
    OBVIOUS
  <2>1. PICK c \in Cpus : k = <<"queue", c>> \/ k = <<"stolen", c>> \/ k = <<"running", c>>
    BY CellIs
  <2>2. runQueue[c] = <<>> /\ stolen[c] = NoTask /\ running[c] = NoTask
    BY DEF SmpInit
  <2> QED BY <2>1, <2>2, <1>1, CellOf DEF InHand
<1>4. TasksGetTheirTurn
  BY <1>1 DEF SmpInit, TasksGetTheirTurn, Waits
<1>5. HandsAreFree
  BY CpusFinite DEF SmpInit, HandsAreFree, NotLooking, NoCpu
<1> QED BY <1>2, <1>3, <1>4, <1>5 DEF QueueInv, CellsDisjoint

(* NoTask is no task. *)
LEMMA TaskInHand ==
    ASSUME NEW s \in Task
    PROVE  s # NoTask /\ InHand(s) = {s.task} /\ s.task \in SmpTasks /\ s.victim \in Cpus
<1>1. s.victim \in Cpus /\ s.task \in SmpTasks
  BY DEF Task
<1>2. NoTask.victim = NoCpu
  BY DEF NoTask
<1>3. s # NoTask
  BY <1>1, <1>2, CpusFinite
<1> QED BY <1>1, <1>3 DEF InHand

(* Enough to know that the others keep their content. *)
LEMMA QueueStep ==
    ASSUME QueueInv, QueueTypes', TasksGetTheirTurn', HandsAreFree', NEW k \in Places, NEW t \in ToSet(history)',
           ToSet(history) \subseteq ToSet(history)',
           \A i \in Places : i # k => Cells'[i] \subseteq Cells[i] \ {t},
           Cells'[k] \subseteq Cells[k] \cup {t}
    PROVE  QueueInv'
<1>1. PICK old : old = Cells
  OBVIOUS
<1>2. PICK new : new = Cells'
  OBVIOUS
<1>3. \A i, j \in Places : i # j => new[i] \cap new[j] = {}
  <2>1. \A i, j \in Places : i # j => old[i] \cap old[j] = {}
    BY <1>1 DEF QueueInv, CellsDisjoint
  <2>2. \A i \in Places : i # k => new[i] \subseteq old[i] \ {t}
    BY <1>1, <1>2
  <2>3. new[k] \subseteq old[k] \cup {t}
    BY <1>1, <1>2
  <2> QED BY <2>1, <2>2, <2>3, Moved
<1>4. \A i \in Places : Cells'[i] \subseteq ToSet(history)'
  BY DEF QueueInv, CellsDisjoint
<1>5. Places' = Places
  BY DEF Places, Cpus
<1> QED BY <1>2, <1>3, <1>4, <1>5 DEF QueueInv, CellsDisjoint

LEMMA QueueEnqueue ==
    ASSUME QueueInv, started \subseteq Cpus, NEW t \in SmpTasks, EnqueueRoundRobin(t)
    PROVE  QueueInv'
<1>1. PICK target \in started :
                    /\ runQueue' = [runQueue EXCEPT ![target] = Append(@, t)]
                    /\ t \notin ToSet(history) /\ history' = Append(history, t)
                    /\ running' = running /\ stolen' = stolen /\ ran' = ran /\ UNCHANGED <<looking, queueLock>>
  BY DEF EnqueueRoundRobin
<1>2. history' \in Seq(SmpTasks) /\ ToSet(history') = ToSet(history) \cup {t}
  BY <1>1, Appended DEF QueueInv, QueueTypes
<1>3. \A k \in Places : t \notin Cells[k]
  BY <1>1 DEF QueueInv, CellsDisjoint
<1>4. target \in Cpus
  BY <1>1
<1>5. PICK q : q = runQueue[target]
  OBVIOUS
<1>6. q \in Seq(SmpTasks) /\ IsInjective(q) /\ t \notin ToSet(q)
  <2>1. t \notin ToSet(runQueue[target])
    BY <1>3, <1>4, CellOf
  <2> QED BY <1>5, <1>4, <2>1 DEF QueueInv, QueueTypes
<1>7. Append(q, t) \in Seq(SmpTasks) /\ ToSet(Append(q, t)) = ToSet(q) \cup {t} /\ IsInjective(Append(q, t))
  BY <1>6, Appended
<1>8. runQueue'[target] = Append(q, t) /\ \A c \in Cpus : c # target => runQueue'[c] = runQueue[c]
  BY <1>5, <1>1, <1>4 DEF QueueInv, QueueTypes
<1>9. runQueue' \in [Cpus -> Seq(SmpTasks)]
  BY <1>5, <1>7, <1>1 DEF QueueInv, QueueTypes
<1>10. QueueTypes'
  <2>1. (ran \subseteq ToSet(history))'
    BY <1>1, <1>2 DEF QueueInv, QueueTypes
  <2> QED BY <2>1, <1>7, <1>8, <1>9, <1>1, <1>2 DEF QueueInv, QueueTypes
<1>11. \A i \in Places : i # <<"queue", target>> => Cells'[i] \subseteq Cells[i] \ {t}
  <2> SUFFICES ASSUME NEW i \in Places, i # <<"queue", target>> PROVE Cells'[i] = Cells[i]
    BY <1>3
  <2>1. PICK c \in Cpus : i = <<"queue", c>> \/ i = <<"stolen", c>> \/ i = <<"running", c>>
    BY CellIs
  <2> QED BY <2>1, <1>8, <1>1, CellOf, CellAfter
<1>12. Cells'[<<"queue", target>>] \subseteq Cells[<<"queue", target>>] \cup {t}
  BY <1>5, <1>7, <1>8, <1>4, CellOf, CellAfter
<1>13. <<"queue", target>> \in Places
  BY <1>4, CellOf
<1>14. TasksGetTheirTurn'
  <2>1. \A u \in SmpTasks : u # t => (Waits(u)' <=> Waits(u))
    BY <1>1, <1>5, <1>7, <1>8 DEF Waits
  <2>2. Waits(t)'
    BY <1>4, <1>5, <1>7, <1>8 DEF Waits
  <2>3. t \notin ran
    BY <1>1 DEF QueueInv, QueueTypes
  <2> QED BY <2>1, <2>2, <2>3, <1>1, <1>2 DEF QueueInv, TasksGetTheirTurn
<1>15. HandsAreFree'
  BY <1>1 DEF QueueInv, HandsAreFree
<1> QED BY <1>10, <1>11, <1>12, <1>13, <1>14, <1>15, <1>2, QueueStep

LEMMA QueuePick ==
    ASSUME QueueInv, NEW c \in Cpus, PickLocal(c)
    PROVE  QueueInv'
<1>1. PICK q : q = runQueue[c]
  OBVIOUS
<1>2. PICK t : t = Head(q)
  OBVIOUS
<1>3. /\ q # <<>> /\ running' = [running EXCEPT ![c] = [victim |-> c, task |-> t]]
      /\ runQueue' = [runQueue EXCEPT ![c] = Tail(q)] /\ stolen' = stolen /\ history' = history
      /\ ran' = ran \cup {t} /\ UNCHANGED <<looking, queueLock>>
  BY <1>1, <1>2 DEF PickLocal
<1>4. q \in Seq(SmpTasks) /\ IsInjective(q)
  BY <1>1 DEF QueueInv, QueueTypes
<1>5. /\ t \in ToSet(q) /\ t \in SmpTasks /\ Tail(q) \in Seq(SmpTasks)
      /\ IsInjective(Tail(q)) /\ ToSet(Tail(q)) = ToSet(q) \ {t}
  BY <1>2, <1>3, <1>4, HeadTaken
<1>6. PICK e : e = [victim |-> c, task |-> t]
  OBVIOUS
<1>7. e \in Task /\ InHand(e) = {t}
  <2>1. e \in Task
    BY <1>5, <1>6 DEF Task
  <2> QED BY <2>1, <1>6, TaskInHand
<1>8. /\ runQueue'[c] = Tail(q) /\ running'[c] = e
      /\ \A d \in Cpus : d # c => runQueue'[d] = runQueue[d] /\ running'[d] = running[d]
  BY <1>3, <1>6 DEF QueueInv, QueueTypes
<1>10. Cells[<<"queue", c>>] = ToSet(q) /\ t \in ToSet(history)
       /\ \A i \in Places : i # <<"queue", c>> => t \notin Cells[i]
  <2>1. Cells[<<"queue", c>>] = ToSet(q) /\ <<"queue", c>> \in Places
    BY <1>1, CellOf
  <2> QED BY <2>1, <1>5 DEF QueueInv, CellsDisjoint
<1>9. QueueTypes'
  <2>1. runQueue' \in [Cpus -> Seq(SmpTasks)]
    BY <1>3, <1>5 DEF QueueInv, QueueTypes
  <2>2. running' \in [Cpus -> {NoTask} \cup Task]
    BY <1>3, <1>6, <1>7 DEF QueueInv, QueueTypes
  <2>3. (ran \subseteq ToSet(history))'
    BY <1>3, <1>10 DEF QueueInv, QueueTypes
  <2> QED BY <2>1, <2>2, <2>3, <1>3, <1>5, <1>8 DEF QueueInv, QueueTypes
<1>11. \A i \in Places : i # <<"running", c>> => Cells'[i] \subseteq Cells[i] \ {t}
  <2> SUFFICES ASSUME NEW i \in Places, i # <<"running", c>> PROVE Cells'[i] \subseteq Cells[i] \ {t}
    OBVIOUS
  <2>1. PICK d \in Cpus : i = <<"queue", d>> \/ i = <<"stolen", d>> \/ i = <<"running", d>>
    BY CellIs
  <2>2. CASE i = <<"queue", c>>
    BY <2>2, <1>5, <1>8, <1>10, CellAfter
  <2>3. CASE i # <<"queue", c>>
    <3>1. CASE d = c
      <4>1. i = <<"stolen", c>>
        BY <3>1, <2>1, <2>3
      <4> QED BY <4>1, <2>3, <1>3, <1>10, CellOf, CellAfter
    <3>2. CASE d # c
      <4>1. runQueue'[d] = runQueue[d] /\ running'[d] = running[d] /\ stolen'[d] = stolen[d]
        BY <3>2, <1>3, <1>8
      <4>2. Cells'[i] = Cells[i]
        BY <4>1, <2>1, CellOf, CellAfter
      <4> QED BY <4>2, <2>3, <1>10
    <3> QED BY <3>1, <3>2
  <2> QED BY <2>2, <2>3
<1>12. Cells'[<<"running", c>>] \subseteq Cells[<<"running", c>>] \cup {t} /\ <<"running", c>> \in Places
  BY <1>7, <1>8, CellOf, CellAfter
<1>13. TasksGetTheirTurn'
  <2>1. \A d \in Cpus : /\ t \notin ToSet(runQueue'[d])
                        /\ \A u : u # t => (u \in ToSet(runQueue'[d]) <=> u \in ToSet(runQueue[d]))
    <3> SUFFICES ASSUME NEW d \in Cpus
                 PROVE  /\ t \notin ToSet(runQueue'[d])
                        /\ \A u : u # t => (u \in ToSet(runQueue'[d]) <=> u \in ToSet(runQueue[d]))
      OBVIOUS
    <3>1. CASE d = c
      BY <3>1, <1>1, <1>5, <1>8
    <3>2. CASE d # c
      <4>1. t \notin ToSet(runQueue[d])
        BY <3>2, <1>10, CellOf
      <4> QED BY <3>2, <4>1, <1>8
    <3> QED BY <3>1, <3>2
  <2>2. \A d \in Cpus : ~(stolen[d] # NoTask /\ stolen[d].task = t)
    BY <1>10, CellOf DEF InHand
  <2>3. ~Waits(t)' /\ \A u \in SmpTasks : u # t => (Waits(u)' <=> Waits(u))
    BY <2>1, <2>2, <1>3 DEF Waits
  <2> QED BY <2>3, <1>3 DEF QueueInv, TasksGetTheirTurn
<1>14. HandsAreFree'
  BY <1>3 DEF QueueInv, HandsAreFree
<1> QED BY <1>3, <1>9, <1>10, <1>11, <1>12, <1>13, <1>14, QueueStep

(* Without work the processor is left with nothing. *)
LEMMA QueuePickNone ==
    ASSUME QueueInv, NEW c \in Cpus, PickNone(c)
    PROVE  QueueInv'
<1>1. /\ running' = [running EXCEPT ![c] = NoTask] /\ UNCHANGED <<runQueue, stolen, history, ran, queueLock>>
      /\ looking' = [looking EXCEPT ![c] = NoCpu] /\ stolen[c] = NoTask
  BY DEF PickNone, Picks
<1>2. running'[c] = NoTask /\ \A d \in Cpus : d # c => running'[d] = running[d]
  BY <1>1 DEF QueueInv, QueueTypes
<1>3. \A i \in Places : Cells'[i] \subseteq Cells[i]
  <2> SUFFICES ASSUME NEW i \in Places PROVE Cells'[i] \subseteq Cells[i]
    OBVIOUS
  <2>1. PICK d \in Cpus : i = <<"queue", d>> \/ i = <<"stolen", d>> \/ i = <<"running", d>>
    BY CellIs
  <2>2. CASE i = <<"running", c>>
    BY <2>2, <1>2, CellAfter DEF InHand
  <2>3. CASE i = <<"running", d>> /\ d # c
    BY <2>3, <1>2, CellOf, CellAfter
  <2>4. CASE i = <<"queue", d>>
    BY <2>4, <1>1, CellOf, CellAfter
  <2>5. CASE i = <<"stolen", d>>
    BY <2>5, <1>1, CellOf, CellAfter
  <2> QED BY <2>1, <2>2, <2>3, <2>4, <2>5
<1>4. QueueTypes' /\ TasksGetTheirTurn'
  BY <1>1 DEF QueueInv, QueueTypes, TasksGetTheirTurn, Waits
<1>5. Places' = Places
  BY DEF Places, Cpus
<1>6. \A j, k \in Places : j # k => Cells'[j] \cap Cells'[k] = {}
  BY <1>3 DEF QueueInv, CellsDisjoint
<1>7. \A k \in Places : Cells'[k] \subseteq ToSet(history)
  BY <1>3 DEF QueueInv, CellsDisjoint
<1>8. HandsAreFree'
  BY <1>1 DEF QueueInv, HandsAreFree, NoCpu
<1> QED BY <1>1, <1>4, <1>5, <1>6, <1>7, <1>8 DEF QueueInv, CellsDisjoint

LEMMA QueueSteal ==
    ASSUME QueueInv, started \subseteq Cpus, NEW c \in Cpus, NEW v \in Cpus, StealTask(c, v)
    PROVE  QueueInv'
<1>3. PICK q : q = runQueue[v]
  OBVIOUS
<1>4. PICK t : t = Last(q)
  OBVIOUS
<1>6. v \in Cpus /\ v # c /\ Len(q) > 1
  BY <1>3 DEF StealTask, NextPeer, Peers, Stealable
<1>7. /\ stolen' = [stolen EXCEPT ![c] = [victim |-> v, task |-> t]]
      /\ runQueue' = [runQueue EXCEPT ![v] = SubSeq(q, 1, Len(q) - 1)]
      /\ running' = running /\ history' = history /\ ran' = ran
      /\ looking' = [looking EXCEPT ![c] = NotLooking] /\ queueLock' = queueLock /\ stolen[c] = NoTask
  BY <1>3, <1>4 DEF StealTask, NextPeer, LeftByThief, QueueInv, HandsAreFree
<1>8. q \in Seq(SmpTasks) /\ IsInjective(q) /\ q # <<>>
  <2>1. q \in Seq(SmpTasks) /\ IsInjective(q)
    BY <1>3, <1>6 DEF QueueInv, QueueTypes
  <2> QED BY <2>1, <1>6
<1>9. PICK r : r = SubSeq(q, 1, Len(q) - 1)
  OBVIOUS
<1>10. t \in ToSet(q) /\ t \in SmpTasks /\ r \in Seq(SmpTasks)
  BY <1>4, <1>8, <1>9, LastTaken
<1>11. IsInjective(r) /\ t \notin ToSet(r) /\ ToSet(r) \subseteq ToSet(q) /\ ToSet(q) \subseteq ToSet(r) \cup {t}
  BY <1>4, <1>8, <1>9, LastTaken
<1>12. PICK e : e = [victim |-> v, task |-> t]
  OBVIOUS
<1>13. e \in Task /\ InHand(e) = {t}
  <2>1. e \in Task
    BY <1>6, <1>10, <1>12 DEF Task
  <2> QED BY <2>1, <1>12, TaskInHand
<1>14. /\ runQueue'[v] = r /\ stolen'[c] = e
       /\ \A d \in Cpus : d # v => runQueue'[d] = runQueue[d]
       /\ \A d \in Cpus : d # c => stolen'[d] = stolen[d]
  BY <1>6, <1>7, <1>9, <1>12 DEF QueueInv, QueueTypes
<1>15. QueueTypes'
  <2>1. runQueue' \in [Cpus -> Seq(SmpTasks)]
    BY <1>7, <1>9, <1>10 DEF QueueInv, QueueTypes
  <2>2. stolen' \in [Cpus -> {NoTask} \cup Task] /\ running' \in [Cpus -> {NoTask} \cup Task]
    BY <1>7, <1>12, <1>13 DEF QueueInv, QueueTypes
  <2> QED BY <2>1, <2>2, <1>7, <1>11, <1>14 DEF QueueInv, QueueTypes
<1>16. Cells[<<"queue", v>>] = ToSet(q) /\ t \in ToSet(history)
       /\ \A i \in Places : i # <<"queue", v>> => t \notin Cells[i]
  <2>1. Cells[<<"queue", v>>] = ToSet(q) /\ <<"queue", v>> \in Places
    BY <1>3, <1>6, CellOf
  <2> QED BY <2>1, <1>10 DEF QueueInv, CellsDisjoint
<1>17. \A i \in Places : i # <<"stolen", c>> => Cells'[i] \subseteq Cells[i] \ {t}
  <2> SUFFICES ASSUME NEW i \in Places, i # <<"stolen", c>> PROVE Cells'[i] \subseteq Cells[i] \ {t}
    OBVIOUS
  <2>1. PICK d \in Cpus : i = <<"queue", d>> \/ i = <<"stolen", d>> \/ i = <<"running", d>>
    BY CellIs
  <2>2. CASE i = <<"queue", v>>
    BY <2>2, <1>6, <1>11, <1>14, <1>16, CellAfter
  <2>4. CASE i # <<"queue", v>>
    <3>1. CASE i = <<"queue", d>>
      <4>1. d # v
        BY <3>1, <2>4
      <4>2. runQueue'[d] = runQueue[d]
        BY <4>1, <1>14
      <4>3. Cells'[i] = Cells[i]
        BY <3>1, <4>2, CellOf, CellAfter
      <4> QED BY <4>3, <2>4, <1>16
    <3>2. CASE i = <<"stolen", d>>
      <4>1. d # c
        BY <3>2, <2>4
      <4>2. stolen'[d] = stolen[d]
        BY <4>1, <1>14
      <4>3. Cells'[i] = Cells[i]
        BY <3>2, <4>2, CellOf, CellAfter
      <4> QED BY <4>3, <2>4, <1>16
    <3>3. CASE i = <<"running", d>>
      <4>1. Cells'[i] = Cells[i]
        BY <3>3, <1>7, CellOf, CellAfter
      <4> QED BY <4>1, <2>4, <1>16
    <3> QED BY <2>1, <3>1, <3>2, <3>3
  <2> QED BY <2>2, <2>4
<1>18. Cells'[<<"stolen", c>>] \subseteq Cells[<<"stolen", c>>] \cup {t} /\ <<"stolen", c>> \in Places
  BY <1>13, <1>14, CellOf, CellAfter
<1>19. TasksGetTheirTurn'
  <2>1. \A d \in Cpus : \A u : u # t => (u \in ToSet(runQueue'[d]) <=> u \in ToSet(runQueue[d]))
    BY <1>3, <1>11, <1>14
  <2>2. stolen'[c] # NoTask /\ stolen'[c].task = t
    BY <1>12, <1>13, <1>14, TaskInHand
  <2>3. \A u \in SmpTasks : u # t => (Waits(u)' <=> Waits(u))
    <3> SUFFICES ASSUME NEW u \in SmpTasks, u # t PROVE Waits(u)' <=> Waits(u)
      OBVIOUS
    <3>1. \A d \in Cpus : (stolen'[d] # NoTask /\ stolen'[d].task = u) <=> (stolen[d] # NoTask /\ stolen[d].task = u)
      BY <2>2, <1>7, <1>14
    <3> QED BY <2>1, <3>1 DEF Waits
  <2>4. Waits(t) /\ Waits(t)'
    BY <2>2, <1>3, <1>6, <1>10 DEF Waits
  <2> QED BY <2>3, <2>4, <1>7 DEF QueueInv, TasksGetTheirTurn
<1>20. HandsAreFree'
  <2>1. e # NoTask
    BY <1>13, TaskInHand
  <2> QED BY <2>1, <1>7, <1>12 DEF QueueInv, QueueTypes, HandsAreFree, NotLooking
<1> QED BY <1>7, <1>15, <1>16, <1>17, <1>18, <1>19, <1>20, QueueStep

LEMMA QueueLog ==
    ASSUME QueueInv, NEW c \in Cpus, LogStolen(c)
    PROVE  QueueInv'
<1>1. PICK e : e = stolen[c]
  OBVIOUS
<1>2. /\ running' = [running EXCEPT ![c] = e] /\ stolen' = [stolen EXCEPT ![c] = NoTask]
      /\ runQueue' = runQueue /\ history' = history /\ ran' = ran \cup {e.task} /\ looking' = looking
      /\ queueLock[c] = c /\ queueLock' = [queueLock EXCEPT ![c] = NoCpu]
  BY <1>1 DEF LogStolen
<1>3. /\ running'[c] = e /\ stolen'[c] = NoTask
      /\ \A d \in Cpus : d # c => stolen'[d] = stolen[d] /\ running'[d] = running[d]
  BY <1>2 DEF QueueInv, QueueTypes
<1>11. e \in Task /\ InHand(e) = {e.task} /\ e.task \in SmpTasks
  <2>1. e \in Task
    BY <1>1, <1>2 DEF QueueInv, QueueTypes, HandsAreFree
  <2> QED BY <2>1, TaskInHand
<1>12. e.task \in ToSet(history) /\ \A i \in Places : i # <<"stolen", c>> => e.task \notin Cells[i]
  <2>1. Cells[<<"stolen", c>>] = {e.task} /\ <<"stolen", c>> \in Places
    BY <1>1, <1>11, CellOf
  <2> QED BY <2>1 DEF QueueInv, CellsDisjoint
<1>4. QueueTypes'
  <2>2. running' \in [Cpus -> {NoTask} \cup Task] /\ stolen' \in [Cpus -> {NoTask} \cup Task]
    BY <1>2, <1>11 DEF QueueInv, QueueTypes
  <2>3. (ran \subseteq ToSet(history))'
    BY <1>2, <1>12 DEF QueueInv, QueueTypes
  <2> QED BY <2>2, <2>3, <1>2 DEF QueueInv, QueueTypes
<1>5. \A i \in Places : i # <<"running", c>> => Cells'[i] \subseteq Cells[i]
  <2> SUFFICES ASSUME NEW i \in Places, i # <<"running", c>> PROVE Cells'[i] \subseteq Cells[i]
    OBVIOUS
  <2>1. PICK d \in Cpus : i = <<"queue", d>> \/ i = <<"stolen", d>> \/ i = <<"running", d>>
    BY CellIs
  <2>2. CASE i = <<"queue", d>>
    BY <2>2, <1>2, CellOf, CellAfter
  <2>3. CASE i = <<"running", d>>
    <3>1. d # c
      BY <2>3
    <3>2. running'[d] = running[d]
      BY <3>1, <1>3
    <3> QED BY <2>3, <3>2, CellOf, CellAfter
  <2>4. CASE i = <<"stolen", d>> /\ d # c
    <3>1. stolen'[d] = stolen[d]
      BY <2>4, <1>3
    <3> QED BY <2>4, <3>1, CellOf, CellAfter
  <2>5. CASE i = <<"stolen", d>> /\ d = c
    BY <2>5, <1>3, CellAfter DEF InHand
  <2> QED BY <2>1, <2>2, <2>3, <2>4, <2>5
<1>6. Cells'[<<"running", c>>] = InHand(e) /\ Cells[<<"stolen", c>>] = InHand(e) /\ Cells'[<<"stolen", c>>] = {}
  BY <1>1, <1>3, CellOf, CellAfter DEF InHand
<1>7. <<"running", c>> \in Places /\ <<"stolen", c>> \in Places
  BY CellOf
<1>8. \A j, k \in Places : j # k => Cells'[j] \cap Cells'[k] = {}
  <2>1. \A i \in Places : i # <<"running", c>> => Cells'[i] \cap InHand(e) = {}
    <3> SUFFICES ASSUME NEW i \in Places, i # <<"running", c>> PROVE Cells'[i] \cap InHand(e) = {}
      OBVIOUS
    <3>1. CASE i = <<"stolen", c>>
      BY <3>1, <1>6
    <3>2. CASE i # <<"stolen", c>>
      BY <3>2, <1>5, <1>6, <1>7 DEF QueueInv, CellsDisjoint
    <3> QED BY <3>1, <3>2
  <2>2. \A j, k \in Places : j # k => Cells[j] \cap Cells[k] = {}
    BY DEF QueueInv, CellsDisjoint
  <2> SUFFICES ASSUME NEW j \in Places, NEW k \in Places, j # k PROVE Cells'[j] \cap Cells'[k] = {}
    OBVIOUS
  <2>3. CASE j = <<"running", c>>
    BY <2>1, <2>3, <1>6
  <2>4. CASE k = <<"running", c>>
    BY <2>1, <2>4, <1>6
  <2>5. CASE j # <<"running", c>> /\ k # <<"running", c>>
    BY <2>2, <2>5, <1>5
  <2> QED BY <2>3, <2>4, <2>5
<1>9. \A k \in Places : Cells'[k] \subseteq ToSet(history)
  <2>1. \A k \in Places : Cells[k] \subseteq ToSet(history)
    BY DEF QueueInv, CellsDisjoint
  <2> QED BY <2>1, <1>5, <1>6, <1>7
<1>10. Places' = Places
  BY DEF Places, Cpus
<1>13. TasksGetTheirTurn'
  <2>1. \A d \in Cpus : e.task \notin ToSet(runQueue[d])
    BY <1>12, CellOf
  <2>2. \A d \in Cpus : d # c => ~(stolen[d] # NoTask /\ stolen[d].task = e.task)
    BY <1>12, CellOf DEF InHand
  <2>3. ~Waits(e.task)'
    BY <2>1, <2>2, <1>2, <1>3 DEF Waits
  <2>4. \A u \in SmpTasks : u # e.task => (Waits(u)' <=> Waits(u))
    BY <1>1, <1>2, <1>3 DEF Waits
  <2> QED BY <2>3, <2>4, <1>2 DEF QueueInv, TasksGetTheirTurn
<1>14. HandsAreFree'
  BY <1>2, CpusFinite DEF QueueInv, QueueTypes, HandsAreFree, NoCpu
<1> QED BY <1>2, <1>4, <1>8, <1>9, <1>10, <1>13, <1>14 DEF QueueInv, CellsDisjoint

LEMMA QueueInvUnchanged ==
    ASSUME QueueInv, runQueue' = runQueue, running' = running, stolen' = stolen, history' = history,
           ran' = ran, HandsAreFree'
    PROVE  QueueInv'
BY DEF QueueInv, QueueTypes, CellsDisjoint, Cells, InHand, TasksGetTheirTurn, Waits

LEMMA QueueInvStutter ==
    ASSUME QueueInv, UNCHANGED queueVars
    PROVE  QueueInv'
<1>1. HandsAreFree'
  BY DEF queueVars, QueueInv, HandsAreFree
<1> QED BY <1>1, QueueInvUnchanged DEF queueVars

(* Looking at a peer and taking its own lock leave all tasks where they are. *)
LEMMA QueueLook ==
    ASSUME QueueInv, NEW c \in Cpus,
           StealNone(c) \/ RecordStolen(c) \/ \E v \in Cpus : PassPeer(c, v)
    PROVE  QueueInv'
<1>1. UNCHANGED <<runQueue, running, stolen, history, ran>>
  BY DEF StealNone, RecordStolen, PassPeer
<1>2. HandsAreFree'
  <2>1. CASE StealNone(c)
    BY <2>1 DEF StealNone, QueueInv, HandsAreFree, NotLooking
  <2>2. CASE RecordStolen(c)
    BY <2>2 DEF RecordStolen, QueueInv, HandsAreFree
  <2>3. CASE \E v \in Cpus : PassPeer(c, v)
    BY <2>3, CpusFinite DEF PassPeer, NextPeer, QueueInv, HandsAreFree
  <2> QED BY <2>1, <2>2, <2>3
<1> QED BY <1>1, <1>2, QueueInvUnchanged

LEMMA QueueInvNext ==
    ASSUME QueueInv, started \subseteq Cpus, QueueNext
    PROVE  QueueInv' /\ UNCHANGED <<bootVars, tlbVars>>
<1>1. CASE \E t \in SmpTasks : EnqueueRoundRobin(t)
  <2>1. PICK t \in SmpTasks : EnqueueRoundRobin(t)
    BY <1>1
  <2>2. QueueInv'
    BY <2>1, QueueEnqueue
  <2> QED BY <2>1, <2>2 DEF EnqueueRoundRobin
<1>2. CASE \E c \in Cpus : PickLocal(c) \/ PickNone(c) \/ StealNone(c) \/ RecordStolen(c) \/ LogStolen(c)
  <2>1. PICK c \in Cpus : PickLocal(c) \/ PickNone(c) \/ StealNone(c) \/ RecordStolen(c) \/ LogStolen(c)
    BY <1>2
  <2>2. QueueInv'
    BY <2>1, QueuePick, QueuePickNone, QueueLook, QueueLog
  <2>3. UNCHANGED <<bootVars, tlbVars>>
    BY <2>1 DEF PickLocal, PickNone, StealNone, RecordStolen, LogStolen
  <2> QED BY <2>2, <2>3
<1>3. CASE \E c, v \in Cpus : StealTask(c, v) \/ PassPeer(c, v)
  <2>1. PICK c \in Cpus, v \in Cpus : StealTask(c, v) \/ PassPeer(c, v)
    BY <1>3
  <2>2. QueueInv'
    BY <2>1, QueueSteal, QueueLook
  <2>3. UNCHANGED <<bootVars, tlbVars>>
    BY <2>1 DEF StealTask, PassPeer
  <2> QED BY <2>2, <2>3
<1> QED BY <1>1, <1>2, <1>3 DEF QueueNext

LEMMA AtMostOne ==
    ASSUME NEW A, IsFiniteSet(A), \A x, y \in A : x = y
    PROVE  (Cardinality(A) = 0 /\ A = {}) \/ Cardinality(A) = 1
<1>1. CASE A = {}
  BY <1>1, FS_EmptySet
<1>2. CASE A # {}
  <2>1. PICK x : x \in A
    BY <1>2
  <2>2. A = {x}
    BY <2>1
  <2> QED BY <2>2, FS_Singleton
<1> QED BY <1>1, <1>2

LEMMA CellsCountTasks ==
    ASSUME QueueInv
    PROVE  TasksInOnePlace
<1> SUFFICES ASSUME NEW t \in ToSet(history)
             PROVE  Cardinality({c \in Cpus : t \in ToSet(runQueue[c])})
                    + Cardinality({c \in Cpus : stolen[c] # NoTask /\ stolen[c].task = t})
                    + Cardinality({c \in Cpus : running[c] # NoTask /\ running[c].task = t}) <= 1
  BY DEF TasksInOnePlace
<1>1. PICK Q : Q = {c \in Cpus : t \in ToSet(runQueue[c])}
  OBVIOUS
<1>2. PICK S : S = {c \in Cpus : stolen[c] # NoTask /\ stolen[c].task = t}
  OBVIOUS
<1>3. PICK R : R = {c \in Cpus : running[c] # NoTask /\ running[c].task = t}
  OBVIOUS
<1>4. IsFiniteSet(Q) /\ IsFiniteSet(S) /\ IsFiniteSet(R)
  BY <1>1, <1>2, <1>3, CpusFinite, FS_Subset
<1>5. /\ \A c \in Q : <<"queue", c>> \in Places /\ t \in Cells[<<"queue", c>>]
      /\ \A c \in S : <<"stolen", c>> \in Places /\ t \in Cells[<<"stolen", c>>]
      /\ \A c \in R : <<"running", c>> \in Places /\ t \in Cells[<<"running", c>>]
  BY <1>1, <1>2, <1>3, CellOf DEF InHand
<1>6. \A j, k \in Places : t \in Cells[j] /\ t \in Cells[k] => j = k
  BY DEF QueueInv, CellsDisjoint
<1>7. \A x, y \in Q : x = y
  BY <1>5, <1>6
<1>8. \A x, y \in S : x = y
  BY <1>5, <1>6
<1>9. \A x, y \in R : x = y
  BY <1>5, <1>6
<1>10. (Q = {} \/ S = {}) /\ (Q = {} \/ R = {}) /\ (S = {} \/ R = {})
  BY <1>5, <1>6
<1>11. Cardinality(Q) + Cardinality(S) + Cardinality(R) <= 1
  <2>1. (Cardinality(Q) = 0 /\ Q = {}) \/ Cardinality(Q) = 1
    BY <1>4, <1>7, AtMostOne
  <2>2. (Cardinality(S) = 0 /\ S = {}) \/ Cardinality(S) = 1
    BY <1>4, <1>8, AtMostOne
  <2>3. (Cardinality(R) = 0 /\ R = {}) \/ Cardinality(R) = 1
    BY <1>4, <1>9, AtMostOne
  <2>4. Cardinality({}) = 0
    BY FS_EmptySet
  <2> QED BY <2>1, <2>2, <2>3, <2>4, <1>10
<1> QED BY <1>1, <1>2, <1>3, <1>11

-----------------------------------------------------------------------------
(* For every number of processors, pages and tasks, and however the start of *)
(* the processors, the shootdowns and the stealing of tasks interleave: each *)
(* processor that was not late has its own cpu_id, a shootdown that was      *)
(* acknowledged leaves no translation behind, and no task is in two places,  *)
(* lost, or given a second turn (smp.rs: start_ap, tlb_shootdown,            *)
(* handle_tlb_shootdown_ipi, pick_next_task, steal_task_from_peers).         *)
THEOREM ProcessorsAreSound == SmpSpec => []SmpSound
<1> DEFINE Inv == BootInv /\ TlbInv /\ QueueInv
<1>1. SmpInit => Inv
  BY BootInvInit, TlbInvInit, QueueInvInit
<1>2. Inv /\ [SmpNext]_smpVars => Inv'
  <2> SUFFICES ASSUME Inv, [SmpNext]_smpVars PROVE Inv'
    OBVIOUS
  <2>0. started \subseteq Cpus
    BY DEF BootInv, BootTypes
  <2>1. CASE BootNext
    <3>1. BootInv' /\ started \subseteq started' /\ UNCHANGED <<tlbVars, queueVars>>
      BY <2>1, BootInvNext
    <3>2. started' \subseteq Cpus
      BY <3>1 DEF BootInv, BootTypes, Cpus
    <3>3. TlbInv'
      BY <3>1, <3>2, TlbInvBooting
    <3>4. QueueInv'
      BY <3>1, QueueInvStutter
    <3> QED BY <3>1, <3>3, <3>4
  <2>2. CASE TlbNext
    <3>1. TlbInv' /\ UNCHANGED <<bootVars, queueVars>>
      BY <2>2, TlbInvNext
    <3>2. QueueInv'
      BY <3>1, QueueInvStutter
    <3>3. BootInv'
      BY <3>1 DEF bootVars, BootInv, BootTypes, PageIsOfBooting, OneInTrampoline, OneIdPerCpu
    <3> QED BY <3>1, <3>2, <3>3
  <2>3. CASE QueueNext
    <3>1. QueueInv' /\ UNCHANGED <<bootVars, tlbVars>>
      BY <2>0, <2>3, QueueInvNext
    <3>2. TlbInv'
      BY <3>1, <2>0, TlbInvBooting DEF bootVars
    <3>3. BootInv'
      BY <3>1 DEF bootVars, BootInv, BootTypes, PageIsOfBooting, OneInTrampoline, OneIdPerCpu
    <3> QED BY <3>1, <3>2, <3>3
  <2>4. CASE UNCHANGED smpVars
    <3>1. UNCHANGED <<bootVars, tlbVars, queueVars>>
      BY <2>4 DEF smpVars
    <3>2. TlbInv'
      BY <3>1, <2>0, TlbInvBooting DEF bootVars
    <3>3. BootInv'
      BY <3>1 DEF bootVars, BootInv, BootTypes, PageIsOfBooting, OneInTrampoline, OneIdPerCpu
    <3>4. QueueInv'
      BY <3>1, QueueInvStutter
    <3> QED BY <3>2, <3>3, <3>4
  <2> QED BY <2>1, <2>2, <2>3, <2>4 DEF SmpNext
<1>3. Inv => SmpSound
  <2> SUFFICES ASSUME Inv PROVE SmpSound
    OBVIOUS
  <2>1. SmpTypeOK
    BY DEF BootInv, BootTypes, TlbInv, TlbTypes, SmpTypeOK
  <2>2. OneIdPerCpu /\ NoStaleTranslation
    BY DEF BootInv, TlbInv
  <2>3. TasksInOnePlace /\ TasksGetTheirTurn
    BY CellsCountTasks DEF QueueInv
  <2> QED BY <2>1, <2>2, <2>3 DEF SmpSound
<1> QED BY <1>1, <1>2, <1>3, PTL DEF SmpSpec

-----------------------------------------------------------------------------
(* The block engine. *)

LEMMA BlocksFinite == IsFiniteSet(Blocks) /\ Blocks \subseteq Nat /\ 0 \in Blocks
<1>1. TotalBlocks \in Nat \ {0}
  BY SpfsAssumption
<1>2. 0 \in Int /\ TotalBlocks - 1 \in Int
  BY <1>1
<1>3. IsFiniteSet(0 .. TotalBlocks - 1)
  BY <1>2, FS_Interval
<1> QED BY <1>1, <1>3 DEF Blocks

(* In a set of numbers, whatever its size, there is one with i - 1 below it, *)
(* for every i up to the size of the set.  The first i without one would     *)
(* have a predecessor, and the next number of the set after that would do.   *)
LEMMA NthExists ==
    ASSUME NEW S, IsFiniteSet(S), S \subseteq Nat
    PROVE  \A i \in 1 .. Cardinality(S) : \E b \in S : Cardinality({x \in S : x < b}) = i - 1
<1>0. Cardinality(S) \in Nat
  BY FS_CardinalityType
<1> DEFINE T == {i \in 1 .. Cardinality(S) : ~ \E b \in S : Cardinality({x \in S : x < b}) = i - 1}
<1> SUFFICES ASSUME T # {} PROVE FALSE
  OBVIOUS
<1>1. T \in SUBSET Nat
  BY <1>0
<1>2. PICK i \in T : \A j \in T : i <= j
  BY <1>1, MinExists
<1>3. i \in 1 .. Cardinality(S) /\ i \in Nat /\ ~ \E b \in S : Cardinality({x \in S : x < b}) = i - 1
  BY <1>0, <1>2
<1>6. \A j \in 1 .. Cardinality(S) : j < i => \E b \in S : Cardinality({x \in S : x < b}) = j - 1
  <2> SUFFICES ASSUME NEW j \in 1 .. Cardinality(S), j < i, j \notin T \/ j \in T
               PROVE  j \notin T
    BY Zenon
  <2> QED BY <1>0, <1>2, <1>3
<1> HIDE DEF T
<1>7. \A x \in S : x \in Nat
  OBVIOUS
<1>4. CASE i = 1
  <2>1. S # {}
    BY <1>3, <1>4, <1>0, FS_EmptySet
  <2>2. PICK m \in S : \A t \in S : m <= t
    BY <2>1, MinExists
  <2>3. PICK L : L = {x \in S : x < m}
    OBVIOUS
  <2>4. L = {}
    <3>1. \A x \in S : ~(x < m)
      BY <2>2, <1>7
    <3> QED BY <3>1, <2>3, Zenon
  <2>5. Cardinality(L) = 0
    BY <2>4, FS_EmptySet
  <2>6. Cardinality({x \in S : x < m}) = i - 1
    BY <2>3, <2>5, <1>4
  <2> QED BY <2>6, <1>3
<1>5. CASE i # 1
  <2>1. i - 1 \in 1 .. Cardinality(S) /\ i - 1 < i /\ (i - 1) - 1 = i - 2
    BY <1>0, <1>3, <1>5
  <2>2. PICK b \in S : Cardinality({x \in S : x < b}) = i - 2
    BY <2>1, <1>6
  <2>3. PICK Low : Low = {x \in S : x < b}
    OBVIOUS
  <2>4. PICK Upto : Upto = {x \in S : x <= b}
    OBVIOUS
  <2>5. PICK Above : Above = {x \in S : x > b}
    OBVIOUS
  <2>6. b \notin Low /\ Upto = Low \cup {b} /\ Low \subseteq S
    <3>1. ~(b < b) /\ b <= b /\ \A x \in S : (x <= b) <=> (x < b \/ x = b)
      BY <1>7
    <3>2. b \notin Low /\ Low \subseteq S
      BY <3>1, <2>3, Zenon
    <3>3. \A x : x \in Upto <=> (x \in Low \/ x = b)
      BY <3>1, <2>3, <2>4, Zenon
    <3> QED BY <3>2, <3>3
  <2>7. IsFiniteSet(Low)
    BY <2>6, FS_Subset
  <2>8. Cardinality(Low \cup {b}) = Cardinality(Low) + 1
    BY <2>6, <2>7, FS_AddElement
  <2>9. Cardinality(Low) = i - 2
    BY <2>2, <2>3
  <2>10. Cardinality(Upto) = i - 1
    BY <2>6, <2>8, <2>9, <1>3
  <2>11. Above # {}
    <3>2. \A x \in S : x <= b \/ x > b
      BY <1>7
    <3>1. Above = {} => Upto = S
      BY <3>2, <2>4, <2>5, Zenon
    <3> QED BY <3>1, <2>10, <1>0, <1>3
  <2>12. PICK m \in Above : \A t \in Above : m <= t
    <3>1. Above \in SUBSET Nat
      BY <2>5, <1>7
    <3> QED BY <3>1, <2>11, MinExists
  <2>13. PICK L : L = {x \in S : x < m}
    OBVIOUS
  <2>14. L = Upto /\ m \in S
    <3>1. m \in S /\ m > b /\ \A x \in S : x > b => m <= x
      BY <2>5, <2>12, Zenon
    <3>2. \A x \in S : (x < m) <=> (x <= b)
      BY <3>1, <1>7
    <3> QED BY <3>1, <3>2, <2>4, <2>13, Zenon
  <2>15. Cardinality({x \in S : x < m}) = i - 1
    BY <2>10, <2>13, <2>14
  <2> QED BY <2>14, <2>15, <1>3
<1> QED BY <1>4, <1>5

LEMMA Ordered ==
    ASSUME NEW S, IsFiniteSet(S), S \subseteq Nat
    PROVE  InOrder(S) \in Seq(S) /\ Len(InOrder(S)) = Cardinality(S)
<1>1. Cardinality(S) \in Nat
  BY FS_CardinalityType
<1>2. \A i \in 1 .. Cardinality(S) : Nth(S, i) \in S
  <2> SUFFICES ASSUME NEW i \in 1 .. Cardinality(S) PROVE Nth(S, i) \in S
    OBVIOUS
  <2>1. \E b \in S : Cardinality({x \in S : x < b}) = i - 1
    BY NthExists
  <2> QED BY <2>1, Zenon DEF Nth
<1> QED BY <1>1, <1>2 DEF InOrder

(* What AllocateBlocks gives out is clear. *)
LEMMA AllocatedAreClear ==
    ASSUME NEW n \in Nat, NEW used
    PROVE  /\ AllocateBlocks(n, used) \in Seq(Blocks \ used)
           /\ Len(AllocateBlocks(n, used)) <= n
<1>1. PICK clear : clear = InOrder(Blocks \ used)
  OBVIOUS
<1>2. clear \in Seq(Blocks \ used)
  <2>1. IsFiniteSet(Blocks \ used)
    BY BlocksFinite, FS_Subset
  <2> QED BY <2>1, <1>1, BlocksFinite, Ordered
<1>3. PICK k : k = Min({n, Len(clear)})
  OBVIOUS
<1>4. k \in 0 .. Len(clear) /\ k <= n
  <2>1. Len(clear) \in Nat
    BY <1>2
  <2>2. PICK m \in {n, Len(clear)} : \A t \in {n, Len(clear)} : m <= t
    BY <2>1
  <2>3. k \in {n, Len(clear)} /\ \A t \in {n, Len(clear)} : k <= t
    BY <2>2, <1>3 DEF Min
  <2> QED BY <2>1, <2>3
<1>5. SubSeq(clear, 1, k) \in Seq(Blocks \ used) /\ Len(SubSeq(clear, 1, k)) = k
  <2>1. Len(clear) \in Nat /\ k \in Nat /\ \A i \in 1 .. k : clear[i] \in Blocks \ used
    BY <1>2, <1>4
  <2> QED BY <2>1, <1>2, <1>4
<1> QED BY <1>1, <1>3, <1>4, <1>5 DEF AllocateBlocks

Pointer == [1 .. DirectBlocks -> Blocks]
InodeType == [direct : Pointer, indirect : Blocks]
TableType == [1 .. PtrsPerBlock -> Blocks]
EngineTypes ==
    /\ bitmap \subseteq Blocks /\ 0 \in bitmap /\ freeBlocks = Cardinality(Blocks \ bitmap)
    /\ inode \in [Inodes -> InodeType] /\ tables \in [Blocks -> TableType]
    /\ client \in {"engine", "journal"}
LogRecord == [op : {"alloc", "free", "inode", "commit"}, block : Blocks, seq : Nat]
Journals == [records : Seq(LogRecord), next : Nat, committed : Nat]
AllocsAreBlocks(j) == \A i \in 1 .. Len(j.records) : j.records[i].op = "alloc" => j.records[i].block # 0
JournalTypes ==
    /\ journal \in Journals /\ AllocsAreBlocks(journal)
    /\ wal \in Journals /\ AllocsAreBlocks(wal)
(* Whoever logs on an allocator has no inodes on it (and the engine does not *)
(* log).                                                                     *)
OneClient == client = "journal" => \A n \in Inodes : inode[n] = EmptyInode
EngineInv == EngineTypes /\ JournalTypes /\ OneClient /\ BlocksHaveOneOwner

LEMMA Sizes ==
    /\ DirectBlocks \in Nat \ {0} /\ PtrsPerBlock \in Nat \ {0} /\ WalRecords \in Nat \ {0}
    /\ EmptyInode \in InodeType /\ NoTable \in TableType
    /\ EmptyInode.indirect = 0 /\ \A i \in 1 .. DirectBlocks : EmptyInode.direct[i] = 0
BY SpfsAssumption, BlocksFinite DEF EmptyInode, NoTable, InodeType, Pointer, TableType

(* What an inode points to. *)
LEMMA PointersAre ==
    ASSUME NEW n \in Inodes, EngineTypes
    PROVE  \A x : x \in Pointers(n) <=>
              /\ x # 0
              /\ \/ \E i \in 1 .. DirectBlocks : inode[n].direct[i] = x
                 \/ x = inode[n].indirect
                 \/ inode[n].indirect # 0 /\ \E i \in 1 .. PtrsPerBlock : tables[inode[n].indirect][i] = x
<1>1. PICK d : d = inode[n].direct
  OBVIOUS
<1>2. PICK at : at = inode[n].indirect
  OBVIOUS
<1>3. PICK t : t = tables[at]
  OBVIOUS
<1>4. inode[n] \in InodeType
  BY DEF EngineTypes
<1>5. d \in Pointer /\ at \in Blocks
  BY <1>1, <1>2, <1>4 DEF InodeType
<1>6. t \in TableType
  BY <1>3, <1>5 DEF EngineTypes
<1>7. DOMAIN d = 1 .. DirectBlocks /\ DOMAIN t = 1 .. PtrsPerBlock
  BY <1>5, <1>6 DEF Pointer, TableType
<1>8. Pointers(n) = (ToSet(d) \cup {at} \cup (IF at # 0 THEN ToSet(t) ELSE {})) \ {0}
  BY <1>1, <1>2, <1>3 DEF Pointers
<1>9. /\ \A x : x \in ToSet(d) <=> \E i \in 1 .. DirectBlocks : d[i] = x
      /\ \A x : x \in ToSet(t) <=> \E i \in 1 .. PtrsPerBlock : t[i] = x
  BY <1>7, Zenon DEF ToSet
<1>10. \A x : x \in Pointers(n) <=>
          /\ x # 0
          /\ \/ \E i \in 1 .. DirectBlocks : d[i] = x
             \/ x = at
             \/ at # 0 /\ \E i \in 1 .. PtrsPerBlock : t[i] = x
  BY <1>8, <1>9
<1> QED BY <1>1, <1>2, <1>3, <1>10

LEMMA PointersAfter ==
    ASSUME NEW n \in Inodes, EngineTypes'
    PROVE  \A x : x \in Pointers(n)' <=>
              /\ x # 0
              /\ \/ \E i \in 1 .. DirectBlocks : inode'[n].direct[i] = x
                 \/ x = inode'[n].indirect
                 \/ inode'[n].indirect # 0 /\ \E i \in 1 .. PtrsPerBlock : tables'[inode'[n].indirect][i] = x
<1>1. PICK d : d = inode'[n].direct
  OBVIOUS
<1>2. PICK at : at = inode'[n].indirect
  OBVIOUS
<1>3. PICK t : t = tables'[at]
  OBVIOUS
<1>4. inode'[n] \in InodeType
  BY DEF EngineTypes
<1>5. d \in Pointer /\ at \in Blocks
  BY <1>1, <1>2, <1>4 DEF InodeType
<1>6. t \in TableType
  BY <1>3, <1>5 DEF EngineTypes
<1>7. DOMAIN d = 1 .. DirectBlocks /\ DOMAIN t = 1 .. PtrsPerBlock
  BY <1>5, <1>6 DEF Pointer, TableType
<1>8. Pointers(n)' = (ToSet(d) \cup {at} \cup (IF at # 0 THEN ToSet(t) ELSE {})) \ {0}
  BY <1>1, <1>2, <1>3 DEF Pointers
<1>9. /\ \A x : x \in ToSet(d) <=> \E i \in 1 .. DirectBlocks : d[i] = x
      /\ \A x : x \in ToSet(t) <=> \E i \in 1 .. PtrsPerBlock : t[i] = x
  BY <1>7, Zenon DEF ToSet
<1>10. \A x : x \in Pointers(n)' <=>
          /\ x # 0
          /\ \/ \E i \in 1 .. DirectBlocks : d[i] = x
             \/ x = at
             \/ at # 0 /\ \E i \in 1 .. PtrsPerBlock : t[i] = x
  BY <1>8, <1>9
<1> QED BY <1>1, <1>2, <1>3, <1>10

LEMMA EmptyPointsNowhere ==
    ASSUME NEW n \in Inodes, EngineTypes, inode[n] = EmptyInode
    PROVE  Pointers(n) = {}
BY PointersAre, Sizes

LEMMA ClearFinite ==
    ASSUME NEW T, T \subseteq Blocks
    PROVE  IsFiniteSet(T) /\ Cardinality(T) \in Nat
BY BlocksFinite, FS_Subset, FS_CardinalityType

LEMMA TakenIsCounted ==
    ASSUME NEW used, used \subseteq Blocks, NEW taken, taken \subseteq Blocks \ used
    PROVE  Cardinality(Blocks \ (used \cup taken)) = Cardinality(Blocks \ used) - Cardinality(taken)
<1>1. PICK clear : clear = Blocks \ used
  OBVIOUS
<1>2. IsFiniteSet(clear) /\ IsFiniteSet(taken)
  BY <1>1, ClearFinite
<1>3. Blocks \ (used \cup taken) = clear \ taken /\ clear \cap taken = taken
  BY <1>1
<1>4. Cardinality(clear \ taken) = Cardinality(clear) - Cardinality(clear \cap taken)
  BY <1>2, FS_Difference
<1> QED BY <1>1, <1>3, <1>4

LEMMA FreedIsCounted ==
    ASSUME NEW used, used \subseteq Blocks, NEW freed
    PROVE  Cardinality(Blocks \ (used \ freed)) = Cardinality(Blocks \ used) + Cardinality(freed \cap used)
<1>1. PICK clear : clear = Blocks \ used
  OBVIOUS
<1>2. PICK back : back = freed \cap used
  OBVIOUS
<1>3. IsFiniteSet(clear) /\ IsFiniteSet(back) /\ Cardinality(clear) \in Nat /\ Cardinality(back) \in Nat
  BY <1>1, <1>2, ClearFinite
<1>4. Blocks \ (used \ freed) = clear \cup back /\ clear \cap back = {}
  BY <1>1, <1>2
<1>5. Cardinality(clear \cup back) = Cardinality(clear) + Cardinality(back) - Cardinality(clear \cap back)
  BY <1>3, FS_Union
<1>6. Cardinality({}) = 0
  BY FS_EmptySet
<1>8. Cardinality(clear \cap back) = 0
  BY <1>4, <1>6
<1>7. Cardinality(clear \cup back) = Cardinality(clear) + Cardinality(back)
  BY <1>3, <1>5, <1>8
<1> QED BY <1>1, <1>2, <1>4, <1>7

LEMMA EngineInvInit == SpfsInit => EngineInv
<1> SUFFICES ASSUME SpfsInit PROVE EngineInv
  OBVIOUS
<1>1. EngineTypes
  <2>1. Cardinality(Blocks) = TotalBlocks
    <3>1. 0 \in Int /\ TotalBlocks - 1 \in Int /\ TotalBlocks \in Nat \ {0}
      BY SpfsAssumption
    <3>2. Cardinality(0 .. TotalBlocks - 1) = IF 0 > TotalBlocks - 1 THEN 0 ELSE (TotalBlocks - 1) - 0 + 1
      BY <3>1, FS_Interval
    <3> QED BY <3>1, <3>2 DEF Blocks
  <2>2. Cardinality(Blocks \ {0}) = TotalBlocks - 1
    BY <2>1, BlocksFinite, FS_RemoveElement
  <2>3. bitmap = {0} /\ freeBlocks = TotalBlocks - 1 /\ client \in {"engine", "journal"}
    BY DEF SpfsInit
  <2>4. inode = [n \in Inodes |-> EmptyInode] /\ tables = [b \in Blocks |-> NoTable]
    BY DEF SpfsInit
  <2>5. inode \in [Inodes -> InodeType] /\ tables \in [Blocks -> TableType]
    BY <2>4, Sizes
  <2> QED BY <2>2, <2>3, <2>5, BlocksFinite DEF EngineTypes
<1>2. JournalTypes
  BY DEF SpfsInit, JournalTypes, NewJournal, Journals, AllocsAreBlocks
<1>3. \A n \in Inodes : inode[n] = EmptyInode
  BY DEF SpfsInit
<1>4. \A n \in Inodes : Pointers(n) = {}
  BY <1>1, <1>3, EmptyPointsNowhere
<1> QED BY <1>1, <1>2, <1>3, <1>4 DEF EngineInv, OneClient, BlocksHaveOneOwner

(* A write: what an inode points to afterwards it pointed to before, or has  *)
(* just been taken from the clear blocks; the tables of the others stay.     *)
LEMMA WriteKeepsOwners ==
    ASSUME EngineTypes, BlocksHaveOneOwner, EngineTypes', NEW n \in Inodes, NEW taken, NEW at,
           taken \subseteq Blocks \ bitmap, bitmap' = bitmap \cup taken,
           at \in taken \cup {inode[n].indirect},
           \A m \in Inodes : m # n => inode'[m] = inode[m],
           \A b \in Blocks : b # at => tables'[b] = tables[b],
           inode'[n].indirect = at,
           \A i \in 1 .. DirectBlocks : inode'[n].direct[i] \in taken \cup {inode[n].direct[i]},
           at # 0 => \A i \in 1 .. PtrsPerBlock :
                        \/ tables'[at][i] \in taken \cup {0}
                        \/ at = inode[n].indirect /\ tables'[at][i] = tables[at][i]
    PROVE  BlocksHaveOneOwner'
<1>1. /\ \A m \in Inodes : Pointers(m) \subseteq bitmap
      /\ \A l, m \in Inodes : l # m => Pointers(l) \cap Pointers(m) = {}
  BY DEF BlocksHaveOneOwner
<1>2. \A m \in Inodes : inode[m].indirect \in Blocks
  BY DEF EngineTypes, InodeType
<1>3. \A x : x \in Pointers(n)' <=>
              /\ x # 0
              /\ \/ \E i \in 1 .. DirectBlocks : inode'[n].direct[i] = x
                 \/ x = inode'[n].indirect
                 \/ inode'[n].indirect # 0 /\ \E i \in 1 .. PtrsPerBlock : tables'[inode'[n].indirect][i] = x
  BY PointersAfter
<1>4. Pointers(n)' \subseteq Pointers(n) \cup taken
  <2> SUFFICES ASSUME NEW x \in Pointers(n)', x \notin taken PROVE x \in Pointers(n)
    OBVIOUS
  <2>1. x # 0
    BY <1>3
  <2>2. CASE \E i \in 1 .. DirectBlocks : inode'[n].direct[i] = x
    BY <2>1, <2>2, PointersAre
  <2>3. CASE x = inode'[n].indirect
    BY <2>1, <2>3, PointersAre
  <2>4. CASE inode'[n].indirect # 0 /\ \E i \in 1 .. PtrsPerBlock : tables'[inode'[n].indirect][i] = x
    <3>1. PICK i \in 1 .. PtrsPerBlock : tables'[at][i] = x
      BY <2>4
    <3>2. at = inode[n].indirect /\ tables[at][i] = x /\ at # 0
      BY <3>1, <2>1, <2>4
    <3> QED BY <3>2, <2>1, PointersAre
  <2> QED BY <2>2, <2>3, <2>4, <1>3
<1>5. \A m \in Inodes : m # n => Pointers(m)' = Pointers(m)
  <2> SUFFICES ASSUME NEW m \in Inodes, m # n PROVE Pointers(m)' = Pointers(m)
    OBVIOUS
  <2>1. inode'[m] = inode[m]
    OBVIOUS
  <2>2. inode[m].indirect # 0 => inode[m].indirect # at
    <3> SUFFICES ASSUME inode[m].indirect # 0 PROVE inode[m].indirect # at
      OBVIOUS
    <3>1. inode[m].indirect \in Pointers(m)
      BY PointersAre
    <3>2. inode[m].indirect \notin taken
      BY <3>1, <1>1
    <3>3. inode[m].indirect # inode[n].indirect
      <4>1. inode[n].indirect # 0 => inode[n].indirect \in Pointers(n)
        BY PointersAre
      <4> QED BY <4>1, <3>1, <1>1
    <3> QED BY <3>2, <3>3
  <2>3. inode[m].indirect # 0 => tables'[inode[m].indirect] = tables[inode[m].indirect]
    BY <2>2, <1>2
  <2> QED BY <2>1, <2>3 DEF Pointers
<1>6. \A m \in Inodes : Pointers(m)' \subseteq bitmap'
  BY <1>1, <1>4, <1>5
<1>7. ASSUME NEW l \in Inodes, NEW m \in Inodes, l # m PROVE Pointers(l)' \cap Pointers(m)' = {}
  <2>1. CASE l = n
    BY <2>1, <1>1, <1>4, <1>5, <1>7
  <2>2. CASE m = n
    BY <2>2, <1>1, <1>4, <1>5, <1>7
  <2>3. CASE l # n /\ m # n
    BY <2>3, <1>1, <1>5, <1>7
  <2> QED BY <2>1, <2>2, <2>3
<1> QED BY <1>6, <1>7 DEF BlocksHaveOneOwner

LEMMA EngineWrite ==
    ASSUME EngineInv, NEW n \in Inodes, NEW needed \in 1 .. DirectBlocks + PtrsPerBlock,
           WriteFileTransactional(n, needed), client = "engine"
    PROVE  EngineInv'
<1> USE Sizes
<1>1. PICK data : data = AllocateBlocks(needed, bitmap)
  OBVIOUS
<1>2. PICK ptrs : ptrs = IF needed > DirectBlocks /\ inode[n].indirect = 0
                           THEN AllocateBlocks(1, bitmap \cup ToSet(data)) ELSE <<>>
  OBVIOUS
<1>3. PICK at : at = IF ptrs = <<>> THEN inode[n].indirect ELSE ptrs[1]
  OBVIOUS
<1>4. PICK direct : direct = [i \in 1 .. DirectBlocks |-> IF i <= needed THEN data[i] ELSE inode[n].direct[i]]
  OBVIOUS
<1>5. PICK entries : entries = [i \in 1 .. PtrsPerBlock |->
                         IF DirectBlocks + i <= needed THEN data[DirectBlocks + i]
                         ELSE IF ptrs = <<>> THEN tables[at][i] ELSE 0]
  OBVIOUS
<1>6. PICK taken : taken = ToSet(data) \cup ToSet(ptrs)
  OBVIOUS
<1>7. /\ Len(data) = needed /\ bitmap' = bitmap \cup taken
      /\ freeBlocks' = freeBlocks - Cardinality(taken)
      /\ inode' = [inode EXCEPT ![n] = [direct |-> direct, indirect |-> at]]
      /\ tables' = (IF at # 0 /\ needed > DirectBlocks THEN [tables EXCEPT ![at] = entries] ELSE tables)
      /\ journal' = journal /\ wal' = wal /\ client' = client
  BY <1>1, <1>2, <1>3, <1>4, <1>5, <1>6, Zenon DEF WriteFileTransactional, journalVars, Step
<1>8. data \in Seq(Blocks \ bitmap)
  BY <1>1, AllocatedAreClear
<1>9. ptrs \in Seq(Blocks \ bitmap)
  <2>1. AllocateBlocks(1, bitmap \cup ToSet(data)) \in Seq(Blocks \ (bitmap \cup ToSet(data)))
    BY AllocatedAreClear
  <2>2. Blocks \ (bitmap \cup ToSet(data)) \subseteq Blocks \ bitmap
    OBVIOUS
  <2>3. AllocateBlocks(1, bitmap \cup ToSet(data)) \in Seq(Blocks \ bitmap)
    BY <2>1, <2>2
  <2> QED BY <2>3, <1>2
<1>10. /\ \A i \in 1 .. needed : data[i] \in ToSet(data) /\ data[i] \in Blocks
       /\ taken \subseteq Blocks \ bitmap
       /\ (ptrs # <<>> => ptrs[1] \in taken)
  <2>1. ToSet(data) \subseteq Blocks \ bitmap /\ ToSet(ptrs) \subseteq Blocks \ bitmap
    BY <1>8, <1>9, Elements
  <2>2. \A i \in 1 .. needed : data[i] \in ToSet(data)
    <3>1. DOMAIN data = 1 .. needed
      BY <1>7, <1>8
    <3> QED BY <3>1 DEF ToSet
  <2>3. ptrs # <<>> => ptrs[1] \in ToSet(ptrs)
    <3>1. ptrs # <<>> => 1 \in DOMAIN ptrs
      BY <1>9
    <3> QED BY <3>1 DEF ToSet
  <2> QED BY <2>1, <2>2, <2>3, <1>6
<1>11. inode[n].direct \in Pointer /\ inode[n].indirect \in Blocks
  <2>1. inode[n] \in InodeType
    BY DEF EngineInv, EngineTypes
  <2> QED BY <2>1 DEF InodeType
<1>12. at \in taken \cup {inode[n].indirect} /\ at \in Blocks
  BY <1>3, <1>10, <1>11
<1>13. tables[at] \in TableType
  BY <1>12 DEF EngineInv, EngineTypes
<1>14. direct \in Pointer /\ \A i \in 1 .. DirectBlocks : direct[i] \in taken \cup {inode[n].direct[i]}
  <2>1. \A i \in 1 .. DirectBlocks : i <= needed => data[i] \in taken /\ data[i] \in Blocks
    BY <1>6, <1>10
  <2>2. \A i \in 1 .. DirectBlocks : inode[n].direct[i] \in Blocks
    BY <1>11 DEF Pointer
  <2> QED BY <2>1, <2>2, <1>4 DEF Pointer
<1>15. /\ entries \in TableType
       /\ \A i \in 1 .. PtrsPerBlock : \/ entries[i] \in taken \cup {0}
                                       \/ at = inode[n].indirect /\ entries[i] = tables[at][i]
  <2>1. \A i \in 1 .. PtrsPerBlock : DirectBlocks + i <= needed =>
            data[DirectBlocks + i] \in taken /\ data[DirectBlocks + i] \in Blocks
    <3> SUFFICES ASSUME NEW i \in 1 .. PtrsPerBlock, DirectBlocks + i <= needed
                 PROVE  DirectBlocks + i \in 1 .. needed
      BY <1>6, <1>10
    <3> QED OBVIOUS
  <2>2. \A i \in 1 .. PtrsPerBlock : tables[at][i] \in Blocks
    BY <1>13 DEF TableType
  <2>3. ptrs = <<>> => at = inode[n].indirect
    BY <1>3
  <2>4. \A i \in 1 .. PtrsPerBlock :
           entries[i] = IF DirectBlocks + i <= needed THEN data[DirectBlocks + i]
                        ELSE IF ptrs = <<>> THEN tables[at][i] ELSE 0
    BY <1>5
  <2>5. \A i \in 1 .. PtrsPerBlock : entries[i] \in Blocks
    BY ONLY <2>1, <2>2, <2>4, BlocksFinite, Zenon
  <2>7. \A i \in 1 .. PtrsPerBlock : \/ entries[i] \in taken \cup {0}
                                     \/ at = inode[n].indirect /\ entries[i] = tables[at][i]
    BY ONLY <2>1, <2>3, <2>4, Zenon
  <2>6. entries \in TableType
    BY <2>5, <1>5 DEF TableType
  <2> QED BY ONLY <2>6, <2>7
<1>16. /\ inode'[n] = [direct |-> direct, indirect |-> at]
       /\ \A m \in Inodes : m # n => inode'[m] = inode[m]
       /\ inode' \in [Inodes -> InodeType]
  BY <1>7, <1>12, <1>14 DEF EngineInv, EngineTypes, InodeType
<1>17. /\ tables' \in [Blocks -> TableType]
       /\ \A b \in Blocks : b # at => tables'[b] = tables[b]
       /\ tables'[at] = IF at # 0 /\ needed > DirectBlocks THEN entries ELSE tables[at]
  BY <1>7, <1>12, <1>15 DEF EngineInv, EngineTypes
<1>18. EngineTypes'
  <2>1. Cardinality(Blocks \ (bitmap \cup taken)) = Cardinality(Blocks \ bitmap) - Cardinality(taken)
    BY <1>10, TakenIsCounted DEF EngineInv, EngineTypes
  <2>2. bitmap' \subseteq Blocks /\ 0 \in bitmap' /\ freeBlocks' = Cardinality(Blocks \ bitmap')
    BY <2>1, <1>7, <1>10 DEF EngineInv, EngineTypes
  <2> QED BY <2>2, <1>7, <1>16, <1>17 DEF EngineInv, EngineTypes
<1>19. JournalTypes' /\ OneClient'
  BY <1>7 DEF EngineInv, JournalTypes, OneClient
<1>20. at # 0 => \A i \in 1 .. PtrsPerBlock :
                    \/ tables'[at][i] \in taken \cup {0}
                    \/ at = inode[n].indirect /\ tables'[at][i] = tables[at][i]
  <2>1. CASE needed > DirectBlocks
    BY <2>1, <1>15, <1>17
  <2>2. CASE ~(needed > DirectBlocks)
    <3>1. ptrs = <<>>
      BY <2>2, <1>2
    <3>2. at = inode[n].indirect
      BY <3>1, <1>3
    <3> QED BY <2>2, <3>2, <1>17
  <2> QED BY <2>1, <2>2
<1>21. inode'[n].indirect = at /\ \A i \in 1 .. DirectBlocks : inode'[n].direct[i] \in taken \cup {inode[n].direct[i]}
  BY <1>14, <1>16
<1>22. BlocksHaveOneOwner'
  <2>1. EngineTypes /\ BlocksHaveOneOwner /\ bitmap' = bitmap \cup taken
    BY <1>7 DEF EngineInv
  <2>2. taken \subseteq Blocks \ bitmap /\ at \in taken \cup {inode[n].indirect}
    BY <1>10, <1>12
  <2>3. /\ \A m \in Inodes : m # n => inode'[m] = inode[m]
        /\ \A b \in Blocks : b # at => tables'[b] = tables[b]
    BY <1>16, <1>17
  <2> QED BY ONLY <2>1, <2>2, <2>3, <1>18, <1>20, <1>21, WriteKeepsOwners, SMTT(60)
<1> QED BY <1>18, <1>19, <1>22 DEF EngineInv

LEMMA EngineTruncate ==
    ASSUME EngineInv, NEW n \in Inodes, TruncateAndReclaim(n), client = "engine"
    PROVE  EngineInv'
<1> USE Sizes
<1>1. PICK freed : freed = Pointers(n)
  OBVIOUS
<1>2. PICK old : old = inode[n].indirect
  OBVIOUS
<1>3. /\ inode' = [inode EXCEPT ![n] = EmptyInode] /\ bitmap' = bitmap \ freed
      /\ freeBlocks' = freeBlocks + Cardinality(freed \cap bitmap)
      /\ tables' = (IF old = 0 THEN tables ELSE [tables EXCEPT ![old] = NoTable])
      /\ journal' = journal /\ wal' = wal /\ client' = client
  BY <1>1, <1>2 DEF TruncateAndReclaim, Cleared, FreeBlock, journalVars, Step
<1>4. old \in Blocks
  <2>1. inode[n] \in InodeType
    BY DEF EngineInv, EngineTypes
  <2> QED BY <2>1, <1>2 DEF InodeType
<1>5. 0 \notin freed
  BY <1>1, PointersAre DEF EngineInv
<1>6. EngineTypes'
  <2>1. Cardinality(Blocks \ (bitmap \ freed)) = Cardinality(Blocks \ bitmap) + Cardinality(freed \cap bitmap)
    BY FreedIsCounted DEF EngineInv, EngineTypes
  <2>2. bitmap' \subseteq Blocks /\ 0 \in bitmap' /\ freeBlocks' = Cardinality(Blocks \ bitmap')
    BY <2>1, <1>3, <1>5 DEF EngineInv, EngineTypes
  <2>3. inode' \in [Inodes -> InodeType] /\ tables' \in [Blocks -> TableType]
    BY <1>3, <1>4 DEF EngineInv, EngineTypes
  <2> QED BY <2>2, <2>3, <1>3 DEF EngineInv, EngineTypes
<1>7. JournalTypes' /\ OneClient'
  BY <1>3 DEF EngineInv, JournalTypes, OneClient
<1>8. inode'[n] = EmptyInode /\ \A m \in Inodes : m # n => inode'[m] = inode[m]
  BY <1>3 DEF EngineInv, EngineTypes
<1>9. Pointers(n)' = {}
  BY <1>6, <1>8, PointersAfter
<1>10. \A m \in Inodes : m # n => Pointers(m)' = Pointers(m)
  <2> SUFFICES ASSUME NEW m \in Inodes, m # n PROVE Pointers(m)' = Pointers(m)
    OBVIOUS
  <2>1. inode[m].indirect # 0 => inode[m].indirect # old
    <3> SUFFICES ASSUME inode[m].indirect # 0, old # 0 PROVE inode[m].indirect # old
      OBVIOUS
    <3>1. inode[m].indirect \in Pointers(m) /\ old \in Pointers(n)
      BY <1>2, PointersAre DEF EngineInv
    <3> QED BY <3>1 DEF EngineInv, BlocksHaveOneOwner
  <2>2. inode[m].indirect \in Blocks
    <3>1. inode[m] \in InodeType
      BY DEF EngineInv, EngineTypes
    <3> QED BY <3>1 DEF InodeType
  <2>3. inode[m].indirect # 0 => tables'[inode[m].indirect] = tables[inode[m].indirect]
    BY <2>1, <2>2, <1>3 DEF EngineInv, EngineTypes
  <2> QED BY <2>3, <1>8 DEF Pointers
<1>11. BlocksHaveOneOwner'
  <2>1. \A m \in Inodes : Pointers(m)' \subseteq bitmap'
    <3> SUFFICES ASSUME NEW m \in Inodes PROVE Pointers(m)' \subseteq bitmap'
      OBVIOUS
    <3>1. CASE m = n
      BY <3>1, <1>9
    <3>2. CASE m # n
      BY <3>2, <1>1, <1>3, <1>10 DEF EngineInv, BlocksHaveOneOwner
    <3> QED BY <3>1, <3>2
  <2>2. \A l, m \in Inodes : l # m => Pointers(l)' \cap Pointers(m)' = {}
    BY <1>9, <1>10 DEF EngineInv, BlocksHaveOneOwner
  <2> QED BY <2>1, <2>2 DEF BlocksHaveOneOwner
<1> QED BY <1>6, <1>7, <1>11 DEF EngineInv

LEMMA EngineInvStutters ==
    ASSUME EngineInv, UNCHANGED <<engineVars, journalVars, client>>
    PROVE  EngineInv'
<1>1. /\ bitmap' = bitmap /\ freeBlocks' = freeBlocks /\ inode' = inode /\ tables' = tables
      /\ journal' = journal /\ wal' = wal /\ client' = client
  BY DEF engineVars, journalVars
<1>2. \A n \in Inodes : Pointers(n)' = Pointers(n)
  BY <1>1 DEF Pointers
<1> QED BY <1>1, <1>2 DEF EngineInv, EngineTypes, JournalTypes, AllocsAreBlocks, OneClient, BlocksHaveOneOwner

(* The journal's caller: the inodes stay empty, and block 0 stays allocated. *)
LEMMA JournalKeepsEngine ==
    ASSUME EngineInv, client = "journal", client' = client, inode' = inode, tables' = tables,
           JournalTypes', bitmap' \subseteq Blocks, 0 \in bitmap', freeBlocks' = Cardinality(Blocks \ bitmap')
    PROVE  EngineInv'
<1>1. EngineTypes'
  BY DEF EngineInv, EngineTypes
<1>2. OneClient' /\ \A n \in Inodes : inode'[n] = EmptyInode
  BY DEF EngineInv, OneClient
<1>3. \A n \in Inodes : Pointers(n)' = {}
  BY <1>1, <1>2, Sizes, PointersAfter
<1> QED BY <1>1, <1>2, <1>3 DEF EngineInv, BlocksHaveOneOwner

LEMMA RecordLogged ==
    ASSUME NEW j \in Journals, AllocsAreBlocks(j), NEW r \in LogRecord, r.op = "alloc" => r.block # 0
    PROVE  LET s == Append(j.records, r)
           IN  /\ s \in Seq(LogRecord)
               /\ \A i \in 1 .. Len(s) : s[i].op = "alloc" => s[i].block # 0
<1>1. PICK q : q = j.records
  OBVIOUS
<1>2. q \in Seq(LogRecord) /\ \A i \in 1 .. Len(q) : q[i].op = "alloc" => q[i].block # 0
  BY <1>1 DEF Journals, AllocsAreBlocks
<1>3. PICK s : s = Append(q, r)
  OBVIOUS
<1>4. s \in Seq(LogRecord) /\ Len(s) = Len(q) + 1 /\ Len(q) \in Nat /\ s[Len(s)] = r
      /\ \A i \in 1 .. Len(q) : s[i] = q[i]
  BY <1>2, <1>3
<1>5. ASSUME NEW i \in 1 .. Len(s) PROVE s[i].op = "alloc" => s[i].block # 0
  <2>1. CASE i = Len(s)
    BY <2>1, <1>4
  <2>2. CASE i # Len(s)
    <3>1. i \in 1 .. Len(q)
      BY <2>2, <1>4
    <3> QED BY <3>1, <1>2, <1>4
  <2> QED BY <2>1, <2>2
<1> QED BY <1>1, <1>3, <1>4, <1>5

LEMMA JournalLogged ==
    ASSUME EngineInv, NEW op \in {"alloc", "free", "inode"}, NEW b \in Blocks, op = "alloc" => b # 0,
           journal' = Logged(op, b), wal' = wal
    PROVE  JournalTypes'
<1>1. PICK r : r = [op |-> op, block |-> b, seq |-> journal.next]
  OBVIOUS
<1>2. journal \in Journals /\ AllocsAreBlocks(journal)
  BY DEF EngineInv, JournalTypes
<1>3. journal.next \in Nat
  BY <1>2 DEF Journals
<1>4. r \in LogRecord /\ (r.op = "alloc" => r.block # 0)
  BY <1>1, <1>3 DEF LogRecord
<1>5. PICK s : s = Append(journal.records, r)
  OBVIOUS
<1>6. s \in Seq(LogRecord) /\ \A i \in 1 .. Len(s) : s[i].op = "alloc" => s[i].block # 0
  BY <1>2, <1>4, <1>5, RecordLogged
<1>7. journal' = [journal EXCEPT !.records = s, !.next = @ + 1]
  BY <1>1, <1>5 DEF Logged
<1>8. journal' \in Journals /\ journal'.records = s
  <2>1. journal'.records = s /\ journal'.next = journal.next + 1 /\ journal'.committed = journal.committed
    BY <1>2, <1>7 DEF Journals
  <2>2. journal' = [records |-> s, next |-> journal.next + 1, committed |-> journal.committed]
    BY <1>2, <1>7 DEF Journals
  <2>3. journal.committed \in Nat /\ journal.next + 1 \in Nat
    BY <1>2, <1>3 DEF Journals
  <2> QED BY <2>1, <2>2, <2>3, <1>6 DEF Journals
<1>9. AllocsAreBlocks(journal')
  BY <1>6, <1>8 DEF AllocsAreBlocks
<1> QED BY <1>8, <1>9 DEF EngineInv, JournalTypes, AllocsAreBlocks

LEMMA JournalAlloc ==
    ASSUME EngineInv, client = "journal", LogAllocBlock
    PROVE  EngineInv'
<1>1. PICK b : b = AllocateBlocks(1, bitmap)
  OBVIOUS
<1>2. b \in Seq(Blocks \ bitmap) /\ Len(b) <= 1
  BY <1>1, AllocatedAreClear
<1>3. /\ b # <<>> /\ bitmap' = bitmap \cup ToSet(b) /\ freeBlocks' = freeBlocks - 1
      /\ journal' = Logged("alloc", b[1]) /\ inode' = inode /\ tables' = tables /\ wal' = wal /\ client' = client
  BY <1>1 DEF LogAllocBlock, Step
<1>4. Len(b) = 1 /\ b[1] \in Blocks \ bitmap /\ DOMAIN b = {1}
  <2>0. PICK S : S = Blocks \ bitmap
    OBVIOUS
  <2>3. b \in Seq(S) /\ b # <<>>
    BY <2>0, <1>2, <1>3
  <2>4. Len(b) \in Nat \ {0} /\ DOMAIN b = 1 .. Len(b) /\ \A i \in 1 .. Len(b) : b[i] \in S
    BY ONLY <2>3
  <2>1. Len(b) = 1 /\ DOMAIN b = 1 .. Len(b) /\ \A i \in 1 .. Len(b) : b[i] \in Blocks \ bitmap
    BY <2>0, <2>4, <1>2
  <2>2. 1 .. 1 = {1}
    OBVIOUS
  <2> QED BY <2>1, <2>2
<1>5. ToSet(b) = {b[1]}
  BY <1>4, Zenon DEF ToSet
<1>6. b[1] # 0 /\ b[1] \in Blocks
  BY <1>4 DEF EngineInv, EngineTypes
<1>7. JournalTypes'
  BY <1>3, <1>6, JournalLogged
<1>8. bitmap \subseteq Blocks /\ 0 \in bitmap /\ freeBlocks = Cardinality(Blocks \ bitmap)
  BY DEF EngineInv, EngineTypes
<1>9. freeBlocks' = Cardinality(Blocks \ bitmap')
  <2>1. PICK x : x = b[1]
    OBVIOUS
  <2>2. Cardinality(Blocks \ (bitmap \cup {x})) = Cardinality(Blocks \ bitmap) - Cardinality({x})
    BY <2>1, <1>4, <1>8, TakenIsCounted
  <2>3. Cardinality({x}) = 1
    BY FS_Singleton
  <2> QED BY <2>1, <2>2, <2>3, <1>3, <1>5, <1>8
<1>10. bitmap' \subseteq Blocks /\ 0 \in bitmap'
  BY <1>3, <1>5, <1>6, <1>8
<1> QED BY <1>3, <1>7, <1>9, <1>10, JournalKeepsEngine

LEMMA FreedKeepsCount ==
    ASSUME EngineTypes, NEW freed, FreeBlock(freed), 0 \notin freed
    PROVE  bitmap' \subseteq Blocks /\ 0 \in bitmap' /\ freeBlocks' = Cardinality(Blocks \ bitmap')
<1>1. bitmap \subseteq Blocks /\ 0 \in bitmap /\ freeBlocks = Cardinality(Blocks \ bitmap)
  BY DEF EngineTypes
<1>2. bitmap' = bitmap \ freed /\ freeBlocks' = freeBlocks + Cardinality(freed \cap bitmap)
  BY DEF FreeBlock
<1>3. Cardinality(Blocks \ (bitmap \ freed)) = Cardinality(Blocks \ bitmap) + Cardinality(freed \cap bitmap)
  BY <1>1, FreedIsCounted
<1> QED BY <1>1, <1>2, <1>3

LEMMA JournalFree ==
    ASSUME EngineInv, client = "journal", NEW b \in Blocks, LogFreeBlock(b)
    PROVE  EngineInv'
<1>1. /\ b # 0 /\ FreeBlock({b}) /\ journal' = Logged("free", b)
      /\ inode' = inode /\ tables' = tables /\ wal' = wal /\ client' = client
  BY DEF LogFreeBlock, Step
<1>2. JournalTypes'
  BY <1>1, JournalLogged
<1>3. bitmap' \subseteq Blocks /\ 0 \in bitmap' /\ freeBlocks' = Cardinality(Blocks \ bitmap')
  BY <1>1, FreedKeepsCount DEF EngineInv
<1> QED BY <1>1, <1>2, <1>3, JournalKeepsEngine

LEMMA JournalOnly ==
    ASSUME EngineInv, client = "journal", client' = client, UNCHANGED engineVars, JournalTypes'
    PROVE  EngineInv'
<1>1. bitmap' = bitmap /\ freeBlocks' = freeBlocks /\ inode' = inode /\ tables' = tables
  BY DEF engineVars
<1>2. bitmap' \subseteq Blocks /\ 0 \in bitmap' /\ freeBlocks' = Cardinality(Blocks \ bitmap')
  BY <1>1 DEF EngineInv, EngineTypes
<1> QED BY <1>1, <1>2, JournalKeepsEngine

LEMMA JournalInode ==
    ASSUME EngineInv, client = "journal", LogWriteInode
    PROVE  EngineInv'
<1>1. journal' = Logged("inode", 0) /\ wal' = wal /\ client' = client /\ UNCHANGED engineVars
  BY DEF LogWriteInode, Step
<1>2. JournalTypes'
  BY <1>1, BlocksFinite, JournalLogged
<1> QED BY <1>1, <1>2, JournalOnly

LEMMA JournalCommit ==
    ASSUME EngineInv, client = "journal", Commit
    PROVE  EngineInv'
<1>1. PICK n : n = journal.next - 1
  OBVIOUS
<1>2. PICK r : r = [op |-> "commit", block |-> 0, seq |-> n]
  OBVIOUS
<1>3. PICK s : s = Append(journal.records, r)
  OBVIOUS
<1>4. journal \in Journals /\ AllocsAreBlocks(journal) /\ journal.next \in Nat /\ journal.committed \in Nat
  BY DEF EngineInv, JournalTypes, Journals
<1>5. /\ n > journal.committed /\ journal' = [journal EXCEPT !.committed = n, !.records = s]
      /\ wal' = wal /\ client' = client /\ UNCHANGED engineVars
  BY <1>1, <1>2, <1>3 DEF Commit, Step
<1>6. n \in Nat
  BY <1>1, <1>4, <1>5
<1>7. r \in LogRecord /\ r.op # "alloc"
  BY <1>2, <1>6, BlocksFinite DEF LogRecord
<1>8. s \in Seq(LogRecord) /\ \A i \in 1 .. Len(s) : s[i].op = "alloc" => s[i].block # 0
  BY <1>3, <1>4, <1>7, RecordLogged
<1>9. journal' = [records |-> s, next |-> journal.next, committed |-> n]
  BY <1>4, <1>5 DEF Journals
<1>10. journal' \in Journals /\ journal'.records = s
  BY <1>4, <1>6, <1>8, <1>9 DEF Journals
<1>11. AllocsAreBlocks(journal')
  BY <1>8, <1>10 DEF AllocsAreBlocks
<1>12. JournalTypes'
  BY <1>5, <1>10, <1>11 DEF EngineInv, JournalTypes, AllocsAreBlocks
<1> QED BY <1>5, <1>12, JournalOnly

LEMMA UncommittedAre ==
    ASSUME NEW j \in Journals
    PROVE  \A x : x \in Uncommitted(j) <=>
              \E i \in 1 .. Len(j.records) :
                  j.records[i].op = "alloc" /\ j.records[i].seq > j.committed /\ x = j.records[i].block
<1>1. PICK q : q = j.records
  OBVIOUS
<1>2. q \in Seq(LogRecord)
  BY <1>1 DEF Journals
<1>3. \A r : r \in ToSet(q) <=> \E i \in 1 .. Len(q) : q[i] = r
  BY <1>2, Elements
<1>4. \A x : x \in Uncommitted(j) <=> \E r \in ToSet(q) : r.op = "alloc" /\ r.seq > j.committed /\ x = r.block
  BY <1>1, Zenon DEF Uncommitted
<1>5. \A x : x \in Uncommitted(j) <=>
              \E i \in 1 .. Len(q) : q[i].op = "alloc" /\ q[i].seq > j.committed /\ x = q[i].block
  <2> SUFFICES ASSUME NEW x
               PROVE  x \in Uncommitted(j) <=>
                        \E i \in 1 .. Len(q) : q[i].op = "alloc" /\ q[i].seq > j.committed /\ x = q[i].block
    OBVIOUS
  <2>1. ASSUME x \in Uncommitted(j)
        PROVE  \E i \in 1 .. Len(q) : q[i].op = "alloc" /\ q[i].seq > j.committed /\ x = q[i].block
    <3>1. PICK r \in ToSet(q) : r.op = "alloc" /\ r.seq > j.committed /\ x = r.block
      BY <1>4, <2>1
    <3>2. PICK i \in 1 .. Len(q) : q[i] = r
      BY <1>3, <3>1
    <3> WITNESS i \in 1 .. Len(q)
    <3> QED BY <3>1, <3>2, Zenon
  <2>2. ASSUME NEW i \in 1 .. Len(q), q[i].op = "alloc", q[i].seq > j.committed, x = q[i].block
        PROVE  x \in Uncommitted(j)
    <3>1. q[i] \in ToSet(q)
      BY <1>3
    <3> QED BY <1>4, <2>2, <3>1, Zenon
  <2> QED BY <2>1, <2>2
<1> QED BY <1>1, <1>5

(* A part of a log is a log. *)
LEMMA PartOfLog ==
    ASSUME NEW j \in Journals, AllocsAreBlocks(j), NEW s \in Seq(LogRecord),
           \A i \in 1 .. Len(s) : \E k \in 1 .. Len(j.records) : s[i] = j.records[k],
           NEW g \in Journals, g.records = s
    PROVE  AllocsAreBlocks(g)
<1> SUFFICES ASSUME NEW i \in 1 .. Len(s), s[i].op = "alloc" PROVE s[i].block # 0
  BY DEF AllocsAreBlocks
<1>1. PICK k \in 1 .. Len(j.records) : s[i] = j.records[k]
  OBVIOUS
<1> QED BY <1>1 DEF AllocsAreBlocks

LEMMA RetainedIsPart ==
    ASSUME NEW j \in Journals
    PROVE  /\ Retained(j) \in Seq(LogRecord)
           /\ \A i \in 1 .. Len(Retained(j)) : \E k \in 1 .. Len(j.records) :
                  Retained(j)[i] = j.records[k] /\ j.records[k].seq <= j.committed
<1>1. PICK q : q = j.records
  OBVIOUS
<1>2. PICK I : I = {i \in DOMAIN q : q[i].seq <= j.committed}
  OBVIOUS
<1>3. PICK kept : kept = InOrder(I)
  OBVIOUS
<1>4. q \in Seq(LogRecord)
  BY <1>1 DEF Journals
<1>5. DOMAIN q = 1 .. Len(q) /\ Len(q) \in Nat /\ \A i \in 1 .. Len(q) : q[i] \in LogRecord
  BY <1>4
<1>6. I \subseteq 1 .. Len(q) /\ \A i \in I : q[i].seq <= j.committed
  BY <1>2, <1>5, Zenon
<1>7. IsFiniteSet(I) /\ I \subseteq Nat
  <2>1. IsFiniteSet(1 .. Len(q))
    BY <1>5, FS_Interval
  <2>2. I \in SUBSET (1 .. Len(q))
    BY <1>6
  <2>3. IsFiniteSet(I)
    BY <2>1, <2>2, FS_Subset
  <2>4. I \subseteq Nat
    BY <1>6
  <2> QED BY <2>3, <2>4
<1>8. kept \in Seq(I)
  BY <1>3, <1>7, Ordered
<1>9. Len(kept) \in Nat /\ \A i \in 1 .. Len(kept) : kept[i] \in I
  BY <1>8
<1>10. PICK r : r = [i \in 1 .. Len(kept) |-> q[kept[i]]]
  OBVIOUS
<1>11. Retained(j) = r
  BY <1>1, <1>2, <1>3, <1>10, Zenon DEF Retained
<1>12. \A i \in 1 .. Len(kept) : r[i] = q[kept[i]] /\ r[i] \in LogRecord
  BY <1>5, <1>6, <1>9, <1>10
<1>13. r \in Seq(LogRecord) /\ Len(r) = Len(kept)
  BY <1>9, <1>10, <1>12
<1>14. \A i \in 1 .. Len(r) : \E k \in 1 .. Len(q) : r[i] = q[k] /\ q[k].seq <= j.committed
  BY <1>6, <1>9, <1>12, <1>13
<1> QED BY <1>1, <1>11, <1>13, <1>14

LEMMA JournalRecover ==
    ASSUME EngineInv, client = "journal", RecoverAndRollback
    PROVE  EngineInv'
<1>1. /\ FreeBlock(Uncommitted(journal)) /\ journal' = [journal EXCEPT !.records = Retained(journal)]
      /\ inode' = inode /\ tables' = tables /\ wal' = wal /\ client' = client
  BY DEF RecoverAndRollback, Step
<1>2. journal \in Journals /\ AllocsAreBlocks(journal)
  BY DEF EngineInv, JournalTypes
<1>3. 0 \notin Uncommitted(journal)
  BY <1>2, UncommittedAre DEF AllocsAreBlocks
<1>4. bitmap' \subseteq Blocks /\ 0 \in bitmap' /\ freeBlocks' = Cardinality(Blocks \ bitmap')
  BY <1>1, <1>3, FreedKeepsCount DEF EngineInv
<1>5. PICK s : s = Retained(journal)
  OBVIOUS
<1>6. s \in Seq(LogRecord) /\ \A i \in 1 .. Len(s) : \E k \in 1 .. Len(journal.records) : s[i] = journal.records[k]
  BY <1>2, <1>5, RetainedIsPart
<1>7. journal' \in Journals /\ journal'.records = s
  BY <1>1, <1>2, <1>5, <1>6 DEF Journals
<1>8. AllocsAreBlocks(journal')
  BY <1>2, <1>6, <1>7, PartOfLog
<1>9. JournalTypes'
  BY <1>1, <1>7, <1>8 DEF EngineInv, JournalTypes, AllocsAreBlocks
<1> QED BY <1>1, <1>4, <1>9, JournalKeepsEngine

LEMMA JournalFlush ==
    ASSUME EngineInv, client = "journal", FlushToDisk
    PROVE  EngineInv'
<1>1. PICK q : q = journal.records
  OBVIOUS
<1>2. PICK k : k = Min({Len(q), WalRecords})
  OBVIOUS
<1>3. PICK s : s = SubSeq(q, 1, k)
  OBVIOUS
<1>4. /\ wal' = [journal EXCEPT !.records = s] /\ journal' = journal /\ client' = client /\ UNCHANGED engineVars
  BY <1>1, <1>2, <1>3 DEF FlushToDisk, Step
<1>5. journal \in Journals /\ AllocsAreBlocks(journal)
  BY DEF EngineInv, JournalTypes
<1>6. q \in Seq(LogRecord) /\ Len(q) \in Nat
  BY <1>1, <1>5 DEF Journals
<1>7. k \in 0 .. Len(q)
  <2>1. PICK m \in {Len(q), WalRecords} : \A t \in {Len(q), WalRecords} : m <= t
    BY <1>6, Sizes
  <2>2. k \in {Len(q), WalRecords} /\ \A t \in {Len(q), WalRecords} : k <= t
    BY <2>1, <1>2 DEF Min
  <2> QED BY <2>2, <1>6, Sizes
<1>8. s \in Seq(LogRecord) /\ \A i \in 1 .. Len(s) : \E l \in 1 .. Len(q) : s[i] = q[l]
  <2>1. \A i \in 1 .. k : q[i] \in LogRecord
    BY <1>6, <1>7
  <2>2. s \in Seq(LogRecord) /\ Len(s) = k /\ \A i \in 1 .. k : s[i] = q[i]
    BY <2>1, <1>3, <1>6, <1>7
  <2> QED BY <2>2, <1>6, <1>7
<1>9. wal' \in Journals /\ wal'.records = s
  BY <1>4, <1>5, <1>8 DEF Journals
<1>10. AllocsAreBlocks(wal')
  BY <1>1, <1>5, <1>8, <1>9, PartOfLog
<1>11. JournalTypes'
  BY <1>4, <1>9, <1>10 DEF EngineInv, JournalTypes, AllocsAreBlocks
<1> QED BY <1>4, <1>11, JournalOnly

LEMMA JournalReload ==
    ASSUME EngineInv, client = "journal", RecoverFromDisk
    PROVE  EngineInv'
<1>1. journal' = [wal EXCEPT !.next = 1] /\ wal' = wal /\ client' = client /\ UNCHANGED engineVars
  BY DEF RecoverFromDisk, Step
<1>2. wal \in Journals /\ AllocsAreBlocks(wal)
  BY DEF EngineInv, JournalTypes
<1>3. journal' \in Journals /\ journal'.records = wal.records
  BY <1>1, <1>2 DEF Journals
<1>4. JournalTypes'
  BY <1>1, <1>2, <1>3 DEF JournalTypes, AllocsAreBlocks
<1> QED BY <1>1, <1>4, JournalOnly

LEMMA EngineInvNext == EngineInv /\ [SpfsNext]_spfsVars => EngineInv'
<1> SUFFICES ASSUME EngineInv, [SpfsNext]_spfsVars PROVE EngineInv'
  OBVIOUS
<1>1. CASE client = "engine" /\ EngineNext
  <2>1. PICK n \in Inodes : \/ TruncateAndReclaim(n)
                            \/ \E k \in 1 .. DirectBlocks + PtrsPerBlock :
                                   WriteFileTransactional(n, k) \/ Rollback(n, k)
    BY <1>1 DEF EngineNext
  <2>2. CASE TruncateAndReclaim(n)
    BY <1>1, <2>2, EngineTruncate
  <2>3. CASE \E k \in 1 .. DirectBlocks + PtrsPerBlock : WriteFileTransactional(n, k) \/ Rollback(n, k)
    <3>1. PICK k \in 1 .. DirectBlocks + PtrsPerBlock : WriteFileTransactional(n, k) \/ Rollback(n, k)
      BY <2>3
    <3>2. CASE WriteFileTransactional(n, k)
      BY <1>1, <3>2, EngineWrite
    <3>3. CASE Rollback(n, k)
      <4>1. UNCHANGED <<engineVars, journalVars, client>>
        BY <3>3 DEF Rollback, Step
      <4> QED BY <4>1, EngineInvStutters
    <3> QED BY <3>1, <3>2, <3>3
  <2> QED BY <2>1, <2>2, <2>3
<1>2. CASE client = "journal" /\ JournalNext
  <2>1. CASE \E b \in Blocks : LogFreeBlock(b)
    BY <1>2, <2>1, JournalFree
  <2>2. CASE LogAllocBlock \/ LogWriteInode \/ Commit
    BY <1>2, <2>2, JournalAlloc, JournalInode, JournalCommit
  <2>3. CASE RecoverAndRollback \/ FlushToDisk \/ RecoverFromDisk
    BY <1>2, <2>3, JournalRecover, JournalFlush, JournalReload
  <2> QED BY <1>2, <2>1, <2>2, <2>3 DEF JournalNext
<1>3. CASE UNCHANGED spfsVars
  <2>1. UNCHANGED <<engineVars, journalVars, client>>
    BY <1>3 DEF spfsVars
  <2> QED BY <2>1, EngineInvStutters
<1> QED BY <1>1, <1>2, <1>3 DEF SpfsNext

(* For every drive, inode and log size and any order of writes, failures,    *)
(* truncations, logged changes, commits, flushes and recoveries: the count   *)
(* of free blocks is the number of clear bits, a block in use is marked, and *)
(* no two inodes share one (fs.rs: BlockAllocator, SpfsV2Engine,             *)
(* SpfsJournal).                                                             *)
THEOREM EngineIsSound == SpfsSpec => []EngineSound
<1>1. SpfsInit => EngineInv
  BY EngineInvInit
<1>2. EngineInv /\ [SpfsNext]_spfsVars => EngineInv'
  BY EngineInvNext
<1>3. EngineInv => EngineSound
  <2> SUFFICES ASSUME EngineInv PROVE EngineSound
    OBVIOUS
  <2>1. \A b \in Blocks : ToSet(tables[b]) \subseteq Blocks
    <3> SUFFICES ASSUME NEW b \in Blocks PROVE ToSet(tables[b]) \subseteq Blocks
      OBVIOUS
    <3>1. tables[b] \in TableType
      BY DEF EngineInv, EngineTypes
    <3> QED BY <3>1 DEF TableType, ToSet
  <2> QED BY <2>1 DEF EngineInv, EngineTypes, EngineSound, SpfsTypeOK
<1> QED BY <1>1, <1>2, <1>3, PTL DEF SpfsSpec

-----------------------------------------------------------------------------
(* Recovery.  As long as the journal was not read back, no record has a      *)
(* number that is still to come, so that a commit covers all of them; and    *)
(* the blocks taken since the last commit are the ones the log still lists   *)
(* above it, less those freed again.                                         *)

NumbersUsed(j) ==
    /\ j.committed < j.next
    /\ \A i \in 1 .. Len(j.records) : j.records[i].seq < j.next
LogTellsPending == pending = Uncommitted(journal) \cap bitmap
RollbackInv ==
    /\ ~reloaded => NumbersUsed(journal) /\ LogTellsPending
    /\ client = "engine" => journal.records = <<>>

LEMMA NoneUncommitted ==
    ASSUME NEW j \in Journals, \A i \in 1 .. Len(j.records) : j.records[i].seq <= j.committed
    PROVE  Uncommitted(j) = {}
<1>1. PICK q : q = j.records
  OBVIOUS
<1>2. j.committed \in Nat /\ \A i \in 1 .. Len(q) : q[i] \in LogRecord /\ q[i].seq <= j.committed
  BY <1>1 DEF Journals
<1>3. \A i \in 1 .. Len(q) : q[i].seq \in Nat
  BY <1>2 DEF LogRecord
<1>4. \A x : x \notin Uncommitted(j)
  BY <1>1, <1>2, <1>3, UncommittedAre
<1> QED BY <1>4

LEMMA AppendedUncommitted ==
    ASSUME NEW j \in Journals, NEW r \in LogRecord, r.seq > j.committed,
           NEW g \in Journals, g.records = Append(j.records, r), g.committed = j.committed
    PROVE  Uncommitted(g) = Uncommitted(j) \cup (IF r.op = "alloc" THEN {r.block} ELSE {})
<1>1. PICK q : q = j.records
  OBVIOUS
<1>2. PICK s : s = g.records
  OBVIOUS
<1>3. q \in Seq(LogRecord)
  BY <1>1 DEF Journals
<1>4. Len(q) \in Nat /\ Len(s) = Len(q) + 1 /\ s[Len(q) + 1] = r /\ \A i \in 1 .. Len(q) : s[i] = q[i]
  BY <1>1, <1>2, <1>3
<1>5. ASSUME NEW x, x \in Uncommitted(g)
      PROVE  x \in Uncommitted(j) \cup (IF r.op = "alloc" THEN {r.block} ELSE {})
  <2>1. PICK i \in 1 .. Len(s) : s[i].op = "alloc" /\ s[i].seq > j.committed /\ x = s[i].block
    BY <1>2, <1>5, UncommittedAre
  <2>2. CASE i = Len(q) + 1
    BY <2>1, <2>2, <1>4
  <2>3. CASE i # Len(q) + 1
    <3>1. i \in 1 .. Len(q)
      BY <2>3, <1>4
    <3>2. q[i].op = "alloc" /\ q[i].seq > j.committed /\ x = q[i].block
      BY <2>1, <3>1, <1>4
    <3> QED BY <3>1, <3>2, <1>1, UncommittedAre
  <2> QED BY <2>2, <2>3
<1>6. ASSUME NEW x, x \in Uncommitted(j)
      PROVE  x \in Uncommitted(g)
  <2>1. PICK i \in 1 .. Len(q) : q[i].op = "alloc" /\ q[i].seq > j.committed /\ x = q[i].block
    BY <1>1, <1>6, UncommittedAre
  <2>2. i \in 1 .. Len(s) /\ s[i].op = "alloc" /\ s[i].seq > g.committed /\ x = s[i].block
    BY <2>1, <1>4
  <2> QED BY <2>2, <1>2, UncommittedAre
<1>7. r.op = "alloc" => r.block \in Uncommitted(g)
  <2>1. Len(q) + 1 \in 1 .. Len(s)
    BY <1>4
  <2> QED BY <2>1, <1>2, <1>4, UncommittedAre
<1> QED BY <1>5, <1>6, <1>7

(* What a logged change does to the numbers and to the uncommitted blocks.   *)
LEMMA LoggedNumbers ==
    ASSUME EngineInv, EngineInv', NumbersUsed(journal),
           NEW op \in {"alloc", "free", "inode"}, NEW b \in Blocks, journal' = Logged(op, b)
    PROVE  /\ NumbersUsed(journal')
           /\ Uncommitted(journal') = Uncommitted(journal) \cup (IF op = "alloc" THEN {b} ELSE {})
<1>1. PICK j : j = journal
  OBVIOUS
<1>2. PICK g : g = journal'
  OBVIOUS
<1>3. PICK r : r = [op |-> op, block |-> b, seq |-> j.next]
  OBVIOUS
<1>4. j \in Journals /\ g \in Journals /\ NumbersUsed(j)
  BY <1>1, <1>2 DEF EngineInv, JournalTypes
<1>5. g = [j EXCEPT !.records = Append(@, r), !.next = @ + 1]
  BY <1>1, <1>2, <1>3 DEF Logged
<1>6. g.records = Append(j.records, r) /\ g.next = j.next + 1 /\ g.committed = j.committed
  BY <1>4, <1>5 DEF Journals
<1>7. j.next \in Nat /\ j.committed \in Nat /\ j.records \in Seq(LogRecord)
  BY <1>4 DEF Journals
<1>8. r \in LogRecord /\ r.op = op /\ r.block = b /\ r.seq = j.next
  BY <1>3, <1>7 DEF LogRecord
<1>9. Uncommitted(g) = Uncommitted(j) \cup (IF op = "alloc" THEN {b} ELSE {})
  <2>1. r.seq > j.committed
    BY <1>4, <1>7, <1>8 DEF NumbersUsed
  <2> QED BY <2>1, <1>4, <1>6, <1>8, AppendedUncommitted
<1>10. NumbersUsed(g)
  <2>1. PICK q : q = j.records
    OBVIOUS
  <2>2. PICK s : s = g.records
    OBVIOUS
  <2>3. q \in Seq(LogRecord) /\ s = Append(q, r) /\ \A i \in 1 .. Len(q) : q[i].seq < j.next
    BY <2>1, <2>2, <1>4, <1>6, <1>7 DEF NumbersUsed
  <2>4. Len(q) \in Nat /\ Len(s) = Len(q) + 1 /\ s[Len(q) + 1] = r /\ \A i \in 1 .. Len(q) : s[i] = q[i]
    BY <2>3
  <2>5. \A i \in 1 .. Len(q) : q[i].seq \in Nat
    <3>1. \A i \in 1 .. Len(q) : q[i] \in LogRecord
      BY <2>3
    <3> QED BY <3>1 DEF LogRecord
  <2>6. ASSUME NEW i \in 1 .. Len(s) PROVE s[i].seq < g.next
    <3>1. CASE i = Len(q) + 1
      BY <3>1, <2>4, <1>6, <1>7, <1>8
    <3>2. CASE i # Len(q) + 1
      <4>1. i \in 1 .. Len(q) /\ s[i] = q[i]
        BY <3>2, <2>4
      <4>2. q[i].seq < j.next /\ q[i].seq \in Nat
        BY <4>1, <2>3, <2>5
      <4> QED BY <4>1, <4>2, <1>6, <1>7
    <3> QED BY <3>1, <3>2
  <2>7. g.committed < g.next
    BY <1>4, <1>6, <1>7 DEF NumbersUsed
  <2> QED BY <2>2, <2>6, <2>7 DEF NumbersUsed
<1> QED BY <1>1, <1>2, <1>9, <1>10

LEMMA RollbackInvInit == SpfsInit => RollbackInv
<1> SUFFICES ASSUME SpfsInit PROVE RollbackInv
  OBVIOUS
<1>1. journal = NewJournal /\ pending = {}
  BY DEF SpfsInit
<1>2. journal.records = <<>> /\ journal.next = 1 /\ journal.committed = 0
  BY <1>1 DEF NewJournal
<1>3. journal \in Journals
  BY EngineInvInit DEF EngineInv, JournalTypes
<1>4. Uncommitted(journal) = {}
  BY <1>2, <1>3, NoneUncommitted
<1> QED BY <1>1, <1>2, <1>4 DEF RollbackInv, NumbersUsed, LogTellsPending

LEMMA RollbackAlloc ==
    ASSUME EngineInv, EngineInv', RollbackInv, client = "journal", LogAllocBlock
    PROVE  RollbackInv'
<1>1. PICK b : b = AllocateBlocks(1, bitmap)
  OBVIOUS
<1>2. b \in Seq(Blocks \ bitmap) /\ Len(b) <= 1
  BY <1>1, AllocatedAreClear
<1>3. /\ b # <<>> /\ bitmap' = bitmap \cup ToSet(b) /\ pending' = pending \cup ToSet(b)
      /\ journal' = Logged("alloc", b[1]) /\ reloaded' = reloaded /\ client' = client
  BY <1>1 DEF LogAllocBlock, Step
<1>4. b[1] \in Blocks \ bitmap /\ DOMAIN b = {1}
  <2>1. PICK S : S = Blocks \ bitmap
    OBVIOUS
  <2>2. b \in Seq(S) /\ b # <<>>
    BY <2>1, <1>2, <1>3
  <2>3. Len(b) \in Nat \ {0} /\ DOMAIN b = 1 .. Len(b) /\ \A i \in 1 .. Len(b) : b[i] \in S
    BY ONLY <2>2
  <2>4. 1 .. 1 = {1}
    OBVIOUS
  <2> QED BY <2>1, <2>3, <2>4, <1>2
<1>5. ToSet(b) = {b[1]}
  BY <1>4, Zenon DEF ToSet
<1>6. ASSUME ~reloaded PROVE NumbersUsed(journal') /\ LogTellsPending'
  <2>1. NumbersUsed(journal') /\ Uncommitted(journal') = Uncommitted(journal) \cup {b[1]}
    BY <1>3, <1>4, <1>6, LoggedNumbers DEF RollbackInv
  <2>2. pending = Uncommitted(journal) \cap bitmap
    BY <1>6 DEF RollbackInv, LogTellsPending
  <2>3. pending' = Uncommitted(journal') \cap bitmap'
    <3>1. b[1] \notin Uncommitted(journal) \/ b[1] \in pending \cup {b[1]}
      OBVIOUS
    <3> QED BY <2>1, <2>2, <1>3, <1>5
  <2> QED BY <2>1, <2>3 DEF LogTellsPending
<1> QED BY <1>3, <1>6 DEF RollbackInv

LEMMA RollbackFree ==
    ASSUME EngineInv, EngineInv', RollbackInv, client = "journal", NEW b \in Blocks, LogFreeBlock(b)
    PROVE  RollbackInv'
<1>1. /\ bitmap' = bitmap \ {b} /\ pending' = pending \ {b} /\ journal' = Logged("free", b)
      /\ reloaded' = reloaded /\ client' = client
  BY DEF LogFreeBlock, FreeBlock, Step
<1>2. ASSUME ~reloaded PROVE NumbersUsed(journal') /\ LogTellsPending'
  <2>1. NumbersUsed(journal') /\ Uncommitted(journal') = Uncommitted(journal)
    BY <1>1, <1>2, LoggedNumbers DEF RollbackInv
  <2>2. pending = Uncommitted(journal) \cap bitmap
    BY <1>2 DEF RollbackInv, LogTellsPending
  <2> QED BY <2>1, <2>2, <1>1 DEF LogTellsPending
<1> QED BY <1>1, <1>2 DEF RollbackInv

LEMMA RollbackInode ==
    ASSUME EngineInv, EngineInv', RollbackInv, client = "journal", LogWriteInode
    PROVE  RollbackInv'
<1>1. bitmap' = bitmap /\ pending' = pending /\ journal' = Logged("inode", 0) /\ reloaded' = reloaded
      /\ client' = client
  BY DEF LogWriteInode, engineVars, Step
<1>2. ASSUME ~reloaded PROVE NumbersUsed(journal') /\ LogTellsPending'
  <2>1. NumbersUsed(journal') /\ Uncommitted(journal') = Uncommitted(journal)
    BY <1>1, <1>2, BlocksFinite, LoggedNumbers DEF RollbackInv
  <2>2. pending = Uncommitted(journal) \cap bitmap
    BY <1>2 DEF RollbackInv, LogTellsPending
  <2> QED BY <2>1, <2>2, <1>1 DEF LogTellsPending
<1> QED BY <1>1, <1>2 DEF RollbackInv

LEMMA RollbackCommit ==
    ASSUME EngineInv, EngineInv', RollbackInv, client = "journal", Commit
    PROVE  RollbackInv'
<1>1. PICK j : j = journal
  OBVIOUS
<1>2. PICK g : g = journal'
  OBVIOUS
<1>3. PICK r : r = [op |-> "commit", block |-> 0, seq |-> j.next - 1]
  OBVIOUS
<1>4. /\ g = [j EXCEPT !.committed = j.next - 1, !.records = Append(@, r)]
      /\ pending' = {} /\ reloaded' = reloaded /\ client' = client /\ j.next - 1 > j.committed
  BY <1>1, <1>2, <1>3 DEF Commit, Step
<1>5. j \in Journals /\ g \in Journals
  BY <1>1, <1>2 DEF EngineInv, JournalTypes
<1>6. g.records = Append(j.records, r) /\ g.next = j.next /\ g.committed = j.next - 1
  BY <1>4, <1>5 DEF Journals
<1>7. j.next \in Nat /\ j.committed \in Nat /\ j.records \in Seq(LogRecord)
  BY <1>5 DEF Journals
<1>8. r \in LogRecord /\ r.seq = j.next - 1
  BY <1>3, <1>4, <1>7, BlocksFinite DEF LogRecord
<1>9. ASSUME ~reloaded PROVE NumbersUsed(g) /\ Uncommitted(g) = {}
  <2>1. PICK q : q = j.records
    OBVIOUS
  <2>2. PICK s : s = g.records
    OBVIOUS
  <2>3. q \in Seq(LogRecord) /\ s = Append(q, r) /\ \A i \in 1 .. Len(q) : q[i].seq < j.next
    BY <2>1, <2>2, <1>1, <1>6, <1>7, <1>9 DEF RollbackInv, NumbersUsed
  <2>4. Len(q) \in Nat /\ Len(s) = Len(q) + 1 /\ s[Len(q) + 1] = r /\ \A i \in 1 .. Len(q) : s[i] = q[i]
    BY <2>3, <1>8
  <2>5. \A i \in 1 .. Len(q) : q[i].seq \in Nat
    <3>1. \A i \in 1 .. Len(q) : q[i] \in LogRecord
      BY <2>3
    <3> QED BY <3>1 DEF LogRecord
  <2>6. ASSUME NEW i \in 1 .. Len(s) PROVE s[i].seq <= j.next - 1 /\ s[i].seq < j.next
    <3>1. CASE i = Len(q) + 1
      BY <3>1, <2>4, <1>7, <1>8
    <3>2. CASE i # Len(q) + 1
      <4>1. i \in 1 .. Len(q) /\ s[i] = q[i]
        BY <3>2, <2>4
      <4>2. q[i].seq < j.next /\ q[i].seq \in Nat
        BY <4>1, <2>3, <2>5
      <4> QED BY <4>1, <4>2, <1>7
    <3> QED BY <3>1, <3>2
  <2>7. Uncommitted(g) = {}
    BY <2>2, <2>6, <1>5, <1>6, NoneUncommitted
  <2> QED BY <2>2, <2>6, <2>7, <1>6, <1>7 DEF NumbersUsed
<1> QED BY <1>2, <1>4, <1>9 DEF RollbackInv, LogTellsPending

LEMMA RollbackRecover ==
    ASSUME EngineInv, EngineInv', RollbackInv, client = "journal", RecoverAndRollback
    PROVE  RollbackInv'
<1>1. PICK j : j = journal
  OBVIOUS
<1>2. PICK g : g = journal'
  OBVIOUS
<1>3. PICK s : s = Retained(j)
  OBVIOUS
<1>4. g = [j EXCEPT !.records = s] /\ pending' = {} /\ reloaded' = reloaded /\ client' = client
  BY <1>1, <1>2, <1>3 DEF RecoverAndRollback, Step
<1>5. j \in Journals /\ g \in Journals
  BY <1>1, <1>2 DEF EngineInv, JournalTypes
<1>6. g.records = s /\ g.next = j.next /\ g.committed = j.committed
  BY <1>4, <1>5 DEF Journals
<1>7. \A i \in 1 .. Len(s) : \E k \in 1 .. Len(j.records) : s[i] = j.records[k] /\ s[i].seq <= j.committed
  BY <1>3, <1>5, RetainedIsPart
<1>8. Uncommitted(g) = {}
  BY <1>5, <1>6, <1>7, NoneUncommitted
<1>9. NumbersUsed(j) => NumbersUsed(g)
  BY <1>6, <1>7 DEF NumbersUsed
<1> QED BY <1>1, <1>2, <1>4, <1>8, <1>9 DEF RollbackInv, LogTellsPending

LEMMA RollbackInvNext ==
    ASSUME EngineInv, EngineInv', RollbackInv, [SpfsNext]_spfsVars
    PROVE  RollbackInv'
<1>1. CASE client = "engine" /\ EngineNext
  <2>1. journal' = journal /\ pending' = pending /\ reloaded' = reloaded /\ client' = client
    BY <1>1 DEF EngineNext, TruncateAndReclaim, WriteFileTransactional, Rollback, journalVars, Step
  <2>2. journal.records = <<>> /\ journal \in Journals
    BY <1>1 DEF RollbackInv, EngineInv, JournalTypes
  <2>3. Uncommitted(journal) = {}
    BY <2>2, NoneUncommitted
  <2> QED BY <2>1, <2>2, <2>3 DEF RollbackInv, LogTellsPending, NumbersUsed
<1>2. CASE client = "journal" /\ JournalNext
  <2>1. CASE \E b \in Blocks : LogFreeBlock(b)
    BY <1>2, <2>1, RollbackFree
  <2>2. CASE LogAllocBlock \/ LogWriteInode \/ Commit
    BY <1>2, <2>2, RollbackAlloc, RollbackInode, RollbackCommit
  <2>3. CASE RecoverAndRollback
    BY <1>2, <2>3, RollbackRecover
  <2>4. CASE FlushToDisk
    BY <1>2, <2>4 DEF FlushToDisk, engineVars, Step, RollbackInv, LogTellsPending
  <2>5. CASE RecoverFromDisk
    BY <1>2, <2>5 DEF RecoverFromDisk, Step, RollbackInv
  <2> QED BY <1>2, <2>1, <2>2, <2>3, <2>4, <2>5 DEF JournalNext
<1>3. CASE UNCHANGED spfsVars
  BY <1>3 DEF spfsVars, engineVars, journalVars, RollbackInv, LogTellsPending
<1> QED BY <1>1, <1>2, <1>3 DEF SpfsNext

(* Only a recovery and a reload can shorten the log.                         *)
LEMMA ShrinksOnlyInRecovery ==
    ASSUME EngineInv, [SpfsNext]_spfsVars, Len(journal'.records) < Len(journal.records)
    PROVE  RecoverAndRollback \/ RecoverFromDisk
<1>1. PICK q : q = journal.records
  OBVIOUS
<1>2. journal \in Journals /\ q \in Seq(LogRecord) /\ Len(q) \in Nat
  BY <1>1 DEF EngineInv, JournalTypes, Journals
<1>3. journal' # journal
  BY <1>1, <1>2
<1>4. ASSUME NEW r, journal'.records = Append(journal.records, r) PROVE FALSE
  <2>1. Len(Append(q, r)) = Len(q) + 1
    BY <1>2
  <2> QED BY <2>1, <1>1, <1>2, <1>4
<1>5. ASSUME NEW op, NEW b, journal' = Logged(op, b) PROVE FALSE
  <2>1. PICK r : r = [op |-> op, block |-> b, seq |-> journal.next]
    OBVIOUS
  <2>2. journal'.records = Append(journal.records, r)
    BY <2>1, <1>2, <1>5 DEF Logged, Journals
  <2> QED BY <2>2, <1>4
<1>6. ~Commit
  <2> SUFFICES ASSUME Commit PROVE FALSE
    OBVIOUS
  <2>1. PICK n : n = journal.next - 1
    OBVIOUS
  <2>2. PICK r : r = [op |-> "commit", block |-> 0, seq |-> n]
    OBVIOUS
  <2>3. journal' = [journal EXCEPT !.committed = n, !.records = Append(@, r)]
    BY <2>1, <2>2 DEF Commit
  <2>4. journal'.records = Append(journal.records, r)
    BY <2>3, <1>2 DEF Journals
  <2> QED BY <2>4, <1>4
<1>7. ~LogAllocBlock /\ ~LogWriteInode /\ ~FlushToDisk /\ \A b \in Blocks : ~LogFreeBlock(b)
  BY <1>3, <1>5 DEF LogAllocBlock, LogWriteInode, FlushToDisk, LogFreeBlock
<1>8. ~EngineNext
  BY <1>3 DEF EngineNext, TruncateAndReclaim, WriteFileTransactional, Rollback, journalVars
<1>9. ~UNCHANGED spfsVars
  BY <1>3 DEF spfsVars, journalVars
<1> QED BY <1>6, <1>7, <1>8, <1>9 DEF SpfsNext, JournalNext

(* Whatever was logged, freed, committed and flushed before: a recovery that *)
(* drops records gives back exactly the blocks taken and not freed since the *)
(* last commit, and no committed one, unless the journal was read back from  *)
(* the drive (fs.rs: recover_and_rollback).                                  *)
THEOREM RecoveryIsExact == SpfsSpec => RollbackIsExact
<1> DEFINE Inv == EngineInv /\ RollbackInv
<1>1. SpfsInit => Inv
  BY EngineInvInit, RollbackInvInit
<1>2. Inv /\ [SpfsNext]_spfsVars => Inv'
  BY EngineInvNext, RollbackInvNext
<1>3. Inv /\ [SpfsNext]_spfsVars =>
        [Len(journal'.records) < Len(journal.records) /\ ~reloaded' => bitmap \ bitmap' = pending]_spfsVars
  <2> SUFFICES ASSUME Inv, [SpfsNext]_spfsVars, Len(journal'.records) < Len(journal.records), ~reloaded'
               PROVE  bitmap \ bitmap' = pending
    OBVIOUS
  <2>1. RecoverAndRollback \/ RecoverFromDisk
    BY ShrinksOnlyInRecovery
  <2>2. RecoverAndRollback
    BY <2>1 DEF RecoverFromDisk
  <2>3. bitmap' = bitmap \ Uncommitted(journal) /\ ~reloaded
    BY <2>2 DEF RecoverAndRollback, FreeBlock
  <2>4. pending = Uncommitted(journal) \cap bitmap
    BY <2>3 DEF RollbackInv, LogTellsPending
  <2> QED BY <2>3, <2>4
<1> QED BY <1>1, <1>2, <1>3, PTL DEF SpfsSpec, RollbackIsExact

-----------------------------------------------------------------------------
(* Physical memory *)

Frames == Nat \ {0}
Span(i) == Extents[i][1] .. Extents[i][2]

(* A frame of the pool is behind the pointer of its region, free or given   *)
(* away and not both.                                                       *)
Pools == {p \in [next : [DOMAIN Extents -> Nat], recycled : SUBSET Frames, allocated : SUBSET Frames] :
            /\ p.recycled \cap p.allocated = {}
            /\ \A i \in DOMAIN Extents : Extents[i][1] <= p.next[i]
            /\ \A f \in p.recycled \cup p.allocated : \E i \in DOMAIN Extents : f \in Span(i) /\ f < p.next[i]}

(* q is p with the frames of F given away.                                  *)
Grown(p, q, F) ==
    q \in Pools /\ F \in SUBSET Frames /\ F \cap p.allocated = {} /\ q.allocated = p.allocated \cup F

(* An address space: its tables are frames of their own, every page is      *)
(* under a table, and only pages of code and stack are what it owns.        *)
Regions == {<<"code", 0>>, <<"stack", 0>>, <<"map", 0>>, <<"dma", 0>>} \cup {SurfaceRegion(k) : k \in Nat}
Owned(region) == region[1] \in {"code", "stack"}
WellFormed(sp) ==
    /\ sp = [root |-> sp.root, low |-> sp.low, l2 |-> sp.l2, l1 |-> sp.l1, pages |-> sp.pages]
    /\ sp.root \in Frames /\ sp.low \in Frames /\ sp.l2 \in Nat
    /\ sp.l1 = [r \in DOMAIN sp.l1 |-> sp.l1[r]] /\ \A r \in DOMAIN sp.l1 : r \in Regions /\ sp.l1[r] \in Frames
    /\ sp.pages = [g \in DOMAIN sp.pages |-> sp.pages[g]]
    /\ \A g \in DOMAIN sp.pages :
          /\ g \in Regions \X Nat /\ g[1] \in DOMAIN sp.l1
          /\ sp.pages[g].frame \in Frames /\ (sp.pages[g].own => Owned(g[1]))
TablesDiffer(sp) ==
    /\ \A r, s \in DOMAIN sp.l1 : sp.l1[r] = sp.l1[s] => r = s
    /\ \A r \in DOMAIN sp.l1 : sp.l1[r] \notin {sp.root, sp.low, sp.l2}
    /\ sp.l2 \notin {sp.root, sp.low}
    /\ OwnFrames(sp) \cap TableFrames(sp) = {}
OwnDiffer(sp) ==
    \A g, h \in DOMAIN sp.pages :
        sp.pages[g].own /\ sp.pages[h].own /\ sp.pages[g].frame = sp.pages[h].frame => g = h
SpaceOk(sp) == WellFormed(sp) /\ TablesDiffer(sp) /\ OwnDiffer(sp)

SpaceInv ==
    /\ space = [p \in Users |-> space[p]] /\ \A p \in Users : space[p] = NoSpace \/ SpaceOk(space[p])
    /\ life \in [Users -> {"none", "pending", "live", "exiting", "releasing", "exited"}]
    /\ \A p \in Users : /\ life[p] = "none" => space[p] = NoSpace
                        /\ life[p] \in {"pending", "live", "exiting", "releasing"} => space[p] # NoSpace
SurfaceInv ==
    /\ \A s \in surfaces : /\ s = [owner |-> s.owner, slot |-> s.slot, first |-> s.first]
                           /\ s.owner \in Users /\ s.slot \in Nat /\ s.first \in Frames
    /\ \A s, t \in surfaces : s.owner = t.owner /\ s.slot = t.slot => s = t
    /\ job # NoJob => /\ job.owner \in Users /\ job.slot \in Nat
                      /\ \A s \in surfaces : s.owner = job.owner => s.slot # job.slot
StoreInv ==
    /\ store = [o \in DOMAIN store |-> store[o]]
    /\ \A o \in DOMAIN store :
          /\ store[o].owner \in Users /\ store[o].frames \in Seq(Frames) /\ Len(store[o].frames) = ObjectPages
          /\ store[o].mapped \in Seq(Users)
DmaInv == (dma = {} \/ \E a \in Frames : dma = a .. a + DmaPages - 1) /\ iommu \in {{}, dma}

(* What a page shows is still there, and knows who looks at it, or stays    *)
(* for ever.                                                                *)
Shows(p, g, shown, sf, st, kept) ==
    \/ shown.own
    \/ shown.frame \in kept
    \/ /\ g[1] = <<"map", 0>> /\ g[2] \in 1 .. ObjectPages
       /\ \E o \in DOMAIN st : shown.frame \in ToSet(st[o].frames) /\ p \in ToSet(st[o].mapped)
    \/ /\ g[2] \in 1 .. SurfacePages
       /\ \E s \in sf : s.owner = p /\ SurfaceRegion(s.slot) = g[1] /\ shown.frame \in SurfaceFrames(s)
PagesShow(sp, sf, st, kept) ==
    \A p \in Users : sp[p] # NoSpace =>
        \A g \in DOMAIN sp[p].pages : Shows(p, g, sp[p].pages[g], sf, st, kept)
PageInv == PagesShow(space, surfaces, store, dma \cup leaked)

(* The frames of A are those of the claims, and no two claims share one.    *)
OneOwner(A, C) == A = UNION {c[3] : c \in C} /\ \A c, d \in C : c # d => c[3] \cap d[3] = {}
ClaimsOf(sp, sf, st, d, t, l) ==
    {<<"space", p, SpaceFrames(sp[p])>> : p \in {q \in Users : sp[q] # NoSpace}}
    \cup {<<"surface", s, SurfaceFrames(s)>> : s \in sf}
    \cup {<<"object", o, ToSet(st[o].frames)>> : o \in DOMAIN st}
    \cup {<<"dma", 0, d>>, <<"iommu", 0, t>>, <<"lost", 0, l>>}
Owners(A, sp, sf, st, d, t, l) == OneOwner(A, ClaimsOf(sp, sf, st, d, t, l))

ChargeInv ==
    /\ charge \in [Users -> 0 .. Quota] /\ IsFiniteSet(surfaces) /\ IsFiniteSet(DOMAIN store)
    /\ ChargeIsGivenBack

FrameInv == pool \in Pools /\ SpaceInv /\ SurfaceInv /\ StoreInv /\ DmaInv /\ PageInv
            /\ Owners(pool.allocated, space, surfaces, store, dma, tables2, leaked)

LEMMA PoolFacts ==
    ASSUME NEW p \in Pools
    PROVE  /\ p = [next |-> p.next, recycled |-> p.recycled, allocated |-> p.allocated]
           /\ p.next \in [DOMAIN Extents -> Nat] /\ p.recycled \subseteq Frames /\ p.allocated \subseteq Frames
           /\ p.recycled \cap p.allocated = {}
           /\ \A i \in DOMAIN Extents : Extents[i][1] <= p.next[i]
           /\ \A f \in p.recycled \cup p.allocated : \E i \in DOMAIN Extents : f \in Span(i) /\ f < p.next[i]
BY DEF Pools

LEMMA PoolMade ==
    ASSUME NEW next \in [DOMAIN Extents -> Nat], NEW free \in SUBSET Frames, NEW used \in SUBSET Frames,
           free \cap used = {}, \A i \in DOMAIN Extents : Extents[i][1] <= next[i],
           \A f \in free \cup used : \E i \in DOMAIN Extents : f \in Span(i) /\ f < next[i]
    PROVE  [next |-> next, recycled |-> free, allocated |-> used] \in Pools
BY DEF Pools

LEMMA ExtentFacts ==
    /\ \A i \in DOMAIN Extents : Extents[i][1] \in Frames /\ Extents[i][2] \in Nat
    /\ \A i, j \in DOMAIN Extents : i # j => Span(i) \cap Span(j) = {}
<1>1. Extents \in Seq((Nat \ {0}) \X Nat)
    BY MemoryAssumption
<1>2. \A i \in DOMAIN Extents : Extents[i] \in (Nat \ {0}) \X Nat
    BY <1>1
<1>3. \A i, j \in DOMAIN Extents : i # j => Span(i) \cap Span(j) = {}
    BY MemoryAssumption, Zenon DEF Span
<1> QED BY <1>2, <1>3 DEF Frames

(* release: only what was allocated comes back.                             *)
LEMMA Released ==
    ASSUME NEW p \in Pools, NEW F
    PROVE  Release(p, F) \in Pools /\ Release(p, F).allocated = p.allocated \ F
<1> DEFINE free == p.recycled \cup (F \cap p.allocated)
           used == p.allocated \ F
<1>1. Release(p, F) = [next |-> p.next, recycled |-> free, allocated |-> used]
    BY DEF Release
<1>2. /\ free \in SUBSET Frames /\ used \in SUBSET Frames /\ free \cap used = {}
      /\ free \cup used = p.recycled \cup p.allocated
    BY PoolFacts
<1> HIDE DEF free, used
<1>3. [next |-> p.next, recycled |-> free, allocated |-> used] \in Pools
    BY <1>2, PoolFacts, PoolMade, Zenon
<1> QED BY <1>1, <1>3 DEF used

(* allocate gives frames that nobody has.                                   *)
LEMMA Allocated ==
    ASSUME NEW p \in Pools, NEW n \in Nat \ {0}
    PROVE  LET a == Allocate(p, n)
           IN  \/ a.first = 0 /\ a.pool = p
               \/ a.first \in Frames /\ Grown(p, a.pool, a.first .. a.first + n - 1)
<1>1. CASE Runs(p, n) # {}
    <2> DEFINE a == Min(Runs(p, n))
               got == a .. a + n - 1
    <2>1. Runs(p, n) \in SUBSET Nat
        BY PoolFacts DEF Runs, Frames
    <2>2. \E x \in Runs(p, n) : \A y \in Runs(p, n) : x <= y
        BY <1>1, <2>1, MinExists
    <2>3. a \in Runs(p, n)
        BY <2>2 DEF Min
    <2> HIDE DEF a
    <2>4. a \in Frames /\ got \subseteq p.recycled
        BY <2>3, PoolFacts DEF Runs
    <2> DEFINE free == p.recycled \ got
               used == p.allocated \cup got
    <2>5. Allocate(p, n) = [first |-> a, pool |-> [next |-> p.next, recycled |-> free, allocated |-> used]]
        BY <1>1, Zenon DEF Allocate, a
    <2>6. /\ free \in SUBSET Frames /\ used \in SUBSET Frames /\ free \cap used = {} /\ got \cap p.allocated = {}
          /\ free \cup used = p.recycled \cup p.allocated /\ got \in SUBSET Frames
        BY <2>4, PoolFacts
    <2> HIDE DEF free, got
    <2>7. [next |-> p.next, recycled |-> free, allocated |-> used] \in Pools
        BY <2>6, PoolFacts, PoolMade, Zenon
    <2> QED BY <2>4, <2>5, <2>6, <2>7 DEF Grown, got
<1>2. CASE Runs(p, n) = {} /\ RoomIn(p, n) # {}
    <2> DEFINE i == Min(RoomIn(p, n))
    <2>1. RoomIn(p, n) \in SUBSET Nat
        BY MemoryAssumption DEF RoomIn
    <2>2. \E x \in RoomIn(p, n) : \A y \in RoomIn(p, n) : x <= y
        BY <1>2, <2>1, MinExists
    <2>3. i \in RoomIn(p, n)
        BY <2>2 DEF Min
    <2> HIDE DEF i
    <2> DEFINE a == p.next[i]
               got == a .. a + n - 1
               next == [p.next EXCEPT ![i] = a + n]
               used == p.allocated \cup got
    <2>4. Allocate(p, n) = [first |-> a, pool |-> [next |-> next, recycled |-> p.recycled, allocated |-> used]]
        BY <1>2, Zenon DEF Allocate, i
    <2>5. /\ i \in DOMAIN Extents /\ a \in Nat /\ a + n - 1 <= Extents[i][2] /\ Extents[i][1] <= a
          /\ Extents[i][1] \in Nat \ {0} /\ Extents[i][2] \in Nat
        BY <2>3, PoolFacts, ExtentFacts DEF RoomIn, Frames
    <2>6. a \in Frames /\ got \in SUBSET Frames
        BY <2>5 DEF Frames
    <2>7. got \cap (p.recycled \cup p.allocated) = {}
        <3> SUFFICES ASSUME NEW f \in got, f \in p.recycled \cup p.allocated PROVE FALSE
            OBVIOUS
        <3>1. PICK j \in DOMAIN Extents : f \in Span(j) /\ f < p.next[j]
            BY PoolFacts
        <3>2. f \in Span(i) /\ ~(f < p.next[i])
            BY <2>5 DEF Span
        <3> QED BY <2>5, <3>1, <3>2, ExtentFacts
    <2>8. next \in [DOMAIN Extents -> Nat] /\ \A j \in DOMAIN Extents : Extents[j][1] <= next[j] /\ p.next[j] <= next[j]
        <3>1. \A j \in DOMAIN Extents : next[j] = IF j = i THEN a + n ELSE p.next[j]
            BY <2>5, PoolFacts
        <3>2. \A j \in DOMAIN Extents : p.next[j] \in Nat /\ Extents[j][1] \in Nat /\ Extents[j][1] <= p.next[j]
            BY PoolFacts, ExtentFacts DEF Frames
        <3> QED BY <2>5, <3>1, <3>2, PoolFacts
    <2>9. \A f \in p.recycled \cup used : \E j \in DOMAIN Extents : f \in Span(j) /\ f < next[j]
        <3> TAKE f \in p.recycled \cup used
        <3>1. CASE f \in got
            <4>1. f \in Span(i) /\ f < next[i]
                BY <2>5, <3>1, PoolFacts DEF Span
            <4> QED BY <2>5, <4>1
        <3>2. CASE f \in p.recycled \cup p.allocated
            <4>1. PICK j \in DOMAIN Extents : f \in Span(j) /\ f < p.next[j]
                BY <3>2, PoolFacts
            <4>2. f \in Int /\ p.next[j] \in Nat /\ next[j] \in Nat /\ p.next[j] <= next[j]
                BY <2>8, <4>1, PoolFacts DEF Span
            <4>3. f < next[j]
                BY <4>1, <4>2
            <4> QED BY <4>1, <4>3
        <3> QED BY <3>1, <3>2
    <2>10. p.recycled \in SUBSET Frames /\ used \in SUBSET Frames /\ p.recycled \cap used = {} /\ got \cap p.allocated = {}
        BY <2>6, <2>7, PoolFacts
    <2> HIDE DEF next, used, got
    <2>11. [next |-> next, recycled |-> p.recycled, allocated |-> used] \in Pools
        BY <2>8, <2>9, <2>10, PoolMade, Zenon
    <2> QED BY <2>4, <2>6, <2>10, <2>11 DEF Grown, used, got
<1>3. CASE Runs(p, n) = {} /\ RoomIn(p, n) = {}
    BY <1>3 DEF Allocate
<1> QED BY <1>1, <1>2, <1>3

LEMMA GrownTwice ==
    ASSUME NEW p, NEW q, NEW r, NEW F, NEW G, Grown(p, q, F), Grown(q, r, G)
    PROVE  Grown(p, r, F \cup G) /\ F \cap G = {}
BY DEF Grown

LEMMA GrownBack ==
    ASSUME NEW p, NEW q, NEW F, Grown(p, q, F)
    PROVE  Grown(p, Release(q, F), {})
<1>1. Release(q, F) \in Pools /\ Release(q, F).allocated = q.allocated \ F
    BY Released DEF Grown
<1> QED BY <1>1 DEF Grown

Hands == [pool : Pools, frames : Seq(Frames)]

LEMMA HandFacts ==
    ASSUME NEW w \in Hands
    PROVE  w.pool \in Pools /\ w.frames \in Seq(Frames)
BY DEF Hands

LEMMA TakenOne ==
    ASSUME NEW w \in Hands
    PROVE  /\ TakeOne(w) \in Hands
           /\ \/ TakeOne(w) = w
              \/ \E f \in Frames : TakeOne(w).frames = Append(w.frames, f) /\ Grown(w.pool, TakeOne(w).pool, {f})
<1> DEFINE a == Allocate(w.pool, 1)
<1>1. \/ a.first = 0 /\ a.pool = w.pool
      \/ a.first \in Frames /\ Grown(w.pool, a.pool, a.first .. a.first + 1 - 1)
    BY HandFacts, Allocated
<1>2. TakeOne(w) = IF a.first = 0 THEN w ELSE [pool |-> a.pool, frames |-> Append(w.frames, a.first)]
    BY Zenon DEF TakeOne
<1> HIDE DEF a
<1>3. CASE a.first = 0
    BY <1>2, <1>3
<1>4. CASE a.first \in Frames /\ Grown(w.pool, a.pool, a.first .. a.first + 1 - 1)
    <2>1. a.first # 0 /\ a.first .. a.first + 1 - 1 = {a.first}
        BY <1>4 DEF Frames
    <2>2. TakeOne(w) = [pool |-> a.pool, frames |-> Append(w.frames, a.first)]
        BY <1>2, <2>1
    <2>3. a.pool \in Pools /\ Append(w.frames, a.first) \in Seq(Frames)
        BY <1>4, HandFacts DEF Grown
    <2>4. TakeOne(w) \in Hands /\ TakeOne(w).frames = Append(w.frames, a.first) /\ TakeOne(w).pool = a.pool
        BY <2>2, <2>3 DEF Hands
    <2>5. Grown(w.pool, TakeOne(w).pool, {a.first})
        BY <1>4, <2>1, <2>4
    <2> QED BY <1>4, <2>4, <2>5
<1> QED BY <1>1, <1>3, <1>4

(* Frames taken one by one: all different, none of them anybody's.          *)
Handed(p, n, w) ==
    /\ w \in Hands /\ Len(w.frames) <= n /\ IsInjective(w.frames) /\ Grown(p, w.pool, ToSet(w.frames))

LEMMA Taken ==
    ASSUME NEW p \in Pools, NEW n \in Nat
    PROVE  Handed(p, n, Take(p, n))
<1> DEFINE w0 == [pool |-> p, frames |-> << >>]
           step == [a \in (1 .. n) \X Hands |-> TakeOne(a[2])]
           Body(f) == [i \in 0 .. n |-> IF i = 0 THEN w0 ELSE TakeOne(f[i - 1])]
           taken == CHOOSE f : f = Body(f)
<1>1. w0 \in Hands
    <2>1. << >> \in Seq(Frames)
        OBVIOUS
    <2> QED BY <2>1 DEF Hands
<1>2. step \in [(1 .. n) \X Hands -> Hands] /\ \A i \in 1 .. n : \A w \in Hands : step[<<i, w>>] = TakeOne(w)
    BY TakenOne
<1>3. Take(p, n) = taken[n]
    BY Zenon DEF Take
<1> HIDE DEF step, w0
<1>4. PICK f \in [0 .. n -> Hands] : f[0] = w0 /\ \A i \in 1 .. n : f[i] = step[<<i, f[i - 1]>>]
    <2>1. \E f \in [0 .. n -> Hands] : Computes(f, n, w0, step)
        BY <1>1, <1>2, Iterated
    <2> QED BY <2>1 DEF Computes
<1>5. f = Body(f)
    <2>1. ASSUME NEW i \in 0 .. n
          PROVE  f[i] = IF i = 0 THEN w0 ELSE TakeOne(f[i - 1])
        <3>1. CASE i = 0
            BY <1>4, <3>1
        <3>2. CASE i \in 1 .. n
            <4>1. f[i - 1] \in Hands /\ i # 0
                BY <1>4, <3>2
            <4> QED BY <1>2, <1>4, <3>2, <4>1
        <3> QED BY <3>1, <3>2
    <2> QED BY <2>1, <1>4
<1>6. taken = Body(taken)
    BY <1>5, Zenon
<1> HIDE DEF taken
<1>7. taken[0] = w0 /\ \A i \in 1 .. n : taken[i] = TakeOne(taken[i - 1])
    <2>1. ASSUME NEW i \in 0 .. n
          PROVE  taken[i] = IF i = 0 THEN w0 ELSE TakeOne(taken[i - 1])
        BY <1>6, Zenon
    <2>2. 0 \in 0 .. n /\ \A i \in 1 .. n : i \in 0 .. n /\ i # 0
        OBVIOUS
    <2> QED BY <2>1, <2>2, Zenon
<1> DEFINE G == {i \in 0 .. n : Handed(p, i, taken[i])}
<1>8. 0 \in G
    <2>1. ToSet(<< >>) = {} /\ IsInjective(<< >>) /\ Len(<< >>) = 0
        BY DEF ToSet, IsInjective
    <2>2. Grown(p, p, {})
        BY DEF Grown
    <2>3. w0.pool = p /\ w0.frames = << >>
        BY DEF w0
    <2>4. Handed(p, 0, w0)
        <3>1. /\ w0 \in Hands /\ Len(w0.frames) <= 0 /\ IsInjective(w0.frames)
              /\ Grown(p, w0.pool, ToSet(w0.frames))
            <4>1. Len(w0.frames) = 0 /\ IsInjective(w0.frames) /\ ToSet(w0.frames) = {}
                BY <2>1, <2>3, Zenon
            <4>2. Len(w0.frames) <= 0
                BY <4>1
            <4>3. Grown(p, w0.pool, ToSet(w0.frames))
                BY <2>2, <2>3, <4>1, Zenon
            <4> QED BY <1>1, <4>1, <4>2, <4>3
        <3> QED BY <3>1, Zenon DEF Handed
    <2> QED BY <1>7, <2>4
<1>9. ASSUME NEW i \in 1 .. n, i - 1 \in G PROVE i \in G
    <2> DEFINE w == taken[i - 1]
               v == taken[i]
    <2>1. Handed(p, i - 1, w) /\ v = TakeOne(w)
        BY <1>7, <1>9
    <2>2. w \in Hands /\ Len(w.frames) <= i - 1 /\ IsInjective(w.frames) /\ Grown(p, w.pool, ToSet(w.frames))
        BY <2>1, Zenon DEF Handed
    <2> HIDE DEF w, v
    <2>3. v \in Hands
        BY <2>1, <2>2, TakenOne
    <2>4. CASE v = w
        <3>1. Len(w.frames) <= i
            BY <2>2, HandFacts
        <3> QED BY <2>2, <2>4, <3>1 DEF Handed, v
    <2>5. CASE \E f1 \in Frames : v.frames = Append(w.frames, f1) /\ Grown(w.pool, v.pool, {f1})
        <3>1. PICK f1 \in Frames : v.frames = Append(w.frames, f1) /\ Grown(w.pool, v.pool, {f1})
            BY <2>5
        <3>2. Grown(p, v.pool, ToSet(w.frames) \cup {f1}) /\ ToSet(w.frames) \cap {f1} = {}
            <4>1. Grown(p, w.pool, ToSet(w.frames)) /\ Grown(w.pool, v.pool, {f1})
                BY <2>2, <3>1
            <4> QED BY ONLY <4>1, GrownTwice
        <3>3. w.frames \in Seq(Frames)
            BY <2>2, HandFacts
        <3>4. PICK s \in Seq(Frames) : s = w.frames
            BY <3>3
        <3>5. IsInjective(Append(s, f1)) /\ ToSet(Append(s, f1)) = ToSet(s) \cup {f1} /\ Len(Append(s, f1)) = Len(s) + 1
            BY <2>2, <3>2, <3>4, Appended
        <3>6. Len(v.frames) <= i
            BY <2>2, <3>1, <3>4, <3>5
        <3>7. Handed(p, i, v)
            BY <2>3, <3>1, <3>2, <3>4, <3>5, <3>6 DEF Handed
        <3> QED BY <3>7 DEF v
    <2> QED BY <2>1, <2>2, <2>4, <2>5, TakenOne
<1>10. n \in G
    <2>1. \A i \in 0 .. n : i \in G
        <3> HIDE DEF G
        <3> QED BY <1>8, <1>9, Climbed
    <2> QED BY <2>1
<1> QED BY <1>3, <1>10

-----------------------------------------------------------------------------
(* Address spaces *)

LEMMA MapResult ==
    ASSUME NEW p \in Pools, NEW sp, NEW region, NEW n \in Nat, NEW given
    PROVE  LET m == MapRegion(p, sp, region, n, given)
               need == TablesFor(sp, region) + (IF given = << >> THEN n ELSE 0)
           IN  \/ ~m.ok /\ m.space = sp /\ Grown(p, m.pool, {})
               \/ m.ok /\ \E f \in Seq(Frames) : /\ Len(f) = need /\ IsInjective(f) /\ Grown(p, m.pool, ToSet(f))
                                                /\ m.space = WithPages(sp, region, n, given, f)
<1> DEFINE m == MapRegion(p, sp, region, n, given)
           need == TablesFor(sp, region) + (IF given = << >> THEN n ELSE 0)
           got == Take(p, need)
<1>1. need \in Nat
    BY DEF TablesFor
<1>2. m = IF Len(got.frames) < need
          THEN [ok |-> FALSE, pool |-> Release(got.pool, ToSet(got.frames)), space |-> sp]
          ELSE [ok |-> TRUE, pool |-> got.pool, space |-> WithPages(sp, region, n, given, got.frames)]
    BY Zenon DEF MapRegion
<1> HIDE DEF need, m
<1>3. Handed(p, need, got)
    BY <1>1, Taken
<1> HIDE DEF got
<1>4. /\ got.frames \in Seq(Frames) /\ Len(got.frames) <= need /\ IsInjective(got.frames)
      /\ Grown(p, got.pool, ToSet(got.frames)) /\ Len(got.frames) \in Nat
    BY <1>3, HandFacts DEF Handed
<1>5. CASE Len(got.frames) < need
    <2>1. Grown(p, Release(got.pool, ToSet(got.frames)), {})
        BY <1>4, GrownBack
    <2> QED BY <1>2, <1>5, <2>1 DEF m
<1>6. CASE ~(Len(got.frames) < need)
    <2>1. Len(got.frames) = need
        BY <1>1, <1>4, <1>6
    <2>2. m.ok /\ m.pool = got.pool /\ m.space = WithPages(sp, region, n, given, got.frames)
        BY <1>2, <1>6
    <2>3. \E f \in Seq(Frames) : /\ Len(f) = need /\ IsInjective(f) /\ Grown(p, m.pool, ToSet(f))
                                 /\ m.space = WithPages(sp, region, n, given, f)
        BY <1>4, <2>1, <2>2, Zenon
    <2> QED BY <2>2, <2>3, Zenon DEF m, need
<1> QED BY <1>5, <1>6

(* The tables of a space after a region was mapped: the first frames are    *)
(* its tables, the rest its pages.                                          *)
TablesAre(sp, region, f, w) ==
    LET t == TablesFor(sp, region)
    IN  /\ w.root = sp.root /\ w.low = sp.low /\ w.l2 \in Frames
        /\ w.l1 = [r \in DOMAIN w.l1 |-> w.l1[r]] /\ DOMAIN w.l1 = DOMAIN sp.l1 \cup {region}
        /\ \A r \in DOMAIN w.l1 : w.l1[r] \in Frames
        /\ \A r, s \in DOMAIN w.l1 : w.l1[r] = w.l1[s] => r = s
        /\ \A r \in DOMAIN w.l1 : w.l1[r] \notin {w.root, w.low, w.l2}
        /\ w.l2 \notin {w.root, w.low}
        /\ TableFrames(w) = TableFrames(sp) \cup {f[k] : k \in 1 .. t}

LEMMA TablesMade ==
    ASSUME NEW sp, SpaceOk(sp), NEW region \in Regions, NEW n \in Nat, NEW given, NEW f \in Seq(Frames),
           Len(f) >= TablesFor(sp, region), IsInjective(f), ToSet(f) \cap SpaceFrames(sp) = {}
    PROVE  TablesAre(sp, region, f, WithPages(sp, region, n, given, f))
<1> DEFINE t == TablesFor(sp, region)
           new == f[t]
           two == f[1]
           w == WithPages(sp, region, n, given, f)
           old == sp.l1
           l2 == IF sp.l2 = 0 THEN two ELSE sp.l2
           l1 == [r \in DOMAIN old \cup {region} |-> IF r \in DOMAIN old THEN old[r] ELSE new]
<1>1. w.root = sp.root /\ w.low = sp.low /\ w.l2 = l2 /\ w.l1 = l1
    BY DEF WithPages
<1>2. /\ sp.l2 \in Nat /\ \A r \in DOMAIN old : old[r] \in Frames
      /\ \A r, s \in DOMAIN old : old[r] = old[s] => r = s
      /\ \A r \in DOMAIN old : old[r] \notin {sp.root, sp.low, sp.l2}
      /\ sp.l2 \notin {sp.root, sp.low}
      /\ sp.root \in Frames /\ sp.low \in Frames
    BY DEF SpaceOk, WellFormed, TablesDiffer
<1>3. t = (IF sp.l2 = 0 THEN 1 ELSE 0) + (IF region \in DOMAIN old THEN 0 ELSE 1) /\ t \in Nat
    BY DEF TablesFor
<1>4. \A k \in 1 .. t : f[k] \in Frames /\ f[k] \in ToSet(f) /\ f[k] # 0
    BY <1>3, Elements DEF Frames
<1>5. \A j, k \in 1 .. t : f[j] = f[k] => j = k
    BY <1>3, Elements
<1>6. /\ \A k \in 1 .. t : f[k] \notin {sp.root, sp.low} /\ (sp.l2 # 0 => f[k] # sp.l2)
      /\ \A k \in 1 .. t : \A r \in DOMAIN old : f[k] # old[r]
    BY <1>4 DEF SpaceFrames, TableFrames
<1>7. \/ sp.l2 = 0 /\ region \notin DOMAIN old /\ 1 .. t = {1, 2} /\ t = 2
      \/ sp.l2 = 0 /\ region \in DOMAIN old /\ 1 .. t = {1} /\ t = 1
      \/ sp.l2 # 0 /\ region \notin DOMAIN old /\ 1 .. t = {1} /\ t = 1
      \/ sp.l2 # 0 /\ region \in DOMAIN old /\ 1 .. t = {} /\ t = 0
    BY <1>3
<1>8. /\ sp.l2 = 0 => two \in Frames /\ two \notin {sp.root, sp.low} /\ \A r \in DOMAIN old : two # old[r]
      /\ region \notin DOMAIN old => new \in Frames /\ new \notin {sp.root, sp.low} /\ \A r \in DOMAIN old : new # old[r]
      /\ region \notin DOMAIN old => new # l2
      /\ 0 \notin Frames
    BY <1>4, <1>5, <1>6, <1>7 DEF Frames
<1>9. TableFrames(w) = {sp.root, sp.low} \cup {l1[r] : r \in DOMAIN l1} \cup ({l2} \ {0})
    BY <1>1 DEF TableFrames
<1>10. TableFrames(sp) = {sp.root, sp.low} \cup {old[r] : r \in DOMAIN old} \cup ({sp.l2} \ {0})
    BY DEF TableFrames
<1>11. {f[k] : k \in 1 .. t} = (IF sp.l2 = 0 THEN {two} ELSE {}) \cup (IF region \in DOMAIN old THEN {} ELSE {new})
    BY <1>7
<1> HIDE DEF t, new, two, w
<1>12. {l1[r] : r \in DOMAIN l1} = {old[r] : r \in DOMAIN old} \cup (IF region \in DOMAIN old THEN {} ELSE {new})
    OBVIOUS
<1>13. {l2} \ {0} = ({sp.l2} \ {0}) \cup (IF sp.l2 = 0 THEN {two} ELSE {})
    BY <1>8
<1>14. TableFrames(w) = TableFrames(sp) \cup {f[k] : k \in 1 .. t}
    BY <1>9, <1>10, <1>11, <1>12, <1>13
<1>15. l2 \in Frames /\ l2 \notin {sp.root, sp.low} /\ \A r \in DOMAIN old : old[r] # l2
    BY <1>2, <1>8 DEF Frames
<1>16. /\ l1 = [r \in DOMAIN l1 |-> l1[r]] /\ DOMAIN l1 = DOMAIN old \cup {region}
       /\ \A r \in DOMAIN l1 : l1[r] \in Frames
       /\ \A r, s \in DOMAIN l1 : l1[r] = l1[s] => r = s
       /\ \A r \in DOMAIN l1 : l1[r] \notin {sp.root, sp.low, l2}
    BY <1>2, <1>8, <1>15
<1> HIDE DEF l1, l2, old
<1> QED BY <1>1, <1>3, <1>14, <1>15, <1>16 DEF w, t, old, TablesAre

(* A region with frames of its own: what the pool gave is the space's now.  *)
LEMMA MappedOwn ==
    ASSUME NEW sp, SpaceOk(sp), NEW region \in Regions, Owned(region), NEW n \in Nat, NEW f \in Seq(Frames),
           Len(f) = TablesFor(sp, region) + n, IsInjective(f), ToSet(f) \cap SpaceFrames(sp) = {},
           \A g \in DOMAIN sp.pages : g[1] # region
    PROVE  LET w == WithPages(sp, region, n, << >>, f)
           IN  /\ SpaceOk(w) /\ SpaceFrames(w) = SpaceFrames(sp) \cup ToSet(f)
               /\ \A g \in DOMAIN w.pages : (g[1] = region /\ w.pages[g].own) \/ (g \in DOMAIN sp.pages /\ w.pages[g] = sp.pages[g])
<1> DEFINE t == TablesFor(sp, region)
           w == WithPages(sp, region, n, << >>, f)
           old == sp.pages
           new == {<<region, i>> : i \in 1 .. n}
           pages == [g \in DOMAIN old \cup new |->
                       IF g \in DOMAIN old THEN old[g] ELSE [frame |-> f[t + g[2]], own |-> TRUE]]
<1>1. w = [root |-> w.root, low |-> w.low, l2 |-> w.l2, l1 |-> w.l1, pages |-> w.pages] /\ w.pages = pages
    BY DEF WithPages
<1>2. t \in Nat /\ Len(f) \in Nat /\ Len(f) = t + n
    BY DEF TablesFor
<1>3. /\ w.root = sp.root /\ w.low = sp.low /\ w.l2 \in Frames
      /\ w.l1 = [r \in DOMAIN w.l1 |-> w.l1[r]] /\ DOMAIN w.l1 = DOMAIN sp.l1 \cup {region}
      /\ \A r \in DOMAIN w.l1 : w.l1[r] \in Frames
      /\ \A r, s \in DOMAIN w.l1 : w.l1[r] = w.l1[s] => r = s
      /\ \A r \in DOMAIN w.l1 : w.l1[r] \notin {w.root, w.low, w.l2}
      /\ w.l2 \notin {w.root, w.low}
      /\ TableFrames(w) = TableFrames(sp) \cup {f[k] : k \in 1 .. t}
    <2>1. Len(f) >= TablesFor(sp, region)
        BY <1>2
    <2>2. TablesAre(sp, region, f, WithPages(sp, region, n, << >>, f))
        BY <2>1, TablesMade
    <2> HIDE DEF w
    <2> QED BY <2>2, Zenon DEF TablesAre, t, w
<1>4. /\ sp.root \in Frames /\ sp.low \in Frames /\ \A r \in DOMAIN sp.l1 : r \in Regions
      /\ \A g \in DOMAIN old : /\ g \in Regions \X Nat /\ g[1] \in DOMAIN sp.l1
                               /\ old[g].frame \in Frames /\ (old[g].own => Owned(g[1]))
      /\ OwnFrames(sp) \cap TableFrames(sp) = {}
    BY DEF SpaceOk, WellFormed, TablesDiffer
<1>5. /\ DOMAIN pages = DOMAIN old \cup new
      /\ \A g \in DOMAIN old : pages[g] = old[g] /\ g[1] # region
      /\ \A i \in 1 .. n : LET g == <<region, i>>
                           IN  g \in DOMAIN pages /\ g[1] = region /\ pages[g] = [frame |-> f[t + i], own |-> TRUE]
    OBVIOUS
<1>6. \A i \in 1 .. n : t + i \in 1 .. Len(f) /\ t + i \notin 1 .. t
    BY <1>2
<1>7. \A k \in 1 .. Len(f) : f[k] \in Frames /\ f[k] \in ToSet(f)
    BY Elements
<1>8. {f[k] : k \in 1 .. t} \cup {f[t + i] : i \in 1 .. n} = ToSet(f)
    <2>1. \A k \in 1 .. Len(f) : k \in 1 .. t \/ (k - t \in 1 .. n /\ k = t + (k - t))
        BY <1>2
    <2>2. \A k \in 1 .. t : k \in 1 .. Len(f)
        BY <1>2
    <2>3. \A x : x \in ToSet(f) <=> \E k \in 1 .. Len(f) : f[k] = x
        BY Elements
    <2>4. ASSUME NEW x \in ToSet(f) PROVE x \in {f[k] : k \in 1 .. t} \cup {f[t + i] : i \in 1 .. n}
        <3>1. PICK k \in 1 .. Len(f) : f[k] = x
            BY <2>3
        <3>2. CASE k \in 1 .. t
            BY <3>1, <3>2
        <3>3. CASE k - t \in 1 .. n /\ k = t + (k - t)
            <4>1. PICK i \in 1 .. n : k = t + i
                BY <3>3
            <4> QED BY <3>1, <4>1
        <3> QED BY <2>1, <3>2, <3>3
    <2>5. \A k \in 1 .. t : f[k] \in ToSet(f)
        BY <1>7, <2>2
    <2>6. \A i \in 1 .. n : f[t + i] \in ToSet(f)
        BY <1>6, <1>7
    <2> QED BY <2>4, <2>5, <2>6, Zenon
<1>9. {f[k] : k \in 1 .. t} \cap {f[t + i] : i \in 1 .. n} = {}
    <2>1. \A j, k \in 1 .. Len(f) : f[j] = f[k] => j = k
        BY Elements
    <2>2. \A k \in 1 .. t : k \in 1 .. Len(f)
        BY <1>2
    <2> QED BY <1>6, <2>1, <2>2
<1> HIDE DEF w, t, old
<1>10. \A g \in DOMAIN pages :
          /\ g \in Regions \X Nat /\ g[1] \in DOMAIN w.l1
          /\ pages[g].frame \in Frames /\ (pages[g].own => Owned(g[1]))
    <2> TAKE g \in DOMAIN pages
    <2>1. CASE g \in DOMAIN old
        BY <1>3, <1>4, <1>5, <2>1
    <2>2. CASE g \in new
        <3>1. PICK i \in 1 .. n : g = <<region, i>>
            BY <2>2
        <3>2. pages[g] = [frame |-> f[t + i], own |-> TRUE] /\ g[1] = region
            BY <1>5, <3>1
        <3>3. pages[g].frame \in Frames /\ pages[g].own = TRUE
            BY <1>6, <1>7, <3>2
        <3>4. Owned(g[1])
            BY <3>2, Zenon DEF Owned
        <3>5. g \in Regions \X Nat
            BY <3>1
        <3>6. g[1] \in DOMAIN w.l1
            BY <1>3, <3>2
        <3> HIDE DEF pages
        <3> QED BY <3>3, <3>4, <3>5, <3>6
    <2> QED BY <1>5, <2>1, <2>2
<1>11. WellFormed(w)
    <2>1. w.pages = [g \in DOMAIN w.pages |-> w.pages[g]]
        BY <1>1
    <2>2. w.root \in Frames /\ w.low \in Frames /\ w.l2 \in Nat /\ \A r \in DOMAIN w.l1 : r \in Regions
        BY <1>3, <1>4 DEF Frames
    <2> HIDE DEF pages
    <2> QED BY <1>1, <1>3, <1>10, <2>1, <2>2, Zenon DEF WellFormed
<1>12. OwnFrames(w) = OwnFrames(sp) \cup {f[t + i] : i \in 1 .. n}
    <2>1. OwnFrames(w) = {pages[g].frame : g \in {h \in DOMAIN pages : pages[h].own}}
        BY <1>1 DEF OwnFrames
    <2>2. OwnFrames(sp) = {old[g].frame : g \in {h \in DOMAIN old : old[h].own}}
        BY DEF OwnFrames, old
    <2>3. ASSUME NEW x \in OwnFrames(w) PROVE x \in OwnFrames(sp) \cup {f[t + i] : i \in 1 .. n}
        <3>1. PICK g \in DOMAIN pages : pages[g].own /\ x = pages[g].frame
            BY <2>1
        <3>2. CASE g \in DOMAIN old
            BY <1>5, <2>2, <3>1, <3>2
        <3>3. CASE g \in new
            <4>1. PICK i \in 1 .. n : g = <<region, i>>
                BY <3>3
            <4> QED BY <1>5, <3>1, <4>1
        <3> QED BY <1>5, <3>2, <3>3
    <2>4. ASSUME NEW x \in OwnFrames(sp) PROVE x \in OwnFrames(w)
        <3>1. PICK g \in DOMAIN old : old[g].own /\ x = old[g].frame
            BY <2>2
        <3> QED BY <1>5, <2>1, <3>1
    <2>5. ASSUME NEW i \in 1 .. n PROVE f[t + i] \in OwnFrames(w)
        <3>1. pages[<<region, i>>].own /\ pages[<<region, i>>].frame = f[t + i] /\ <<region, i>> \in DOMAIN pages
            BY <1>5
        <3> HIDE DEF pages
        <3> QED BY <2>1, <3>1
    <2> QED BY <2>3, <2>4, <2>5
<1>13. SpaceFrames(w) = SpaceFrames(sp) \cup ToSet(f)
    BY <1>3, <1>8, <1>12 DEF SpaceFrames
<1>14. OwnFrames(w) \cap TableFrames(w) = {}
    <2>1. {f[k] : k \in 1 .. t} \subseteq ToSet(f) /\ {f[t + i] : i \in 1 .. n} \subseteq ToSet(f)
        BY <1>8
    <2> QED BY <1>3, <1>4, <1>9, <1>12, <2>1 DEF SpaceFrames
<1>15. SpaceOk(w)
    <2>1. ASSUME NEW g \in DOMAIN pages, NEW h \in DOMAIN pages, pages[g].own, pages[h].own, pages[g].frame = pages[h].frame
          PROVE  g = h
        <3>1. \A k \in DOMAIN old : old[k].own => old[k].frame \notin ToSet(f)
            BY DEF SpaceFrames, OwnFrames, old
        <3>2. CASE g \in DOMAIN old /\ h \in DOMAIN old
            BY <1>5, <2>1, <3>2 DEF SpaceOk, OwnDiffer, old
        <3>3. CASE g \in new /\ h \in new
            <4>1. PICK i \in 1 .. n, j \in 1 .. n : g = <<region, i>> /\ h = <<region, j>>
                BY <3>3
            <4>2. f[t + i] = f[t + j]
                BY <1>5, <2>1, <4>1
            <4>3. t + i = t + j
                BY <1>6, <4>2, Elements
            <4>4. i = j
                BY <1>2, <4>3
            <4> QED BY <4>1, <4>4
        <3>4. \A k \in new : pages[k].frame \in ToSet(f)
            BY <1>5, <1>6, <1>7
        <3> HIDE DEF pages, new
        <3> QED BY <1>5, <2>1, <3>1, <3>2, <3>3, <3>4
    <2>2. OwnDiffer(w)
        <3> HIDE DEF pages
        <3> QED BY <1>1, <2>1 DEF OwnDiffer
    <2> QED BY <1>3, <1>11, <1>14, <2>2 DEF SpaceOk, TablesDiffer
<1>16. \A g \in DOMAIN w.pages : (g[1] = region /\ w.pages[g].own) \/ (g \in DOMAIN old /\ w.pages[g] = old[g])
    <2> TAKE g \in DOMAIN w.pages
    <2>1. CASE g \in DOMAIN old
        BY <1>1, <1>5, <2>1
    <2>2. CASE g \in new
        <3>1. PICK i \in 1 .. n : g = <<region, i>>
            BY <2>2
        <3>2. g[1] = region /\ pages[g] = [frame |-> f[t + i], own |-> TRUE]
            BY <1>5, <3>1
        <3> HIDE DEF pages
        <3> QED BY <1>1, <3>2
    <2> QED BY <1>1, <1>5, <2>1, <2>2
<1> QED BY <1>13, <1>15, <1>16 DEF w, old

(* A region with frames of somebody else's: only its tables are the         *)
(* space's own.                                                             *)
LEMMA MappedGiven ==
    ASSUME NEW sp, SpaceOk(sp), NEW region \in Regions, NEW n \in Nat, NEW f \in Seq(Frames),
           Len(f) = TablesFor(sp, region), IsInjective(f), ToSet(f) \cap SpaceFrames(sp) = {},
           NEW given \in Seq(Frames), given # << >>, n <= Len(given)
    PROVE  LET w == WithPages(sp, region, n, given, f)
           IN  /\ SpaceOk(w) /\ SpaceFrames(w) = SpaceFrames(sp) \cup ToSet(f)
               /\ \A g \in DOMAIN w.pages :
                     \/ g \in DOMAIN sp.pages /\ w.pages[g] = sp.pages[g]
                     \/ g[1] = region /\ ~w.pages[g].own /\ \E i \in 1 .. n : g[2] = i /\ w.pages[g].frame = given[i]
<1> DEFINE t == TablesFor(sp, region)
           w == WithPages(sp, region, n, given, f)
           old == sp.pages
           new == {<<region, i>> : i \in 1 .. n}
           pages == [g \in DOMAIN old \cup new |->
                       IF g \in DOMAIN old THEN old[g] ELSE [frame |-> given[g[2]], own |-> FALSE]]
<1>1. w = [root |-> w.root, low |-> w.low, l2 |-> w.l2, l1 |-> w.l1, pages |-> w.pages] /\ w.pages = pages
    BY DEF WithPages
<1>2. t \in Nat /\ Len(f) \in Nat /\ Len(f) = t
    BY DEF TablesFor
<1>3. /\ w.root = sp.root /\ w.low = sp.low /\ w.l2 \in Frames
      /\ w.l1 = [r \in DOMAIN w.l1 |-> w.l1[r]] /\ DOMAIN w.l1 = DOMAIN sp.l1 \cup {region}
      /\ \A r \in DOMAIN w.l1 : w.l1[r] \in Frames
      /\ \A r, s \in DOMAIN w.l1 : w.l1[r] = w.l1[s] => r = s
      /\ \A r \in DOMAIN w.l1 : w.l1[r] \notin {w.root, w.low, w.l2}
      /\ w.l2 \notin {w.root, w.low}
      /\ TableFrames(w) = TableFrames(sp) \cup {f[k] : k \in 1 .. t}
    <2>1. Len(f) >= TablesFor(sp, region)
        BY <1>2
    <2>2. TablesAre(sp, region, f, WithPages(sp, region, n, given, f))
        BY <2>1, TablesMade
    <2> HIDE DEF w
    <2> QED BY <2>2, Zenon DEF TablesAre, t, w
<1>4. /\ sp.root \in Frames /\ sp.low \in Frames /\ \A r \in DOMAIN sp.l1 : r \in Regions
      /\ \A g \in DOMAIN old : /\ g \in Regions \X Nat /\ g[1] \in DOMAIN sp.l1
                               /\ old[g].frame \in Frames /\ (old[g].own => Owned(g[1]))
      /\ OwnFrames(sp) \cap TableFrames(sp) = {}
    BY DEF SpaceOk, WellFormed, TablesDiffer
<1>5. DOMAIN pages = DOMAIN old \cup new /\ \A g \in DOMAIN old : pages[g] = old[g]
    OBVIOUS
<1>6. {f[k] : k \in 1 .. t} = ToSet(f)
    BY <1>2, Elements
<1>7. \A i \in 1 .. n : given[i] \in Frames
    OBVIOUS
<1> HIDE DEF w, t, old
<1>8. ASSUME NEW g \in DOMAIN pages, g \notin DOMAIN old
      PROVE  /\ g \in Regions \X Nat /\ g[1] = region /\ pages[g].own = FALSE
             /\ \E i \in 1 .. n : g[2] = i /\ pages[g].frame = given[i]
    <2>1. PICK i \in 1 .. n : g = <<region, i>>
        BY <1>5, <1>8
    <2>2. pages[g] = [frame |-> given[i], own |-> FALSE]
        BY <1>8, <2>1
    <2> HIDE DEF pages
    <2> QED BY <2>1, <2>2
<1>9. \A g \in DOMAIN pages :
          /\ g \in Regions \X Nat /\ g[1] \in DOMAIN w.l1
          /\ pages[g].frame \in Frames /\ (pages[g].own => Owned(g[1]))
    <2> TAKE g \in DOMAIN pages
    <2>1. CASE g \in DOMAIN old
        BY <1>3, <1>4, <1>5, <2>1
    <2>2. CASE g \notin DOMAIN old
        <3>1. /\ g \in Regions \X Nat /\ g[1] = region /\ pages[g].own = FALSE
              /\ \E i \in 1 .. n : g[2] = i /\ pages[g].frame = given[i]
            BY <1>8, <2>2
        <3> HIDE DEF pages
        <3> QED BY <1>3, <1>7, <3>1
    <2> QED BY <2>1, <2>2
<1>10. WellFormed(w)
    <2>1. w.pages = [g \in DOMAIN w.pages |-> w.pages[g]]
        BY <1>1
    <2>2. w.root \in Frames /\ w.low \in Frames /\ w.l2 \in Nat /\ \A r \in DOMAIN w.l1 : r \in Regions
        BY <1>3, <1>4 DEF Frames
    <2> HIDE DEF pages
    <2> QED BY <1>1, <1>3, <1>9, <2>1, <2>2, Zenon DEF WellFormed
<1>11. OwnFrames(w) = OwnFrames(sp)
    <2>1. OwnFrames(w) = {pages[g].frame : g \in {h \in DOMAIN pages : pages[h].own}}
        BY <1>1 DEF OwnFrames
    <2>2. OwnFrames(sp) = {old[g].frame : g \in {h \in DOMAIN old : old[h].own}}
        BY DEF OwnFrames, old
    <2>3. {h \in DOMAIN pages : pages[h].own} = {h \in DOMAIN old : old[h].own}
        BY <1>5, <1>8
    <2>4. OwnFrames(w) = {pages[g].frame : g \in {h \in DOMAIN old : old[h].own}}
        BY <2>1, <2>3
    <2>5. \A g \in {h \in DOMAIN old : old[h].own} : pages[g].frame = old[g].frame
        BY <1>5
    <2> HIDE DEF pages
    <2> QED BY <2>2, <2>4, <2>5
<1>12. SpaceFrames(w) = SpaceFrames(sp) \cup ToSet(f)
    BY <1>3, <1>6, <1>11 DEF SpaceFrames
<1>13. OwnFrames(w) \cap TableFrames(w) = {}
    BY <1>3, <1>4, <1>6, <1>11 DEF SpaceFrames
<1>14. SpaceOk(w)
    <2>1. \A g \in DOMAIN pages : pages[g].own => g \in DOMAIN old /\ pages[g] = old[g]
        BY <1>5, <1>8
    <2> HIDE DEF pages
    <2>2. OwnDiffer(w)
        BY <1>1, <2>1 DEF SpaceOk, OwnDiffer, old
    <2> QED BY <1>3, <1>10, <1>13, <2>2 DEF SpaceOk, TablesDiffer
<1>15. \A g \in DOMAIN w.pages : \/ g \in DOMAIN old /\ w.pages[g] = old[g]
                                 \/ g[1] = region /\ ~w.pages[g].own /\ \E i \in 1 .. n : g[2] = i /\ w.pages[g].frame = given[i]
    <2> HIDE DEF pages
    <2> QED BY <1>1, <1>5, <1>8
<1> QED BY <1>12, <1>14, <1>15 DEF w, old

(* clone_active_cr3 makes a space of two tables, or nothing.                *)
LEMMA Cloned ==
    ASSUME NEW p \in Pools
    PROVE  LET c == CloneActiveCr3(p)
           IN  \/ c.ok = FALSE /\ Grown(p, c.pool, {})
               \/ /\ c.ok = TRUE /\ SpaceOk(c.space) /\ Grown(p, c.pool, SpaceFrames(c.space))
                  /\ DOMAIN c.space.pages = {}
<1> DEFINE got == Take(p, 2)
           new == [root |-> got.frames[1], low |-> got.frames[2], l2 |-> 0, l1 |-> << >>, pages |-> << >>]
<1>1. CloneActiveCr3(p) = IF Len(got.frames) < 2
                          THEN [ok |-> FALSE, pool |-> Release(got.pool, ToSet(got.frames)), space |-> NoSpace]
                          ELSE [ok |-> TRUE, pool |-> got.pool, space |-> new]
    BY Zenon DEF CloneActiveCr3
<1>2. Handed(p, 2, got)
    BY Taken
<1> HIDE DEF got
<1>3. /\ got.frames \in Seq(Frames) /\ Len(got.frames) <= 2 /\ IsInjective(got.frames)
      /\ Grown(p, got.pool, ToSet(got.frames)) /\ Len(got.frames) \in Nat
    BY <1>2, HandFacts DEF Handed
<1>4. CASE Len(got.frames) < 2
    <2>1. Grown(p, Release(got.pool, ToSet(got.frames)), {})
        BY <1>3, GrownBack
    <2> QED BY <1>1, <1>4, <2>1
<1>5. CASE Len(got.frames) = 2
    <2>1. PICK f \in Seq(Frames) : f = got.frames
        BY <1>3
    <2>2. f[1] \in Frames /\ f[2] \in Frames /\ Len(f) = 2
        BY <1>5, <2>1
    <2>3. ToSet(f) = {f[1], f[2]}
        BY <2>2, Elements
    <2>4. new.root = f[1] /\ new.low = f[2] /\ new.l2 = 0 /\ new.l1 = << >> /\ new.pages = << >>
        BY <2>1
    <2>5. new = [root |-> new.root, low |-> new.low, l2 |-> new.l2, l1 |-> new.l1, pages |-> new.pages]
        OBVIOUS
    <2> HIDE DEF new
    <2>6. DOMAIN new.l1 = {} /\ DOMAIN new.pages = {}
        BY <2>4
    <2>7. new.l1 = [r \in DOMAIN new.l1 |-> new.l1[r]] /\ new.pages = [r \in DOMAIN new.pages |-> new.pages[r]]
        <3>1. << >> = [r \in DOMAIN << >> |-> << >>[r]]
            OBVIOUS
        <3> QED BY <2>4, <3>1
    <2>8. WellFormed(new)
        BY <2>2, <2>4, <2>5, <2>6, <2>7 DEF WellFormed
    <2>9. OwnFrames(new) = {} /\ TableFrames(new) = {f[1], f[2]}
        BY <2>4, <2>6 DEF OwnFrames, TableFrames
    <2>10. 0 \notin {f[1], f[2]}
        BY <2>2 DEF Frames
    <2>11. SpaceOk(new) /\ SpaceFrames(new) = ToSet(f)
        BY <2>3, <2>4, <2>6, <2>8, <2>9, <2>10 DEF SpaceOk, TablesDiffer, OwnDiffer, SpaceFrames
    <2>12. CloneActiveCr3(p) = [ok |-> TRUE, pool |-> got.pool, space |-> new]
        BY <1>1, <1>5
    <2>13. Grown(p, got.pool, SpaceFrames(new))
        BY <1>3, <2>1, <2>11
    <2> DEFINE c == CloneActiveCr3(p)
    <2>14. c.ok = TRUE /\ c.pool = got.pool /\ c.space = new
        BY <2>12
    <2> HIDE DEF c
    <2>15. SpaceOk(c.space) /\ Grown(p, c.pool, SpaceFrames(c.space)) /\ DOMAIN c.space.pages = {}
        BY <2>6, <2>11, <2>13, <2>14
    <2> QED BY <2>14, <2>15 DEF c
<1>6. \A k \in Nat : k <= 2 => k < 2 \/ k = 2
    OBVIOUS
<1>7. Len(got.frames) < 2 \/ Len(got.frames) = 2
    BY <1>3, <1>6, Zenon
<1> QED BY <1>4, <1>5, <1>7, Zenon

(* A region of the space's own frames, or the space as it was.              *)
OwnMade(p, sp, region, m) ==
    \/ m.ok = FALSE /\ m.space = sp /\ Grown(p, m.pool, {})
    \/ /\ m.ok = TRUE /\ SpaceOk(m.space)
       /\ \E F : Grown(p, m.pool, F) /\ SpaceFrames(m.space) = SpaceFrames(sp) \cup F
       /\ \A g \in DOMAIN m.space.pages :
             (g[1] = region /\ m.space.pages[g].own) \/ (g \in DOMAIN sp.pages /\ m.space.pages[g] = sp.pages[g])

LEMMA OwnRegion ==
    ASSUME NEW p \in Pools, NEW sp, SpaceOk(sp), SpaceFrames(sp) \subseteq p.allocated,
           NEW region \in Regions, Owned(region), NEW n \in Nat, \A g \in DOMAIN sp.pages : g[1] # region
    PROVE  OwnMade(p, sp, region, MapRegion(p, sp, region, n, << >>))
<1> DEFINE m == MapRegion(p, sp, region, n, << >>)
<1>1. \/ ~m.ok /\ m.space = sp /\ Grown(p, m.pool, {})
      \/ m.ok /\ \E f \in Seq(Frames) : /\ Len(f) = TablesFor(sp, region) + n /\ IsInjective(f)
                                       /\ Grown(p, m.pool, ToSet(f))
                                       /\ m.space = WithPages(sp, region, n, << >>, f)
    BY MapResult
<1>2. m.ok \in BOOLEAN
    BY DEF MapRegion
<1> HIDE DEF m
<1>3. CASE ~m.ok /\ m.space = sp /\ Grown(p, m.pool, {})
    BY <1>2, <1>3 DEF m, OwnMade
<1>4. CASE m.ok /\ \E f \in Seq(Frames) : /\ Len(f) = TablesFor(sp, region) + n /\ IsInjective(f)
                                         /\ Grown(p, m.pool, ToSet(f))
                                         /\ m.space = WithPages(sp, region, n, << >>, f)
    <2>1. PICK f \in Seq(Frames) : /\ Len(f) = TablesFor(sp, region) + n /\ IsInjective(f)
                                   /\ Grown(p, m.pool, ToSet(f))
                                   /\ m.space = WithPages(sp, region, n, << >>, f)
        BY <1>4
    <2>2. ToSet(f) \cap SpaceFrames(sp) = {}
        BY <2>1 DEF Grown
    <2>3. /\ SpaceOk(m.space) /\ SpaceFrames(m.space) = SpaceFrames(sp) \cup ToSet(f)
          /\ \A g \in DOMAIN m.space.pages : (g[1] = region /\ m.space.pages[g].own) \/ (g \in DOMAIN sp.pages /\ m.space.pages[g] = sp.pages[g])
        BY <2>1, <2>2, MappedOwn
    <2> QED BY <1>2, <1>4, <2>1, <2>3 DEF m, OwnMade
<1> QED BY <1>1, <1>3, <1>4

(* A region of frames that belong to another record: m is the result of     *)
(* mapping it.                                                              *)
GivenMade(p, sp, region, n, given, m) ==
    \/ m.ok = FALSE /\ m.space = sp /\ Grown(p, m.pool, {})
    \/ /\ m.ok = TRUE /\ SpaceOk(m.space)
       /\ \E F : Grown(p, m.pool, F) /\ SpaceFrames(m.space) = SpaceFrames(sp) \cup F
       /\ \A g \in DOMAIN m.space.pages :
             \/ g \in DOMAIN sp.pages /\ m.space.pages[g] = sp.pages[g]
             \/ g[1] = region /\ ~m.space.pages[g].own /\ \E i \in 1 .. n : g[2] = i /\ m.space.pages[g].frame = given[i]

LEMMA GivenRegion ==
    ASSUME NEW p \in Pools, NEW sp, SpaceOk(sp), SpaceFrames(sp) \subseteq p.allocated,
           NEW region \in Regions, NEW n \in Nat,
           NEW given \in Seq(Frames), given # << >>, n <= Len(given)
    PROVE  GivenMade(p, sp, region, n, given, MapRegion(p, sp, region, n, given))
<1> DEFINE m == MapRegion(p, sp, region, n, given)
<1>1. \/ ~m.ok /\ m.space = sp /\ Grown(p, m.pool, {})
      \/ m.ok /\ \E f \in Seq(Frames) : /\ Len(f) = TablesFor(sp, region) + 0 /\ IsInjective(f)
                                       /\ Grown(p, m.pool, ToSet(f))
                                       /\ m.space = WithPages(sp, region, n, given, f)
    BY MapResult
<1>2. m.ok \in BOOLEAN
    BY DEF MapRegion
<1> HIDE DEF m
<1>3. CASE ~m.ok /\ m.space = sp /\ Grown(p, m.pool, {})
    BY <1>2, <1>3 DEF m, GivenMade
<1>4. CASE m.ok /\ \E f \in Seq(Frames) : /\ Len(f) = TablesFor(sp, region) + 0 /\ IsInjective(f)
                                         /\ Grown(p, m.pool, ToSet(f))
                                         /\ m.space = WithPages(sp, region, n, given, f)
    <2>1. PICK f \in Seq(Frames) : /\ Len(f) = TablesFor(sp, region) + 0 /\ IsInjective(f)
                                   /\ Grown(p, m.pool, ToSet(f))
                                   /\ m.space = WithPages(sp, region, n, given, f)
        BY <1>4
    <2>2. ToSet(f) \cap SpaceFrames(sp) = {}
        BY <2>1 DEF Grown
    <2>3. Len(f) = TablesFor(sp, region)
        BY <2>1 DEF TablesFor
    <2>4. /\ SpaceOk(m.space) /\ SpaceFrames(m.space) = SpaceFrames(sp) \cup ToSet(f)
          /\ \A g \in DOMAIN m.space.pages :
                \/ g \in DOMAIN sp.pages /\ m.space.pages[g] = sp.pages[g]
                \/ g[1] = region /\ ~m.space.pages[g].own /\ \E i \in 1 .. n : g[2] = i /\ m.space.pages[g].frame = given[i]
        BY <2>1, <2>2, <2>3, MappedGiven
    <2> QED BY <1>2, <1>4, <2>1, <2>4 DEF m, GivenMade
<1> QED BY <1>1, <1>3, <1>4

(* Pages that are not the space's own are taken out of it.                  *)
LEMMA PagesTaken ==
    ASSUME NEW sp, SpaceOk(sp), NEW rest \in SUBSET DOMAIN sp.pages,
           \A g \in DOMAIN sp.pages : sp.pages[g].own => g \in rest
    PROVE  LET mid == [sp EXCEPT !.pages = Restrict(@, rest)]
           IN  /\ SpaceOk(mid) /\ SpaceFrames(mid) = SpaceFrames(sp) /\ mid.l1 = sp.l1
               /\ DOMAIN mid.pages = rest /\ \A g \in rest : mid.pages[g] = sp.pages[g]
<1> DEFINE pages == Restrict(sp.pages, rest)
           mid == [sp EXCEPT !.pages = Restrict(@, rest)]
<1>1. /\ sp = [root |-> sp.root, low |-> sp.low, l2 |-> sp.l2, l1 |-> sp.l1, pages |-> sp.pages]
      /\ sp.root \in Frames /\ sp.low \in Frames /\ sp.l2 \in Nat
      /\ sp.l1 = [r \in DOMAIN sp.l1 |-> sp.l1[r]] /\ \A r \in DOMAIN sp.l1 : r \in Regions /\ sp.l1[r] \in Frames
      /\ \A g \in DOMAIN sp.pages :
          /\ g \in Regions \X Nat /\ g[1] \in DOMAIN sp.l1
          /\ sp.pages[g].frame \in Frames /\ (sp.pages[g].own => Owned(g[1]))
    BY DEF SpaceOk, WellFormed
<1>2. /\ mid.root = sp.root /\ mid.low = sp.low /\ mid.l2 = sp.l2 /\ mid.l1 = sp.l1 /\ mid.pages = pages
      /\ mid = [root |-> mid.root, low |-> mid.low, l2 |-> mid.l2, l1 |-> mid.l1, pages |-> mid.pages]
    BY <1>1
<1>3. /\ DOMAIN pages = rest /\ pages = [r \in DOMAIN pages |-> pages[r]]
      /\ \A g \in rest : pages[g] = sp.pages[g]
    BY DEF Restrict
<1> HIDE DEF mid, pages
<1>4. WellFormed(mid)
    <2>1. \A g \in DOMAIN mid.pages :
             /\ g \in Regions \X Nat /\ g[1] \in DOMAIN mid.l1
             /\ mid.pages[g].frame \in Frames /\ (mid.pages[g].own => Owned(g[1]))
        BY <1>1, <1>2, <1>3
    <2>2. mid.pages = [g \in DOMAIN mid.pages |-> mid.pages[g]]
        BY <1>2, <1>3
    <2>3. mid.root \in Frames /\ mid.low \in Frames /\ mid.l2 \in Nat
        BY <1>1, <1>2
    <2>4. mid.l1 = [r \in DOMAIN mid.l1 |-> mid.l1[r]] /\ \A r \in DOMAIN mid.l1 : r \in Regions /\ mid.l1[r] \in Frames
        BY <1>1, <1>2
    <2> QED BY <1>2, <2>1, <2>2, <2>3, <2>4, Zenon DEF WellFormed
<1>5. OwnFrames(mid) = OwnFrames(sp)
    <2>1. OwnFrames(mid) = {pages[g].frame : g \in {h \in DOMAIN pages : pages[h].own}}
        BY <1>2 DEF OwnFrames
    <2>2. OwnFrames(sp) = {sp.pages[g].frame : g \in {h \in DOMAIN sp.pages : sp.pages[h].own}}
        BY DEF OwnFrames
    <2>3. {h \in DOMAIN pages : pages[h].own} = {h \in DOMAIN sp.pages : sp.pages[h].own}
        BY <1>3
    <2>4. \A g \in {h \in DOMAIN pages : pages[h].own} : pages[g].frame = sp.pages[g].frame
        BY <1>3
    <2> QED BY <2>1, <2>2, <2>3, <2>4
<1>6. TableFrames(mid) = TableFrames(sp)
    BY <1>2 DEF TableFrames
<1>7. TablesDiffer(mid)
    BY <1>2, <1>5, <1>6 DEF SpaceOk, TablesDiffer
<1>8. OwnDiffer(mid)
    BY <1>2, <1>3 DEF SpaceOk, OwnDiffer
<1> QED BY <1>2, <1>3, <1>4, <1>5, <1>6, <1>7, <1>8 DEF SpaceOk, SpaceFrames, mid

(* prune_empty_user_tables: the tables that are empty are free.             *)
LEMMA Pruned ==
    ASSUME NEW p \in Pools, NEW sp, SpaceOk(sp), SpaceFrames(sp) \subseteq p.allocated,
           NEW region \in DOMAIN sp.l1, \A g \in DOMAIN sp.pages : g[1] # region
    PROVE  LET u == Prune(p, sp, region)
           IN  /\ u.pool \in Pools /\ SpaceOk(u.space) /\ u.space.pages = sp.pages
               /\ \E F \in SUBSET Nat : /\ u.pool.allocated = p.allocated \ F
                                        /\ SpaceFrames(u.space) = SpaceFrames(sp) \ F /\ F \cap p.allocated \subseteq SpaceFrames(sp)
<1> DEFINE u == Prune(p, sp, region)
           left == Restrict(sp.l1, DOMAIN sp.l1 \ {region})
           freed == {sp.l1[region]} \cup (IF left = << >> THEN {sp.l2} ELSE {})
           w == [root |-> sp.root, low |-> sp.low, l2 |-> IF left = << >> THEN 0 ELSE sp.l2, l1 |-> left, pages |-> sp.pages]
<1>1. /\ sp.root \in Frames /\ sp.low \in Frames /\ sp.l2 \in Nat
      /\ \A r \in DOMAIN sp.l1 : r \in Regions /\ sp.l1[r] \in Frames
      /\ sp.pages = [g \in DOMAIN sp.pages |-> sp.pages[g]]
      /\ \A g \in DOMAIN sp.pages :
          /\ g \in Regions \X Nat /\ g[1] \in DOMAIN sp.l1
          /\ sp.pages[g].frame \in Frames /\ (sp.pages[g].own => Owned(g[1]))
    BY DEF SpaceOk, WellFormed
<1>2. /\ \A r, s \in DOMAIN sp.l1 : sp.l1[r] = sp.l1[s] => r = s
      /\ \A r \in DOMAIN sp.l1 : sp.l1[r] \notin {sp.root, sp.low, sp.l2}
      /\ sp.l2 \notin {sp.root, sp.low}
      /\ OwnFrames(sp) \cap TableFrames(sp) = {}
    BY DEF SpaceOk, TablesDiffer
<1>3. u.pool = Release(p, freed) /\ u.space = w
    BY DEF Prune
<1>4. /\ DOMAIN left = DOMAIN sp.l1 \ {region} /\ left = [r \in DOMAIN left |-> left[r]]
      /\ \A r \in DOMAIN left : left[r] = sp.l1[r]
    BY DEF Restrict
<1>5. left = << >> => DOMAIN left = {}
    OBVIOUS
<1>6. /\ w.root = sp.root /\ w.low = sp.low /\ w.l2 = (IF left = << >> THEN 0 ELSE sp.l2) /\ w.l1 = left /\ w.pages = sp.pages
      /\ w = [root |-> w.root, low |-> w.low, l2 |-> w.l2, l1 |-> w.l1, pages |-> w.pages]
    OBVIOUS
<1> HIDE DEF w, left, u
<1>7. WellFormed(w)
    <2>1. w.root \in Frames /\ w.low \in Frames /\ w.l2 \in Nat
        BY <1>1, <1>6
    <2>2. \A r \in DOMAIN w.l1 : r \in Regions /\ w.l1[r] \in Frames
        BY <1>1, <1>4, <1>6
    <2>3. w.l1 = [r \in DOMAIN w.l1 |-> w.l1[r]] /\ w.pages = [r \in DOMAIN w.pages |-> w.pages[r]]
        BY <1>1, <1>4, <1>6
    <2>4. \A g \in DOMAIN w.pages :
             /\ g \in Regions \X Nat /\ g[1] \in DOMAIN w.l1
             /\ w.pages[g].frame \in Frames /\ (w.pages[g].own => Owned(g[1]))
        BY <1>1, <1>4, <1>6
    <2> QED BY <1>6, <2>1, <2>2, <2>3, <2>4, Zenon DEF WellFormed
<1>8. OwnFrames(w) = OwnFrames(sp) /\ OwnDiffer(w)
    BY <1>6 DEF OwnFrames, SpaceOk, OwnDiffer
<1>9. TableFrames(w) = TableFrames(sp) \ freed
    <2>1. TableFrames(w) = {sp.root, sp.low} \cup {left[r] : r \in DOMAIN left} \cup ({w.l2} \ {0})
        BY <1>6 DEF TableFrames
    <2>2. TableFrames(sp) = {sp.root, sp.low} \cup {sp.l1[r] : r \in DOMAIN sp.l1} \cup ({sp.l2} \ {0})
        BY DEF TableFrames
    <2>3. {left[r] : r \in DOMAIN left} = {sp.l1[r] : r \in DOMAIN sp.l1} \ {sp.l1[region]}
        BY <1>2, <1>4
    <2>4. sp.root \notin freed /\ sp.low \notin freed
        BY <1>2
    <2>5. \A r \in DOMAIN left : left[r] # sp.l2
        BY <1>2, <1>4
    <2>6. {w.l2} \ {0} = ({sp.l2} \ {0}) \ freed
        BY <1>2, <1>6
    <2>7. sp.l2 \notin {sp.l1[r] : r \in DOMAIN sp.l1}
        BY <1>2
    <2>8. {left[r] : r \in DOMAIN left} = {sp.l1[r] : r \in DOMAIN sp.l1} \ freed
        BY <2>3, <2>7
    <2> HIDE DEF freed
    <2>9. PICK A, B, C : A = {sp.root, sp.low} /\ B = {sp.l1[r] : r \in DOMAIN sp.l1} /\ C = {sp.l2} \ {0}
        OBVIOUS
    <2>10. A = A \ freed
        BY <2>4, <2>9
    <2> QED BY <2>1, <2>2, <2>6, <2>8, <2>9, <2>10
<1>10. freed \in SUBSET Nat /\ freed \subseteq TableFrames(sp) \cup {0}
    BY <1>1 DEF TableFrames, Frames
<1>11. 0 \notin p.allocated
    BY PoolFacts DEF Frames
<1>12. freed \cap p.allocated \subseteq TableFrames(sp)
    BY <1>10, <1>11
<1>13. freed \cap OwnFrames(sp) = {}
    BY <1>2, <1>12 DEF SpaceFrames
<1>14. SpaceFrames(w) = SpaceFrames(sp) \ freed
    BY <1>8, <1>9, <1>13 DEF SpaceFrames
<1>15. OwnFrames(w) \cap TableFrames(w) = {}
    BY <1>2, <1>8, <1>9
<1>16. SpaceOk(w)
    <2>1. /\ \A r, s \in DOMAIN w.l1 : w.l1[r] = w.l1[s] => r = s
          /\ \A r \in DOMAIN w.l1 : w.l1[r] \notin {w.root, w.low, w.l2}
        BY <1>1, <1>2, <1>4, <1>6 DEF Frames
    <2>2. w.l2 \notin {w.root, w.low}
        BY <1>1, <1>2, <1>6 DEF Frames
    <2> QED BY <1>7, <1>8, <1>15, <2>1, <2>2 DEF SpaceOk, TablesDiffer
<1> HIDE DEF freed
<1>17. u.pool \in Pools /\ u.pool.allocated = p.allocated \ freed
    BY <1>3, Released
<1>18. \E F \in SUBSET Nat : /\ u.pool.allocated = p.allocated \ F
                            /\ SpaceFrames(u.space) = SpaceFrames(sp) \ F /\ F \cap p.allocated \subseteq SpaceFrames(sp)
    BY <1>3, <1>10, <1>12, <1>14, <1>17 DEF SpaceFrames
<1> QED BY <1>3, <1>6, <1>16, <1>17, <1>18 DEF u

(* The first n pages of a region are unmapped: they are gone, and the       *)
(* tables that are empty then are free.                                     *)
UnmapMade(p, sp, region, n, u) ==
    /\ u.pool \in Pools /\ SpaceOk(u.space)
    /\ \E F \in SUBSET Nat : /\ u.pool.allocated = p.allocated \ F
                             /\ SpaceFrames(u.space) = SpaceFrames(sp) \ F /\ F \cap p.allocated \subseteq SpaceFrames(sp)
    /\ \A g \in DOMAIN u.space.pages :
          /\ g \in DOMAIN sp.pages /\ u.space.pages[g] = sp.pages[g]
          /\ g[1] # region \/ g[2] \notin 1 .. n

LEMMA Unmapped ==
    ASSUME NEW p \in Pools, NEW sp, SpaceOk(sp), SpaceFrames(sp) \subseteq p.allocated,
           NEW region \in Regions, ~Owned(region), NEW n
    PROVE  UnmapMade(p, sp, region, n, UnmapRegion(p, sp, region, n))
<1> DEFINE rest == {g \in DOMAIN sp.pages : g[1] # region \/ g[2] \notin 1 .. n}
           mid == [sp EXCEPT !.pages = Restrict(@, rest)]
           u == UnmapRegion(p, sp, region, n)
<1>1. u = IF region \in DOMAIN sp.l1 /\ \A g \in rest : g[1] # region THEN Prune(p, mid, region)
          ELSE [pool |-> p, space |-> mid]
    BY Zenon DEF UnmapRegion
<1>2. \A g \in DOMAIN sp.pages : sp.pages[g].own => g \in rest
    BY DEF SpaceOk, WellFormed
<1>3. /\ SpaceOk(mid) /\ SpaceFrames(mid) = SpaceFrames(sp) /\ mid.l1 = sp.l1
      /\ DOMAIN mid.pages = rest /\ \A g \in rest : mid.pages[g] = sp.pages[g]
    <2>1. PICK r \in SUBSET DOMAIN sp.pages : r = rest
        OBVIOUS
    <2> HIDE DEF rest
    <2>2. \A g \in DOMAIN sp.pages : sp.pages[g].own => g \in r
        BY <1>2, <2>1
    <2> QED BY <2>1, <2>2, PagesTaken
<1>4. \A g \in rest : g \in DOMAIN sp.pages /\ (g[1] # region \/ g[2] \notin 1 .. n)
    OBVIOUS
<1> HIDE DEF mid, u, rest
<1>5. CASE region \in DOMAIN sp.l1 /\ \A g \in rest : g[1] # region
    <2>1. u = Prune(p, mid, region)
        BY <1>1, <1>5
    <2>2. region \in DOMAIN mid.l1 /\ (\A g \in DOMAIN mid.pages : g[1] # region) /\ SpaceFrames(mid) \subseteq p.allocated
        BY <1>3, <1>5
    <2>3. /\ u.pool \in Pools /\ SpaceOk(u.space) /\ u.space.pages = mid.pages
          /\ \E F \in SUBSET Nat : /\ u.pool.allocated = p.allocated \ F
                                   /\ SpaceFrames(u.space) = SpaceFrames(mid) \ F /\ F \cap p.allocated \subseteq SpaceFrames(mid)
        <3>1. PICK x : x = mid
            OBVIOUS
        <3>2. PICK r \in DOMAIN x.l1 : r = region
            BY <2>2, <3>1
        <3>3. SpaceOk(x) /\ SpaceFrames(x) \subseteq p.allocated /\ \A g \in DOMAIN x.pages : g[1] # r
            BY <1>3, <2>2, <3>1, <3>2
        <3> QED BY <2>1, <3>1, <3>2, <3>3, Pruned
    <2> QED BY <1>3, <1>4, <2>3 DEF UnmapMade, u
<1>6. CASE ~(region \in DOMAIN sp.l1 /\ \A g \in rest : g[1] # region)
    <2>1. u.pool = p /\ u.space = mid
        BY <1>1, <1>6
    <2>2. p.allocated = p.allocated \ {} /\ SpaceFrames(mid) = SpaceFrames(sp) \ {} /\ {} \in SUBSET Nat
        BY <1>3
    <2>3. \E F \in SUBSET Nat : /\ u.pool.allocated = p.allocated \ F
                               /\ SpaceFrames(u.space) = SpaceFrames(sp) \ F /\ F \cap p.allocated \subseteq SpaceFrames(sp)
        BY <2>1, <2>2
    <2> QED BY <1>3, <1>4, <2>1, <2>3 DEF UnmapMade, u
<1> QED BY <1>5, <1>6

(* update_flags: the pages stay, and those that were the space's own and    *)
(* are not any more are the only ones that show the frames it lost.         *)
LEMMA DisownedFacts ==
    ASSUME NEW sp, SpaceOk(sp), NEW region, NEW n
    PROVE  LET w == Disowned(sp, region, n)
               lost == OwnFrames(sp) \ OwnFrames(w)
           IN  /\ SpaceOk(w) /\ SpaceFrames(w) = SpaceFrames(sp) \ lost
               /\ DOMAIN w.pages = DOMAIN sp.pages
               /\ \A g \in DOMAIN sp.pages : w.pages[g].frame = sp.pages[g].frame
               /\ \A g \in DOMAIN sp.pages : sp.pages[g].own => w.pages[g].own \/ sp.pages[g].frame \in lost
<1> DEFINE w == Disowned(sp, region, n)
           pages == [g \in DOMAIN sp.pages |->
                       [frame |-> sp.pages[g].frame, own |-> sp.pages[g].own /\ (g[1] # region \/ g[2] \notin 1 .. n)]]
           lost == OwnFrames(sp) \ OwnFrames(w)
<1>1. /\ sp = [root |-> sp.root, low |-> sp.low, l2 |-> sp.l2, l1 |-> sp.l1, pages |-> sp.pages]
      /\ sp.root \in Frames /\ sp.low \in Frames /\ sp.l2 \in Nat
      /\ sp.l1 = [r \in DOMAIN sp.l1 |-> sp.l1[r]] /\ \A r \in DOMAIN sp.l1 : r \in Regions /\ sp.l1[r] \in Frames
      /\ \A g \in DOMAIN sp.pages :
          /\ g \in Regions \X Nat /\ g[1] \in DOMAIN sp.l1
          /\ sp.pages[g].frame \in Frames /\ (sp.pages[g].own => Owned(g[1]))
    BY DEF SpaceOk, WellFormed
<1>2. w = [sp EXCEPT !.pages = pages]
    BY DEF Disowned
<1>3. /\ DOMAIN pages = DOMAIN sp.pages /\ pages = [g \in DOMAIN pages |-> pages[g]]
      /\ \A g \in DOMAIN sp.pages : pages[g].frame = sp.pages[g].frame
    OBVIOUS
<1>4. \A g \in DOMAIN sp.pages : pages[g].own <=> sp.pages[g].own /\ (g[1] # region \/ g[2] \notin 1 .. n)
    BY Zenon
<1> HIDE DEF pages, w
<1>5. /\ w.root = sp.root /\ w.low = sp.low /\ w.l2 = sp.l2 /\ w.l1 = sp.l1 /\ w.pages = pages
      /\ w = [root |-> w.root, low |-> w.low, l2 |-> w.l2, l1 |-> w.l1, pages |-> w.pages]
    BY <1>1, <1>2
<1>6. \A g \in DOMAIN sp.pages : w.pages[g].frame = sp.pages[g].frame /\ (w.pages[g].own => sp.pages[g].own)
    BY <1>3, <1>4, <1>5
<1>7. DOMAIN w.pages = DOMAIN sp.pages /\ w.pages = [g \in DOMAIN w.pages |-> w.pages[g]]
    BY <1>3, <1>5
<1>8. WellFormed(w)
    <2>1. \A g \in DOMAIN w.pages :
             /\ g \in Regions \X Nat /\ g[1] \in DOMAIN w.l1
             /\ w.pages[g].frame \in Frames /\ (w.pages[g].own => Owned(g[1]))
        BY <1>1, <1>5, <1>6, <1>7
    <2>2. w.root \in Frames /\ w.low \in Frames /\ w.l2 \in Nat
        BY <1>1, <1>5
    <2>3. w.l1 = [r \in DOMAIN w.l1 |-> w.l1[r]] /\ \A r \in DOMAIN w.l1 : r \in Regions /\ w.l1[r] \in Frames
        BY <1>1, <1>5
    <2> QED BY <1>5, <1>7, <2>1, <2>2, <2>3, Zenon DEF WellFormed
<1>9. /\ \A x : x \in OwnFrames(w) <=> \E g \in DOMAIN sp.pages : w.pages[g].own /\ w.pages[g].frame = x
      /\ \A x : x \in OwnFrames(sp) <=> \E g \in DOMAIN sp.pages : sp.pages[g].own /\ sp.pages[g].frame = x
    BY <1>7 DEF OwnFrames
<1>10. OwnFrames(w) \subseteq OwnFrames(sp)
    BY <1>6, <1>9
<1>11. TableFrames(w) = TableFrames(sp)
    BY <1>5 DEF TableFrames
<1>12. TablesDiffer(w) /\ OwnFrames(sp) \cap TableFrames(sp) = {}
    BY <1>5, <1>10, <1>11 DEF SpaceOk, TablesDiffer
<1>13. OwnDiffer(w) /\ OwnDiffer(sp)
    BY <1>6, <1>7 DEF SpaceOk, OwnDiffer
<1>14. SpaceFrames(w) = SpaceFrames(sp) \ lost
    BY <1>10, <1>11, <1>12 DEF SpaceFrames
<1>15. ASSUME NEW g \in DOMAIN sp.pages, sp.pages[g].own, ~w.pages[g].own
       PROVE  sp.pages[g].frame \in lost
    <2>1. sp.pages[g].frame \in OwnFrames(sp)
        BY <1>9, <1>15
    <2>2. ASSUME NEW h \in DOMAIN sp.pages, w.pages[h].own, w.pages[h].frame = sp.pages[g].frame
          PROVE  FALSE
        <3>1. sp.pages[h].own /\ sp.pages[h].frame = sp.pages[g].frame
            BY <1>6, <2>2
        <3>2. h = g
            BY <1>13, <1>15, <3>1 DEF OwnDiffer
        <3> QED BY <1>15, <2>2, <3>2
    <2> QED BY <1>9, <2>1, <2>2
<1> QED BY <1>6, <1>7, <1>8, <1>12, <1>13, <1>14, <1>15 DEF SpaceOk, w

-----------------------------------------------------------------------------
(* Claims *)

LEMMA OwnerSwapped ==
    ASSUME NEW A, NEW C, OneOwner(A, C), NEW c \in C, NEW d, d[3] \cap (A \ c[3]) = {}
    PROVE  OneOwner((A \ c[3]) \cup d[3], (C \ {c}) \cup {d})
<1>1. A = UNION {e[3] : e \in C} /\ \A e, f \in C : e # f => e[3] \cap f[3] = {}
    BY DEF OneOwner
<1> DEFINE D == (C \ {c}) \cup {d}
<1>2. \A e \in C \ {c} : e[3] \subseteq A \ c[3]
    BY <1>1
<1>3. \A e, f \in D : e # f => e[3] \cap f[3] = {}
    BY <1>1, <1>2
<1>4. \A x : x \in A \ c[3] => \E e \in C \ {c} : x \in e[3]
    BY <1>1
<1>5. \A x : x \in UNION {e[3] : e \in D} <=> \E e \in D : x \in e[3]
    OBVIOUS
<1>6. \A x : x \in UNION {e[3] : e \in D} <=> x \in (A \ c[3]) \cup d[3]
    BY <1>2, <1>4, <1>5
<1>7. (A \ c[3]) \cup d[3] = UNION {e[3] : e \in D}
    BY <1>6
<1> HIDE DEF D
<1> QED BY <1>3, <1>7 DEF OneOwner, D

LEMMA OwnerAdded ==
    ASSUME NEW A, NEW C, OneOwner(A, C), NEW d, d[3] \cap A = {}
    PROVE  OneOwner(A \cup d[3], C \cup {d})
<1>1. A = UNION {e[3] : e \in C} /\ \A e, f \in C : e # f => e[3] \cap f[3] = {}
    BY DEF OneOwner
<1> DEFINE D == C \cup {d}
<1>2. \A e \in C : e[3] \subseteq A
    BY <1>1
<1>3. \A e, f \in D : e # f => e[3] \cap f[3] = {}
    BY <1>1, <1>2
<1>4. \A x : x \in A => \E e \in C : x \in e[3]
    BY <1>1
<1>5. \A x : x \in UNION {e[3] : e \in D} <=> \E e \in D : x \in e[3]
    OBVIOUS
<1>6. \A x : x \in UNION {e[3] : e \in D} <=> x \in A \cup d[3]
    BY <1>2, <1>4, <1>5
<1>7. A \cup d[3] = UNION {e[3] : e \in D}
    BY <1>6
<1> HIDE DEF D
<1> QED BY <1>3, <1>7 DEF OneOwner, D

LEMMA OwnerDropped ==
    ASSUME NEW A, NEW C, OneOwner(A, C), NEW c \in C
    PROVE  OneOwner(A \ c[3], C \ {c})
<1>1. A = UNION {e[3] : e \in C} /\ \A e, f \in C : e # f => e[3] \cap f[3] = {}
    BY DEF OneOwner
<1> DEFINE D == C \ {c}
<1>2. \A e \in D : e[3] \subseteq A \ c[3]
    BY <1>1
<1>4. \A x : x \in A \ c[3] => \E e \in D : x \in e[3]
    BY <1>1
<1>5. \A x : x \in UNION {e[3] : e \in D} <=> \E e \in D : x \in e[3]
    OBVIOUS
<1>7. A \ c[3] = UNION {e[3] : e \in D}
    BY <1>2, <1>4, <1>5
<1>8. \A e, f \in D : e # f => e[3] \cap f[3] = {}
    BY <1>1
<1> HIDE DEF D
<1> QED BY <1>7, <1>8 DEF OneOwner, D

LEMMA ClaimIs ==
    ASSUME NEW sp, NEW sf, NEW st, NEW d, NEW t, NEW l, NEW c
    PROVE  c \in ClaimsOf(sp, sf, st, d, t, l) <=>
              \/ \E p \in Users : sp[p] # NoSpace /\ c = <<"space", p, SpaceFrames(sp[p])>>
              \/ \E s \in sf : c = <<"surface", s, SurfaceFrames(s)>>
              \/ \E o \in DOMAIN st : c = <<"object", o, ToSet(st[o].frames)>>
              \/ c = <<"dma", 0, d>> \/ c = <<"iommu", 0, t>> \/ c = <<"lost", 0, l>>
BY DEF ClaimsOf

(* One lemma for each way in which a record changes.                        *)
LEMMA SpaceChanged ==
    ASSUME NEW A, NEW sp, NEW sf, NEW st, NEW d, NEW t, NEW l, Owners(A, sp, sf, st, d, t, l),
           sp = [q \in Users |-> sp[q]], NEW p \in Users, sp[p] # NoSpace, NEW w, w # NoSpace,
           SpaceFrames(w) \cap (A \ SpaceFrames(sp[p])) = {}
    PROVE  Owners((A \ SpaceFrames(sp[p])) \cup SpaceFrames(w), [sp EXCEPT ![p] = w], sf, st, d, t, l)
<1> DEFINE C == ClaimsOf(sp, sf, st, d, t, l)
           D == ClaimsOf([sp EXCEPT ![p] = w], sf, st, d, t, l)
           old == <<"space", p, SpaceFrames(sp[p])>>
           new == <<"space", p, SpaceFrames(w)>>
<1>1. \A q \in Users : [sp EXCEPT ![p] = w][q] = IF q = p THEN w ELSE sp[q]
    OBVIOUS
<1>2. ASSUME NEW x PROVE x \in D <=> x \in (C \ {old}) \cup {new}
    BY <1>1 DEF C, D, ClaimsOf
<1> HIDE DEF C, D
<1>3. D = (C \ {old}) \cup {new}
    BY <1>2
<1>4. old \in C
    BY <1>1, ClaimIs DEF C
<1>5. OneOwner(A, C)
    BY DEF Owners, C
<1>6. old[3] = SpaceFrames(sp[p]) /\ new[3] = SpaceFrames(w)
    OBVIOUS
<1> HIDE DEF old, new
<1>7. OneOwner((A \ old[3]) \cup new[3], (C \ {old}) \cup {new})
    BY <1>4, <1>5, <1>6, OwnerSwapped
<1> QED BY <1>3, <1>6, <1>7 DEF Owners, D

LEMMA SpaceMade ==
    ASSUME NEW A, NEW sp, NEW sf, NEW st, NEW d, NEW t, NEW l, Owners(A, sp, sf, st, d, t, l),
           sp = [q \in Users |-> sp[q]], NEW p \in Users, sp[p] = NoSpace, NEW w, w # NoSpace, SpaceFrames(w) \cap A = {}
    PROVE  Owners(A \cup SpaceFrames(w), [sp EXCEPT ![p] = w], sf, st, d, t, l)
<1> DEFINE C == ClaimsOf(sp, sf, st, d, t, l)
           D == ClaimsOf([sp EXCEPT ![p] = w], sf, st, d, t, l)
           new == <<"space", p, SpaceFrames(w)>>
<1>1. \A q \in Users : [sp EXCEPT ![p] = w][q] = IF q = p THEN w ELSE sp[q]
    OBVIOUS
<1>2. ASSUME NEW x PROVE x \in D <=> x \in C \cup {new}
    BY <1>1 DEF C, D, ClaimsOf
<1> HIDE DEF C, D
<1>3. D = C \cup {new}
    BY <1>2
<1>4. OneOwner(A, C)
    BY DEF Owners, C
<1>5. new[3] = SpaceFrames(w)
    OBVIOUS
<1> HIDE DEF new
<1>6. OneOwner(A \cup new[3], C \cup {new})
    BY <1>4, <1>5, OwnerAdded
<1> QED BY <1>3, <1>5, <1>6 DEF Owners, D

LEMMA SpaceGone ==
    ASSUME NEW A, NEW sp, NEW sf, NEW st, NEW d, NEW t, NEW l, Owners(A, sp, sf, st, d, t, l),
           sp = [q \in Users |-> sp[q]], NEW p \in Users, sp[p] # NoSpace
    PROVE  Owners(A \ SpaceFrames(sp[p]), [sp EXCEPT ![p] = NoSpace], sf, st, d, t, l)
<1> DEFINE C == ClaimsOf(sp, sf, st, d, t, l)
           D == ClaimsOf([sp EXCEPT ![p] = NoSpace], sf, st, d, t, l)
           old == <<"space", p, SpaceFrames(sp[p])>>
<1>1. \A q \in Users : [sp EXCEPT ![p] = NoSpace][q] = IF q = p THEN NoSpace ELSE sp[q]
    OBVIOUS
<1>2. ASSUME NEW x PROVE x \in D <=> x \in C \ {old}
    BY <1>1 DEF C, D, ClaimsOf
<1> HIDE DEF C, D
<1>3. D = C \ {old}
    BY <1>2
<1>4. old \in C
    BY <1>1, ClaimIs DEF C
<1>5. OneOwner(A, C)
    BY DEF Owners, C
<1>6. old[3] = SpaceFrames(sp[p])
    OBVIOUS
<1> HIDE DEF old
<1>7. OneOwner(A \ old[3], C \ {old})
    BY <1>4, <1>5, <1>6, OwnerDropped
<1> QED BY <1>3, <1>6, <1>7 DEF Owners, D

LEMMA SurfaceMade ==
    ASSUME NEW A, NEW sp, NEW sf, NEW st, NEW d, NEW t, NEW l, Owners(A, sp, sf, st, d, t, l),
           NEW s, SurfaceFrames(s) \cap A = {}
    PROVE  Owners(A \cup SurfaceFrames(s), sp, sf \cup {s}, st, d, t, l)
<1> DEFINE C == ClaimsOf(sp, sf, st, d, t, l)
           D == ClaimsOf(sp, sf \cup {s}, st, d, t, l)
           new == <<"surface", s, SurfaceFrames(s)>>
<1>1. ASSUME NEW x PROVE x \in D <=> x \in C \cup {new}
    BY DEF C, D, ClaimsOf
<1> HIDE DEF C, D
<1>2. D = C \cup {new}
    BY <1>1
<1>3. OneOwner(A, C)
    BY DEF Owners, C
<1>4. new[3] = SurfaceFrames(s)
    OBVIOUS
<1> HIDE DEF new
<1>5. OneOwner(A \cup new[3], C \cup {new})
    BY <1>3, <1>4, OwnerAdded
<1> QED BY <1>2, <1>4, <1>5 DEF Owners, D

LEMMA SurfaceGone ==
    ASSUME NEW A, NEW sp, NEW sf, NEW st, NEW d, NEW t, NEW l, Owners(A, sp, sf, st, d, t, l),
           NEW s \in sf
    PROVE  Owners(A \ SurfaceFrames(s), sp, sf \ {s}, st, d, t, l)
<1> DEFINE C == ClaimsOf(sp, sf, st, d, t, l)
           D == ClaimsOf(sp, sf \ {s}, st, d, t, l)
           old == <<"surface", s, SurfaceFrames(s)>>
<1>1. ASSUME NEW x PROVE x \in D <=> x \in C \ {old}
    BY DEF C, D, ClaimsOf
<1> HIDE DEF C, D
<1>2. D = C \ {old}
    BY <1>1
<1>3. old \in C
    BY ClaimIs DEF C
<1>4. OneOwner(A, C)
    BY DEF Owners, C
<1>5. old[3] = SurfaceFrames(s)
    OBVIOUS
<1> HIDE DEF old
<1>6. OneOwner(A \ old[3], C \ {old})
    BY <1>3, <1>4, <1>5, OwnerDropped
<1> QED BY <1>2, <1>5, <1>6 DEF Owners, D

LEMMA ObjectMade ==
    ASSUME NEW A, NEW sp, NEW sf, NEW st, NEW d, NEW t, NEW l, Owners(A, sp, sf, st, d, t, l),
           NEW o1, o1 \notin DOMAIN st, NEW st2, DOMAIN st2 = DOMAIN st \cup {o1}, \A o \in DOMAIN st : st2[o].frames = st[o].frames,
           ToSet(st2[o1].frames) \cap A = {}
    PROVE  Owners(A \cup ToSet(st2[o1].frames), sp, sf, st2, d, t, l)
<1> DEFINE C == ClaimsOf(sp, sf, st, d, t, l)
           D == ClaimsOf(sp, sf, st2, d, t, l)
           new == <<"object", o1, ToSet(st2[o1].frames)>>
<1>1. ASSUME NEW x PROVE x \in D <=> x \in C \cup {new}
    BY DEF C, D, ClaimsOf
<1> HIDE DEF C, D
<1>2. D = C \cup {new}
    BY <1>1
<1>3. OneOwner(A, C)
    BY DEF Owners, C
<1>4. new[3] = ToSet(st2[o1].frames)
    OBVIOUS
<1> HIDE DEF new
<1>5. OneOwner(A \cup new[3], C \cup {new})
    BY <1>3, <1>4, OwnerAdded
<1> QED BY <1>2, <1>4, <1>5 DEF Owners, D

LEMMA ObjectGone ==
    ASSUME NEW A, NEW sp, NEW sf, NEW st, NEW d, NEW t, NEW l, Owners(A, sp, sf, st, d, t, l),
           NEW o1 \in DOMAIN st, NEW st2, DOMAIN st2 = DOMAIN st \ {o1}, \A o \in DOMAIN st2 : st2[o].frames = st[o].frames
    PROVE  Owners(A \ ToSet(st[o1].frames), sp, sf, st2, d, t, l)
<1> DEFINE C == ClaimsOf(sp, sf, st, d, t, l)
           D == ClaimsOf(sp, sf, st2, d, t, l)
           old == <<"object", o1, ToSet(st[o1].frames)>>
<1>1. ASSUME NEW x PROVE x \in D <=> x \in C \ {old}
    BY DEF C, D, ClaimsOf
<1> HIDE DEF C, D
<1>2. D = C \ {old}
    BY <1>1
<1>3. old \in C
    BY ClaimIs DEF C
<1>4. OneOwner(A, C)
    BY DEF Owners, C
<1>5. old[3] = ToSet(st[o1].frames)
    OBVIOUS
<1> HIDE DEF old
<1>6. OneOwner(A \ old[3], C \ {old})
    BY <1>3, <1>4, <1>5, OwnerDropped
<1> QED BY <1>2, <1>5, <1>6 DEF Owners, D

LEMMA DmaMade ==
    ASSUME NEW A, NEW sp, NEW sf, NEW st, NEW d, NEW t, NEW l, Owners(A, sp, sf, st, d, t, l),
           d = {}, NEW F, F \cap A = {}
    PROVE  Owners(A \cup F, sp, sf, st, F, t, l)
<1> DEFINE C == ClaimsOf(sp, sf, st, d, t, l)
           D == ClaimsOf(sp, sf, st, F, t, l)
           old == <<"dma", 0, d>>
           new == <<"dma", 0, F>>
<1>1. ASSUME NEW x PROVE x \in D <=> x \in (C \ {old}) \cup {new}
    BY DEF C, D, ClaimsOf
<1> HIDE DEF C, D
<1>2. D = (C \ {old}) \cup {new}
    BY <1>1
<1>3. old \in C
    BY ClaimIs DEF C
<1>4. OneOwner(A, C)
    BY DEF Owners, C
<1>5. old[3] = {} /\ new[3] = F
    OBVIOUS
<1> HIDE DEF old, new
<1>6. OneOwner((A \ old[3]) \cup new[3], (C \ {old}) \cup {new})
    BY <1>3, <1>4, <1>5, OwnerSwapped
<1> QED BY <1>2, <1>5, <1>6 DEF Owners, D

LEMMA TablesGrow ==
    ASSUME NEW A, NEW sp, NEW sf, NEW st, NEW d, NEW t, NEW l, Owners(A, sp, sf, st, d, t, l),
           NEW F, F \cap A = {}
    PROVE  Owners(A \cup F, sp, sf, st, d, t \cup F, l)
<1> DEFINE C == ClaimsOf(sp, sf, st, d, t, l)
           D == ClaimsOf(sp, sf, st, d, t \cup F, l)
           old == <<"iommu", 0, t>>
           new == <<"iommu", 0, t \cup F>>
<1>1. ASSUME NEW x PROVE x \in D <=> x \in (C \ {old}) \cup {new}
    BY DEF C, D, ClaimsOf
<1> HIDE DEF C, D
<1>2. D = (C \ {old}) \cup {new}
    BY <1>1
<1>3. old \in C
    BY ClaimIs DEF C
<1>4. OneOwner(A, C)
    BY DEF Owners, C
<1>5. old[3] = t /\ new[3] = t \cup F
    OBVIOUS
<1> HIDE DEF old, new
<1>6. OneOwner((A \ old[3]) \cup new[3], (C \ {old}) \cup {new})
    BY <1>3, <1>4, <1>5, OwnerSwapped
<1>7. old[3] \subseteq A
    BY <1>3, <1>4 DEF OneOwner
<1>8. (A \ old[3]) \cup new[3] = A \cup F
    BY <1>5, <1>7
<1> QED BY <1>2, <1>6, <1>8 DEF Owners, D

LEMMA LossGrows ==
    ASSUME NEW A, NEW sp, NEW sf, NEW st, NEW d, NEW t, NEW l, Owners(A, sp, sf, st, d, t, l),
           NEW F, F \cap A = {}
    PROVE  Owners(A \cup F, sp, sf, st, d, t, l \cup F)
<1> DEFINE C == ClaimsOf(sp, sf, st, d, t, l)
           D == ClaimsOf(sp, sf, st, d, t, l \cup F)
           old == <<"lost", 0, l>>
           new == <<"lost", 0, l \cup F>>
<1>1. ASSUME NEW x PROVE x \in D <=> x \in (C \ {old}) \cup {new}
    BY DEF C, D, ClaimsOf
<1> HIDE DEF C, D
<1>2. D = (C \ {old}) \cup {new}
    BY <1>1
<1>3. old \in C
    BY ClaimIs DEF C
<1>4. OneOwner(A, C)
    BY DEF Owners, C
<1>5. old[3] = l /\ new[3] = l \cup F
    OBVIOUS
<1> HIDE DEF old, new
<1>6. OneOwner((A \ old[3]) \cup new[3], (C \ {old}) \cup {new})
    BY <1>3, <1>4, <1>5, OwnerSwapped
<1>7. old[3] \subseteq A
    BY <1>3, <1>4 DEF OneOwner
<1>8. (A \ old[3]) \cup new[3] = A \cup F
    BY <1>5, <1>7
<1> QED BY <1>2, <1>6, <1>8 DEF Owners, D

LEMMA ObjectsSame ==
    ASSUME NEW A, NEW sp, NEW sf, NEW st, NEW d, NEW t, NEW l, Owners(A, sp, sf, st, d, t, l),
           NEW st2, DOMAIN st2 = DOMAIN st, \A o \in DOMAIN st : st2[o].frames = st[o].frames
    PROVE  Owners(A, sp, sf, st2, d, t, l)
<1>1. {<<"object", o, ToSet(st[o].frames)>> : o \in DOMAIN st} = {<<"object", o, ToSet(st2[o].frames)>> : o \in DOMAIN st2}
    OBVIOUS
<1>2. ClaimsOf(sp, sf, st, d, t, l) = ClaimsOf(sp, sf, st2, d, t, l)
    BY <1>1, Zenon DEF ClaimsOf
<1> QED BY <1>2 DEF Owners

LEMMA ClaimKept ==
    ASSUME NEW A, NEW sp, NEW sf, NEW st, NEW d, NEW t, NEW l, Owners(A, sp, sf, st, d, t, l)
    PROVE  \A p \in Users : sp[p] # NoSpace => SpaceFrames(sp[p]) \subseteq A
<1> TAKE p \in Users
<1> HAVE sp[p] # NoSpace
<1> DEFINE C == ClaimsOf(sp, sf, st, d, t, l)
           c == <<"space", p, SpaceFrames(sp[p])>>
<1>1. c \in C
    BY ClaimIs
<1>2. A = UNION {e[3] : e \in C}
    BY DEF Owners, OneOwner
<1>3. c[3] = SpaceFrames(sp[p])
    OBVIOUS
<1> HIDE DEF C, c
<1> QED BY <1>1, <1>2, <1>3

LEMMA OkIsSpace ==
    ASSUME NEW w, SpaceOk(w)
    PROVE  w # NoSpace
BY DEF SpaceOk, WellFormed, NoSpace, Frames

(* spawn: the space is complete, or everything that was taken is free again. *)
LEMMA Built ==
    ASSUME NEW p \in Pools
    PROVE  LET made == CloneActiveCr3(p)
               code == MapRegion(made.pool, made.space, <<"code", 0>>, CodePages, << >>)
               stack == MapRegion(code.pool, code.space, <<"stack", 0>>, 1, << >>)
           IN  /\ made.ok /\ code.ok /\ stack.ok => /\ SpaceOk(stack.space) /\ Grown(p, stack.pool, SpaceFrames(stack.space))
                                                   /\ \A g \in DOMAIN stack.space.pages : stack.space.pages[g].own
               /\ made.ok /\ code.ok /\ ~stack.ok => Grown(p, DestroyUserAddressSpace(stack.space, stack.pool), {})
               /\ made.ok /\ ~code.ok => Grown(p, DestroyUserAddressSpace(code.space, code.pool), {})
               /\ ~made.ok => Grown(p, made.pool, {})
<1> DEFINE made == CloneActiveCr3(p)
           code == MapRegion(made.pool, made.space, <<"code", 0>>, CodePages, << >>)
           stack == MapRegion(code.pool, code.space, <<"stack", 0>>, 1, << >>)
<1>1. /\ <<"code", 0>> \in Regions /\ Owned(<<"code", 0>>) /\ <<"stack", 0>> \in Regions /\ Owned(<<"stack", 0>>)
      /\ <<"code", 0>> # <<"stack", 0>>
    BY DEF Regions, Owned
<1>2. CodePages \in Nat
    BY MemoryAssumption
<1>3. \/ made.ok = FALSE /\ Grown(p, made.pool, {})
      \/ /\ made.ok = TRUE /\ SpaceOk(made.space) /\ Grown(p, made.pool, SpaceFrames(made.space))
         /\ DOMAIN made.space.pages = {}
    BY Cloned
<1> HIDE DEF made
<1>4. ASSUME made.ok PROVE OwnMade(made.pool, made.space, <<"code", 0>>, code)
    <2>1. made.pool \in Pools /\ SpaceFrames(made.space) \subseteq made.pool.allocated
        BY <1>3, <1>4 DEF Grown
    <2>2. SpaceOk(made.space) /\ \A g \in DOMAIN made.space.pages : g[1] # <<"code", 0>>
        BY <1>3, <1>4
    <2> QED BY <1>1, <1>2, <2>1, <2>2, OwnRegion
<1> HIDE DEF code
<1>5. ASSUME made.ok, ~code.ok
      PROVE  Grown(p, DestroyUserAddressSpace(code.space, code.pool), {})
    <2>1. Grown(p, code.pool, SpaceFrames(made.space) \cup {}) /\ code.space = made.space
        BY <1>3, <1>4, <1>5, GrownTwice DEF OwnMade
    <2>2. Grown(p, code.pool, SpaceFrames(code.space))
        BY <2>1
    <2> QED BY <2>2, GrownBack DEF DestroyUserAddressSpace
<1>6. ASSUME made.ok, code.ok
      PROVE  /\ SpaceOk(code.space) /\ Grown(p, code.pool, SpaceFrames(code.space))
             /\ \A g \in DOMAIN code.space.pages : g[1] = <<"code", 0>> /\ code.space.pages[g].own
    <2>1. PICK F : Grown(made.pool, code.pool, F) /\ SpaceFrames(code.space) = SpaceFrames(made.space) \cup F
        BY <1>4, <1>6 DEF OwnMade
    <2>2. Grown(p, code.pool, SpaceFrames(code.space))
        BY <1>3, <1>6, <2>1, GrownTwice
    <2> QED BY <1>3, <1>4, <1>6, <2>2 DEF OwnMade
<1>7. ASSUME made.ok, code.ok PROVE OwnMade(code.pool, code.space, <<"stack", 0>>, stack)
    <2>1. code.pool \in Pools /\ SpaceFrames(code.space) \subseteq code.pool.allocated
        BY <1>6, <1>7 DEF Grown
    <2>2. SpaceOk(code.space) /\ \A g \in DOMAIN code.space.pages : g[1] # <<"stack", 0>>
        BY <1>1, <1>6, <1>7
    <2> QED BY <1>1, <2>1, <2>2, OwnRegion
<1> HIDE DEF stack
<1>8. ASSUME made.ok, code.ok, ~stack.ok
      PROVE  Grown(p, DestroyUserAddressSpace(stack.space, stack.pool), {})
    <2>1. Grown(p, stack.pool, SpaceFrames(code.space) \cup {}) /\ stack.space = code.space
        BY <1>6, <1>7, <1>8, GrownTwice DEF OwnMade
    <2>2. Grown(p, stack.pool, SpaceFrames(stack.space))
        BY <2>1
    <2> QED BY <2>2, GrownBack DEF DestroyUserAddressSpace
<1>9. ASSUME made.ok, code.ok, stack.ok
      PROVE  /\ SpaceOk(stack.space) /\ Grown(p, stack.pool, SpaceFrames(stack.space))
             /\ \A g \in DOMAIN stack.space.pages : stack.space.pages[g].own
    <2>1. PICK F : Grown(code.pool, stack.pool, F) /\ SpaceFrames(stack.space) = SpaceFrames(code.space) \cup F
        BY <1>7, <1>9 DEF OwnMade
    <2>2. Grown(p, stack.pool, SpaceFrames(stack.space))
        BY <1>6, <1>9, <2>1, GrownTwice
    <2>3. \A g \in DOMAIN stack.space.pages : stack.space.pages[g].own
        BY <1>6, <1>7, <1>9 DEF OwnMade
    <2> QED BY <1>7, <1>9, <2>2, <2>3 DEF OwnMade
<1>10. ~made.ok => Grown(p, made.pool, {})
    BY <1>3
<1> QED BY <1>5, <1>8, <1>9, <1>10 DEF made, code, stack

-----------------------------------------------------------------------------
(* The actions *)

LEMMA ChargeSame ==
    ASSUME ChargeInv, UNCHANGED <<charge, surfaces, store, job>>
    PROVE  ChargeInv'
BY DEF ChargeInv, ChargeIsGivenBack, Accounted

LEMMA SpawnKeeps ==
    ASSUME FrameInv, ChargeInv, NEW p \in Users, NEW next \in {"pending", "live"}, SpawnProcess(p, next)
    PROVE  FrameInv' /\ ChargeInv'
<1> DEFINE made == CloneActiveCr3(pool)
           code == MapRegion(made.pool, made.space, <<"code", 0>>, CodePages, << >>)
           stack == MapRegion(code.pool, code.space, <<"stack", 0>>, 1, << >>)
<1>1. /\ pool \in Pools /\ SpaceInv /\ SurfaceInv /\ StoreInv /\ DmaInv /\ PageInv
      /\ Owners(pool.allocated, space, surfaces, store, dma, tables2, leaked)
    BY DEF FrameInv
<1>2. /\ made.ok /\ code.ok /\ stack.ok => /\ SpaceOk(stack.space) /\ Grown(pool, stack.pool, SpaceFrames(stack.space))
                                          /\ \A g \in DOMAIN stack.space.pages : stack.space.pages[g].own
      /\ made.ok /\ code.ok /\ ~stack.ok => Grown(pool, DestroyUserAddressSpace(stack.space, stack.pool), {})
      /\ made.ok /\ ~code.ok => Grown(pool, DestroyUserAddressSpace(code.space, code.pool), {})
      /\ ~made.ok => Grown(pool, made.pool, {})
    <2>1. PICK P \in Pools : P = pool
        BY <1>1
    <2> QED BY <2>1, Built
<1>3. /\ life[p] = "none"
      /\ \/ /\ made.ok /\ code.ok /\ stack.ok
            /\ pool' = stack.pool /\ space' = [space EXCEPT ![p] = stack.space]
            /\ life' = [life EXCEPT ![p] = next]
         \/ /\ made.ok /\ code.ok /\ ~stack.ok
            /\ pool' = DestroyUserAddressSpace(stack.space, stack.pool)
            /\ UNCHANGED <<space, life>>
         \/ /\ made.ok /\ ~code.ok
            /\ pool' = DestroyUserAddressSpace(code.space, code.pool)
            /\ UNCHANGED <<space, life>>
         \/ ~made.ok /\ pool' = made.pool /\ UNCHANGED <<space, life>>
      /\ UNCHANGED <<charge, surfaces, job, store, handles, dma, iommu, tables2, leaked, spoiled>>
    BY Zenon DEF SpawnProcess
<1> HIDE DEF made, code, stack
<1>4. ChargeInv' /\ SurfaceInv' /\ StoreInv' /\ DmaInv'
    BY <1>1, <1>3, ChargeSame DEF SurfaceInv, StoreInv, DmaInv
<1>5. CASE /\ made.ok /\ code.ok /\ stack.ok
           /\ pool' = stack.pool /\ space' = [space EXCEPT ![p] = stack.space]
           /\ life' = [life EXCEPT ![p] = next]
    <2>1. PICK w : w = stack.space
        OBVIOUS
    <2>2. SpaceOk(w) /\ w # NoSpace /\ Grown(pool, pool', SpaceFrames(w)) /\ \A g \in DOMAIN w.pages : w.pages[g].own
        BY <1>2, <1>5, <2>1, OkIsSpace
    <2>3. space = [q \in Users |-> space[q]] /\ space[p] = NoSpace
        BY <1>1, <1>3 DEF SpaceInv
    <2>4. \A q \in Users : space'[q] = IF q = p THEN w ELSE space[q]
        BY <1>5, <2>1, <2>3
    <2>5. pool' \in Pools /\ pool'.allocated = pool.allocated \cup SpaceFrames(w) /\ SpaceFrames(w) \cap pool.allocated = {}
        BY <2>2 DEF Grown
    <2>6. Owners(pool.allocated \cup SpaceFrames(w), [space EXCEPT ![p] = w], surfaces, store, dma, tables2, leaked)
        BY <1>1, <2>2, <2>3, <2>5, SpaceMade
    <2>7. SpaceInv'
        <3>1. space' = [q \in Users |-> space'[q]]
            BY <1>5, <2>3
        <3>2. \A q \in Users : space'[q] = NoSpace \/ SpaceOk(space'[q])
            BY <1>1, <2>2, <2>4 DEF SpaceInv
        <3> QED BY <1>1, <1>5, <2>2, <2>4, <3>1, <3>2 DEF SpaceInv
    <2>8. PageInv'
        <3>1. \A g \in DOMAIN w.pages : Shows(p, g, w.pages[g], surfaces, store, dma \cup leaked)
            BY <2>2 DEF Shows
        <3>2. PagesShow(space', surfaces, store, dma \cup leaked)
            BY <1>1, <2>4, <3>1 DEF PageInv, PagesShow
        <3> QED BY <1>3, <3>2 DEF PageInv
    <2> QED BY <1>3, <1>4, <1>5, <2>1, <2>5, <2>6, <2>7, <2>8 DEF FrameInv
<1>6. CASE Grown(pool, pool', {}) /\ UNCHANGED <<space, life>>
    <2>1. pool' \in Pools /\ pool'.allocated = pool.allocated
        BY <1>6 DEF Grown
    <2>2. SpaceInv' /\ PageInv'
        BY <1>1, <1>3, <1>6 DEF SpaceInv, PageInv
    <2> QED BY <1>1, <1>3, <1>4, <1>6, <2>1, <2>2 DEF FrameInv
<1> QED BY <1>2, <1>3, <1>5, <1>6

LEMMA MaxOfTwo ==
    ASSUME NEW x \in Int
    PROVE  Max({0, x}) = IF x >= 0 THEN x ELSE 0
<1> DEFINE m == IF x >= 0 THEN x ELSE 0
<1>1. m \in {0, x} /\ \A y \in {0, x} : m >= y
    OBVIOUS
<1>2. \A z \in {0, x} : (\A y \in {0, x} : z >= y) => z = m
    OBVIOUS
<1>3. Max({0, x}) = CHOOSE z \in {0, x} : \A y \in {0, x} : z >= y
    BY DEF Max
<1> HIDE DEF m
<1>4. (CHOOSE z \in {0, x} : \A y \in {0, x} : z >= y) = m
    BY <1>1, <1>2, Zenon
<1> QED BY <1>3, <1>4 DEF m

(* uncharge_memory leaves the others alone and never falls below nothing.   *)
LEMMA ChargeBack ==
    ASSUME charge \in [Users -> 0 .. Quota], NEW p \in Users, NEW n \in Nat
    PROVE  /\ Uncharged(p, n) \in [Users -> 0 .. Quota]
           /\ \A q \in Users : q # p => Uncharged(p, n)[q] = charge[q]
           /\ \A a \in Nat : charge[p] <= a + n => Uncharged(p, n)[p] <= a
           /\ Uncharged(p, n)[p] <= charge[p]
<1> DEFINE x == charge[p] - n
<1>1. Quota \in Nat
    BY MemoryAssumption
<1>2. charge[p] \in 0 .. Quota /\ x \in Int
    BY <1>1
<1>3. Max({0, x}) = IF x >= 0 THEN x ELSE 0
    BY <1>2, MaxOfTwo
<1>4. Uncharged(p, n) = [charge EXCEPT ![p] = Max({0, x})]
    BY DEF Uncharged
<1>5. Max({0, x}) \in 0 .. Quota /\ Max({0, x}) <= charge[p] /\ \A a \in Nat : charge[p] <= a + n => Max({0, x}) <= a
    BY <1>1, <1>2, <1>3
<1> HIDE DEF x
<1> QED BY <1>4, <1>5

(* S is what somebody owns of X, and T what it owns of X with x.            *)
OneMoreIn(X, x, S, T) ==
    /\ IsFiniteSet(X) /\ x \notin X /\ S \subseteq X /\ T \subseteq X \cup {x}
    /\ \A y \in X : y \in T <=> y \in S
LEMMA OneCounted ==
    ASSUME NEW X, NEW x, NEW S, NEW T, OneMoreIn(X, x, S, T)
    PROVE  Cardinality(S) \in Nat /\ Cardinality(T) = Cardinality(S) + (IF x \in T THEN 1 ELSE 0)
<1> USE DEF OneMoreIn
<1>1. IsFiniteSet(S)
    <2>1. S \in SUBSET X
        OBVIOUS
    <2> QED BY <2>1, FS_Subset
<1>2. Cardinality(S) \in Nat
    BY <1>1, FS_CardinalityType
<1>3. CASE x \in T
    <2>1. T = S \cup {x} /\ x \notin S
        BY <1>3
    <2>2. Cardinality(S \cup {x}) = Cardinality(S) + 1
        BY <1>1, <2>1, FS_AddElement
    <2> QED BY <1>2, <1>3, <2>1, <2>2
<1>4. CASE x \notin T
    <2>1. T = S
        BY <1>4
    <2> QED BY <1>2, <1>4, <2>1
<1> QED BY <1>3, <1>4

LEMMA OneMore ==
    ASSUME NEW a \in Nat, NEW c \in Nat
    PROVE  a * c \in Nat /\ a * (c + 1) = a * c + a
OBVIOUS

LEMMA Counts ==
    ASSUME ChargeInv, NEW p \in Users
    PROVE  /\ SurfacePages \in Nat /\ ObjectPages \in Nat /\ Quota \in Nat /\ charge[p] \in 0 .. Quota
           /\ Cardinality({s \in surfaces : s.owner = p}) \in Nat
           /\ Cardinality({o \in DOMAIN store : store[o].owner = p}) \in Nat
           /\ SurfacePages * Cardinality({s \in surfaces : s.owner = p}) \in Nat
           /\ ObjectPages * Cardinality({o \in DOMAIN store : store[o].owner = p}) \in Nat
           /\ charge[p] <= Accounted(p)
<1>1. SurfacePages \in Nat /\ ObjectPages \in Nat /\ Quota \in Nat
    BY MemoryAssumption
<1> DEFINE S == {s \in surfaces : s.owner = p}
           O == {o \in DOMAIN store : store[o].owner = p}
<1>2. S \in SUBSET surfaces /\ O \in SUBSET DOMAIN store
    OBVIOUS
<1>3. IsFiniteSet(surfaces) /\ IsFiniteSet(DOMAIN store)
    BY DEF ChargeInv
<1> HIDE DEF S, O
<1>4. IsFiniteSet(S) /\ IsFiniteSet(O)
    BY <1>2, <1>3, FS_Subset
<1>5. Cardinality(S) \in Nat /\ Cardinality(O) \in Nat
    BY <1>4, FS_CardinalityType
<1>6. charge[p] <= Accounted(p) /\ charge[p] \in 0 .. Quota
    BY DEF ChargeInv, ChargeIsGivenBack
<1>7. SurfacePages * Cardinality(S) \in Nat /\ ObjectPages * Cardinality(O) \in Nat
    BY <1>1, <1>5
<1> QED BY <1>1, <1>5, <1>6, <1>7 DEF S, O

LEMMA JobIsJob ==
    ASSUME NEW p, NEW k, NEW c
    PROVE  [owner |-> p, slot |-> k, cr3 |-> c] # NoJob
<1>1. "slot" \in DOMAIN [owner |-> p, slot |-> k, cr3 |-> c] /\ "slot" \notin DOMAIN NoJob
    BY DEF NoJob
<1> QED BY <1>1

LEMMA ChargeSurfaceKeeps ==
    ASSUME FrameInv, ChargeInv, NEW p \in Users, ChargeSurface(p)
    PROVE  FrameInv' /\ ChargeInv'
<1>1. /\ pool \in Pools /\ SpaceInv /\ SurfaceInv /\ StoreInv /\ DmaInv /\ PageInv
      /\ Owners(pool.allocated, space, surfaces, store, dma, tables2, leaked)
    BY DEF FrameInv
<1>2. /\ job = NoJob /\ FreeSlots(p) # {} /\ charge[p] + SurfacePages <= Quota
      /\ charge' = [charge EXCEPT ![p] = @ + SurfacePages]
      /\ job' = [owner |-> p, slot |-> Min(FreeSlots(p)), cr3 |-> space[p].root]
      /\ UNCHANGED <<pool, space, life, surfaces, store, handles, dma, iommu, tables2, leaked, spoiled>>
    BY DEF ChargeSurface
<1>3. Min(FreeSlots(p)) \in FreeSlots(p)
    <2>1. SurfaceSlots \in Nat
        BY MemoryAssumption
    <2>2. FreeSlots(p) \in SUBSET Nat
        BY <2>1 DEF FreeSlots
    <2>3. \E x \in FreeSlots(p) : \A y \in FreeSlots(p) : x <= y
        BY <1>2, <2>2, MinExists
    <2> QED BY <2>3 DEF Min
<1>4. PICK k : k = Min(FreeSlots(p))
    OBVIOUS
<1>5. k \in Nat /\ \A s \in surfaces : s.owner = p => s.slot # k
    <2>1. k \in 1 .. SurfaceSlots /\ k \notin {s.slot : s \in {u \in surfaces : u.owner = p}}
        BY <1>3, <1>4, Zenon DEF FreeSlots
    <2>2. SurfaceSlots \in Nat
        BY MemoryAssumption
    <2> QED BY <2>1, <2>2
<1>6. job'.owner = p /\ job'.slot = k /\ job' # NoJob
    BY <1>2, <1>4, JobIsJob
<1>7. SurfaceInv'
    BY <1>1, <1>2, <1>5, <1>6 DEF SurfaceInv
<1>8. SpaceInv' /\ StoreInv' /\ DmaInv' /\ PageInv'
    BY <1>1, <1>2 DEF SpaceInv, StoreInv, DmaInv, PageInv
<1>9. FrameInv'
    BY <1>1, <1>2, <1>7, <1>8 DEF FrameInv
<1>10. charge \in [Users -> 0 .. Quota] /\ SurfacePages \in Nat /\ Quota \in Nat
    BY MemoryAssumption DEF ChargeInv
<1>11. charge' \in [Users -> 0 .. Quota] /\ \A q \in Users : charge'[q] = IF q = p THEN charge[p] + SurfacePages ELSE charge[q]
    BY <1>2, <1>10
<1>12. ASSUME NEW q \in Users PROVE charge'[q] <= Accounted(q)'
    <2> DEFINE a == SurfacePages * Cardinality({s \in surfaces : s.owner = q})
               b == ObjectPages * Cardinality({o \in DOMAIN store : store[o].owner = q})
    <2>1. a \in Nat /\ b \in Nat /\ charge[q] <= Accounted(q) /\ charge[q] \in 0 .. Quota
        BY Counts
    <2>2. Accounted(q) = a + b + 0
        BY <1>2 DEF Accounted
    <2>3. Accounted(q)' = a + b + (IF p = q THEN SurfacePages ELSE 0)
        BY <1>2, <1>6 DEF Accounted
    <2> HIDE DEF a, b
    <2> QED BY <1>10, <1>11, <2>1, <2>2, <2>3
<1>13. ChargeInv'
    BY <1>2, <1>11, <1>12 DEF ChargeInv, ChargeIsGivenBack
<1> QED BY <1>9, <1>13

LEMMA SpaceGrew ==
    ASSUME NEW A, NEW sp, NEW sf, NEW st, NEW d, NEW t, NEW l, Owners(A, sp, sf, st, d, t, l),
           sp = [q \in Users |-> sp[q]], NEW p \in Users, sp[p] # NoSpace, NEW w, w # NoSpace,
           NEW F, F \cap A = {}, SpaceFrames(w) = SpaceFrames(sp[p]) \cup F
    PROVE  Owners(A \cup F, [sp EXCEPT ![p] = w], sf, st, d, t, l)
<1>1. SpaceFrames(sp[p]) \subseteq A
    BY ClaimKept
<1>2. SpaceFrames(w) \cap (A \ SpaceFrames(sp[p])) = {} /\ (A \ SpaceFrames(sp[p])) \cup SpaceFrames(w) = A \cup F
    BY <1>1
<1>3. Owners((A \ SpaceFrames(sp[p])) \cup SpaceFrames(w), [sp EXCEPT ![p] = w], sf, st, d, t, l)
    BY <1>2, SpaceChanged
<1> QED BY <1>2, <1>3

LEMMA SpaceShrank ==
    ASSUME NEW A, NEW sp, NEW sf, NEW st, NEW d, NEW t, NEW l, Owners(A, sp, sf, st, d, t, l),
           sp = [q \in Users |-> sp[q]], NEW p \in Users, sp[p] # NoSpace, NEW w, w # NoSpace,
           NEW F, F \cap A \subseteq SpaceFrames(sp[p]), SpaceFrames(w) = SpaceFrames(sp[p]) \ F
    PROVE  Owners(A \ F, [sp EXCEPT ![p] = w], sf, st, d, t, l)
<1>1. SpaceFrames(sp[p]) \subseteq A
    BY ClaimKept
<1>2. SpaceFrames(w) \cap (A \ SpaceFrames(sp[p])) = {} /\ (A \ SpaceFrames(sp[p])) \cup SpaceFrames(w) = A \ F
    BY <1>1
<1>3. Owners((A \ SpaceFrames(sp[p])) \cup SpaceFrames(w), [sp EXCEPT ![p] = w], sf, st, d, t, l)
    BY <1>2, SpaceChanged
<1> QED BY <1>2, <1>3

LEMMA FromFacts ==
    ASSUME NEW a \in Frames, NEW n \in Nat \ {0}
    PROVE  /\ From(a, n) \in Seq(Frames) /\ From(a, n) # << >> /\ Len(From(a, n)) = n
           /\ \A i \in 1 .. n : From(a, n)[i] = a + i - 1 /\ a + i - 1 \in a .. a + n - 1
<1> DEFINE f == From(a, n)
<1>1. f = [i \in 1 .. n |-> a + i - 1]
    BY DEF From
<1>2. \A i \in 1 .. n : a + i - 1 \in Frames /\ a + i - 1 \in a .. a + n - 1
    BY DEF Frames
<1>3. f \in [1 .. n -> Frames]
    BY <1>1, <1>2
<1> HIDE DEF f
<1>4. f \in Seq(Frames) /\ Len(f) = n
    BY <1>3
<1>5. f # << >>
    BY <1>4
<1> QED BY <1>1, <1>2, <1>4, <1>5 DEF f

LEMMA SpacesKept ==
    ASSUME SpaceInv, NEW p \in Users, NEW w, SpaceOk(w), space[p] # NoSpace, space' = [space EXCEPT ![p] = w], UNCHANGED life
    PROVE  SpaceInv' /\ \A q \in Users : space'[q] = IF q = p THEN w ELSE space[q]
<1>1. space = [q \in Users |-> space[q]]
    BY DEF SpaceInv
<1>2. space' = [q \in Users |-> space'[q]] /\ \A q \in Users : space'[q] = IF q = p THEN w ELSE space[q]
    BY <1>1
<1>3. \A q \in Users : space'[q] = NoSpace \/ SpaceOk(space'[q])
    BY <1>2 DEF SpaceInv
<1>4. w # NoSpace
    BY OkIsSpace
<1> QED BY <1>2, <1>3, <1>4 DEF SpaceInv

LEMMA SurfaceGiven ==
    ASSUME ChargeInv, job # NoJob, job.owner \in Users, job' = NoJob, UNCHANGED store,
           \/ UNCHANGED charge /\ \E s : s \notin surfaces /\ s.owner = job.owner /\ surfaces' = surfaces \cup {s}
           \/ charge' = Uncharged(job.owner, SurfacePages) /\ UNCHANGED surfaces
    PROVE  ChargeInv'
<1>1. charge \in [Users -> 0 .. Quota] /\ SurfacePages \in Nat /\ Quota \in Nat /\ IsFiniteSet(surfaces)
    BY MemoryAssumption DEF ChargeInv
<1> DEFINE S(q) == Cardinality({s \in surfaces : s.owner = q})
           b(q) == ObjectPages * Cardinality({o \in DOMAIN store : store[o].owner = q})
           j(q) == IF job.owner = q THEN SurfacePages ELSE 0
<1>2. \A q \in Users : /\ S(q) \in Nat /\ SurfacePages * S(q) \in Nat /\ b(q) \in Nat /\ charge[q] \in 0 .. Quota
                       /\ charge[q] <= Accounted(q)
    BY Counts
<1>3. \A q \in Users : Accounted(q) = SurfacePages * S(q) + b(q) + j(q)
    BY DEF Accounted
<1>4. \A q \in Users : Accounted(q)' = SurfacePages * Cardinality({s \in surfaces' : s.owner = q}) + b(q) + 0
    BY DEF Accounted
<1>5. CASE UNCHANGED charge /\ \E s : s \notin surfaces /\ s.owner = job.owner /\ surfaces' = surfaces \cup {s}
    <2>1. PICK s : s \notin surfaces /\ s.owner = job.owner /\ surfaces' = surfaces \cup {s}
        BY <1>5
    <2>2. PICK sf : sf = surfaces
        OBVIOUS
    <2>3. ASSUME NEW q \in Users PROVE charge'[q] <= Accounted(q)'
        <3> DEFINE m == IF s.owner = q THEN 1 ELSE 0
        <3>1. Cardinality({u \in sf \cup {s} : u.owner = q}) = Cardinality({u \in sf : u.owner = q}) + m
            <4>1. IsFiniteSet(sf) /\ s \notin sf
                BY <1>1, <2>1, <2>2
            <4>2. PICK had, has : had = {u \in sf : u.owner = q} /\ has = {u \in sf \cup {s} : u.owner = q}
                OBVIOUS
            <4>3. OneMoreIn(sf, s, had, has) /\ (s \in has <=> s.owner = q)
                BY <4>1, <4>2 DEF OneMoreIn
            <4>4. Cardinality(has) = Cardinality(had) + (IF s \in has THEN 1 ELSE 0)
                BY ONLY <4>3, OneCounted
            <4> QED BY <4>2, <4>3, <4>4
        <3>2. Accounted(q)' = SurfacePages * (S(q) + m) + b(q) + 0
            BY <1>4, <2>1, <2>2, <3>1
        <3>3. SurfacePages * (S(q) + 1) = SurfacePages * S(q) + SurfacePages
            BY <1>1, <1>2, OneMore
        <3> HIDE DEF S, b
        <3>4. SurfacePages * (S(q) + 0) = SurfacePages * S(q)
            BY <1>1, <1>2
        <3>5. Accounted(q)' = SurfacePages * S(q) + b(q) + j(q)
            <4>1. CASE s.owner = q
                BY <1>1, <1>2, <2>1, <3>2, <3>3, <4>1
            <4>2. CASE s.owner # q
                BY <1>1, <1>2, <2>1, <3>2, <3>4, <4>2
            <4> QED BY <4>1, <4>2
        <3> QED BY <1>2, <1>3, <1>5, <3>5
    <2>4. IsFiniteSet(surfaces')
        BY <1>1, <2>1, FS_AddElement
    <2> QED BY <1>1, <1>5, <2>3, <2>4 DEF ChargeInv, ChargeIsGivenBack
<1>6. CASE charge' = Uncharged(job.owner, SurfacePages) /\ UNCHANGED surfaces
    <2>1. /\ charge' \in [Users -> 0 .. Quota]
          /\ \A q \in Users : q # job.owner => charge'[q] = charge[q]
          /\ \A a \in Nat : charge[job.owner] <= a + SurfacePages => charge'[job.owner] <= a
        BY <1>1, <1>6, ChargeBack
    <2>2. ASSUME NEW q \in Users PROVE charge'[q] <= Accounted(q)'
        <3>1. Accounted(q)' = SurfacePages * S(q) + b(q) + 0
            BY <1>4, <1>6
        <3> HIDE DEF S, b
        <3>2. PICK a \in Nat : a = SurfacePages * S(q) + b(q)
            BY <1>2
        <3>3. Accounted(q)' = a /\ Accounted(q) = a + j(q)
            BY <1>2, <1>3, <3>1, <3>2
        <3> QED BY <1>1, <1>2, <2>1, <3>3
    <2> QED BY <1>6, <2>1, <2>2 DEF ChargeInv, ChargeIsGivenBack
<1> QED BY <1>5, <1>6

(* Frames that a space lost stay allocated, and nobody has them.            *)
LEMMA SpaceLost ==
    ASSUME NEW A, NEW sp, NEW sf, NEW st, NEW d, NEW t, NEW l, Owners(A, sp, sf, st, d, t, l),
           sp = [q \in Users |-> sp[q]], NEW p \in Users, sp[p] # NoSpace, NEW w, w # NoSpace,
           NEW F, F \subseteq SpaceFrames(sp[p]), SpaceFrames(w) = SpaceFrames(sp[p]) \ F
    PROVE  Owners(A, [sp EXCEPT ![p] = w], sf, st, d, t, l \cup F)
<1>1. F \subseteq A
    BY ClaimKept
<1>2. F \cap A \subseteq SpaceFrames(sp[p]) /\ F \cap (A \ F) = {} /\ (A \ F) \cup F = A
    BY <1>1
<1>3. Owners(A \ F, [sp EXCEPT ![p] = w], sf, st, d, t, l)
    BY <1>2, SpaceShrank
<1>4. Owners((A \ F) \cup F, [sp EXCEPT ![p] = w], sf, st, d, t, l \cup F)
    BY <1>2, <1>3, LossGrows
<1> QED BY <1>2, <1>4

(* What a page shows goes on being there when more surfaces and more frames *)
(* for ever are.                                                            *)
LEMMA ShowsMore ==
    ASSUME NEW sp, NEW sf, NEW sf2, NEW st, NEW kept, NEW kept2, sf \subseteq sf2, kept \subseteq kept2,
           PagesShow(sp, sf, st, kept)
    PROVE  PagesShow(sp, sf2, st, kept2)
<1>1. ASSUME NEW p, NEW g, NEW shown, Shows(p, g, shown, sf, st, kept) PROVE Shows(p, g, shown, sf2, st, kept2)
    BY <1>1 DEF Shows
<1> QED BY <1>1 DEF PagesShow

LEMMA FreedSpaceKeeps ==
    ASSUME FrameInv, ChargeInv, FinishSurfaceInFreedSpace
    PROVE  FrameInv' /\ ChargeInv'
<1> DEFINE backing == Allocate(pool, SurfacePages)
           a == backing.first
           frames == a .. a + SurfacePages - 1
           got == Take(backing.pool, 3)
           stay == {got.frames[i] : i \in DOMAIN got.frames \cap {1}}
           s == SurfaceRecord(a)
<1>1. /\ pool \in Pools /\ SpaceInv /\ SurfaceInv /\ StoreInv /\ DmaInv /\ PageInv
      /\ Owners(pool.allocated, space, surfaces, store, dma, tables2, leaked)
    BY DEF FrameInv
<1>2. /\ job # NoJob /\ job' = NoJob
      /\ \/ /\ a = 0 /\ charge' = Uncharged(job.owner, SurfacePages) /\ UNCHANGED <<pool, surfaces, leaked>>
         \/ /\ a # 0 /\ charge' = Uncharged(job.owner, SurfacePages) /\ UNCHANGED surfaces
            /\ pool' = Release(got.pool, (frames \cup ToSet(got.frames)) \ stay) /\ leaked' = leaked \cup stay
         \/ /\ a # 0 /\ pool' = got.pool /\ surfaces' = surfaces \cup {s}
            /\ leaked' = leaked \cup ToSet(got.frames) /\ UNCHANGED charge
      /\ UNCHANGED <<space, life, store, handles, dma, iommu, tables2, memOps>>
    BY Zenon DEF FinishSurfaceInFreedSpace, UnchargedOnError
<1>3. /\ job.owner \in Users /\ job.slot \in Nat /\ \A u \in surfaces : u.owner = job.owner => u.slot # job.slot
    BY <1>1, <1>2 DEF SurfaceInv
<1>4. SurfacePages \in Nat \ {0}
    BY MemoryAssumption
<1>5. \/ a = 0 /\ backing.pool = pool
      \/ a \in Frames /\ Grown(pool, backing.pool, a .. a + SurfacePages - 1)
    BY <1>1, <1>4, Allocated
<1>6. SpaceInv' /\ StoreInv' /\ DmaInv'
    BY <1>1, <1>2 DEF SpaceInv, StoreInv, DmaInv
<1> HIDE DEF backing
<1>7. CASE a = 0 /\ charge' = Uncharged(job.owner, SurfacePages) /\ UNCHANGED <<pool, surfaces, leaked>>
    <2>1. ChargeInv'
        BY <1>2, <1>3, <1>7, SurfaceGiven
    <2>2. SurfaceInv' /\ PageInv'
        BY <1>1, <1>2, <1>7 DEF SurfaceInv, PageInv
    <2> QED BY <1>1, <1>2, <1>6, <1>7, <2>1, <2>2 DEF FrameInv
<1>8. ASSUME a # 0
      PROVE  /\ a \in Frames /\ Grown(pool, backing.pool, frames) /\ backing.pool \in Pools
             /\ got.frames \in Seq(Frames) /\ Grown(backing.pool, got.pool, ToSet(got.frames))
             /\ Grown(pool, got.pool, frames \cup ToSet(got.frames)) /\ stay \subseteq ToSet(got.frames)
    <2>1. a \in Frames /\ Grown(pool, backing.pool, frames) /\ backing.pool \in Pools
        BY <1>5, <1>8 DEF Grown
    <2>2. PICK P \in Pools : P = backing.pool
        BY <2>1
    <2>3. Handed(P, 3, Take(P, 3))
        BY Taken
    <2>4. PICK w : w = got
        OBVIOUS
    <2>5. w.frames \in Seq(Frames) /\ Grown(P, w.pool, ToSet(w.frames))
        BY <2>2, <2>3, <2>4, HandFacts DEF Handed
    <2> HIDE DEF got, frames
    <2>6. PICK O, F : O = pool /\ F = frames
        OBVIOUS
    <2>7. Grown(O, w.pool, F \cup ToSet(w.frames))
        BY <2>1, <2>2, <2>5, <2>6, GrownTwice
    <2>8. stay \subseteq ToSet(got.frames)
        <3>1. PICK f \in Seq(Frames) : f = w.frames
            BY <2>5
        <3>2. {f[i] : i \in DOMAIN f \cap {1}} \subseteq ToSet(f)
            BY Elements
        <3> QED BY <2>4, <3>1, <3>2
    <2> QED BY <2>1, <2>2, <2>4, <2>5, <2>6, <2>7, <2>8
<1>9. dma \cup leaked \subseteq dma' \cup leaked' /\ surfaces \subseteq surfaces'
    BY <1>2
<1>10. PageInv'
    <2>1. PICK k, k2, sf, sf2 : k = dma \cup leaked /\ k2 = dma' \cup leaked' /\ sf = surfaces /\ sf2 = surfaces'
        OBVIOUS
    <2>2. PagesShow(space, sf2, store, k2)
        BY <1>1, <1>9, <2>1, ShowsMore DEF PageInv
    <2> QED BY <1>2, <2>1, <2>2 DEF PageInv
<1> HIDE DEF got, stay, frames
<1>11. CASE /\ a # 0 /\ charge' = Uncharged(job.owner, SurfacePages) /\ UNCHANGED surfaces
            /\ pool' = Release(got.pool, (frames \cup ToSet(got.frames)) \ stay) /\ leaked' = leaked \cup stay
    <2>1. ChargeInv'
        BY <1>2, <1>3, <1>11, SurfaceGiven
    <2>2. SurfaceInv'
        BY <1>1, <1>2, <1>11 DEF SurfaceInv
    <2>3. PICK F, G : F = frames \cup ToSet(got.frames) /\ G = stay
        OBVIOUS
    <2>4. Grown(pool, got.pool, F) /\ G \subseteq F
        BY <1>8, <1>11, <2>3
    <2>5. pool' \in Pools /\ pool'.allocated = pool.allocated \cup G /\ G \cap pool.allocated = {}
        <3>1. PICK P \in Pools : P = got.pool
            BY <2>4 DEF Grown
        <3>2. pool' = Release(P, F \ G)
            BY <1>11, <2>3, <3>1
        <3>3. pool' \in Pools /\ pool'.allocated = P.allocated \ (F \ G)
            BY <3>2, Released
        <3> QED BY <2>4, <3>1, <3>3 DEF Grown
    <2>6. Owners(pool.allocated \cup G, space, surfaces, store, dma, tables2, leaked \cup G)
        BY <1>1, <2>5, LossGrows
    <2> QED BY <1>2, <1>6, <1>10, <1>11, <2>1, <2>2, <2>3, <2>5, <2>6 DEF FrameInv
<1>12. CASE /\ a # 0 /\ pool' = got.pool /\ surfaces' = surfaces \cup {s}
            /\ leaked' = leaked \cup ToSet(got.frames) /\ UNCHANGED charge
    <2>1. s \notin surfaces /\ s.owner = job.owner /\ s.slot = job.slot /\ s.first = a /\ s = [owner |-> s.owner, slot |-> s.slot, first |-> s.first]
        BY <1>3 DEF SurfaceRecord
    <2>2. SurfaceFrames(s) = frames
        BY <2>1 DEF SurfaceFrames, frames
    <2> HIDE DEF s
    <2>3. ChargeInv'
        BY <1>2, <1>3, <1>12, <2>1, SurfaceGiven
    <2>4. SurfaceInv'
        BY <1>1, <1>2, <1>3, <1>8, <1>12, <2>1 DEF SurfaceInv
    <2>5. PICK F, G : F = frames /\ G = ToSet(got.frames)
        OBVIOUS
    <2>6. /\ backing.pool.allocated = pool.allocated \cup F /\ F \cap pool.allocated = {}
          /\ pool' \in Pools /\ pool'.allocated = (pool.allocated \cup F) \cup G /\ G \cap (pool.allocated \cup F) = {}
        BY <1>8, <1>12, <2>5 DEF Grown
    <2>7. Owners(pool.allocated \cup SurfaceFrames(s), space, surfaces \cup {s}, store, dma, tables2, leaked)
        BY <1>1, <2>2, <2>5, <2>6, SurfaceMade
    <2>8. PICK A, sf : A = pool.allocated \cup F /\ sf = surfaces \cup {s}
        OBVIOUS
    <2>9. Owners(A \cup G, space, sf, store, dma, tables2, leaked \cup G)
        BY <2>2, <2>5, <2>6, <2>7, <2>8, LossGrows
    <2> QED BY <1>2, <1>6, <1>10, <1>12, <2>3, <2>4, <2>5, <2>6, <2>8, <2>9 DEF FrameInv
<1> QED BY <1>2, <1>7, <1>11, <1>12

LEMMA FinishSurfaceKeeps ==
    ASSUME FrameInv, ChargeInv, FinishSurface
    PROVE  FrameInv' /\ ChargeInv'
<1> DEFINE p == job.owner
           backing == Allocate(pool, SurfacePages)
           a == backing.first
           w == MapRegion(backing.pool, space[p], SurfaceRegion(job.slot), SurfacePages, From(a, SurfacePages))
           clash == \E g \in DOMAIN space[p].pages : g[1] = SurfaceRegion(job.slot) /\ g[2] \in 1 .. SurfacePages
           s == SurfaceRecord(a)
<1>1. /\ pool \in Pools /\ SpaceInv /\ SurfaceInv /\ StoreInv /\ DmaInv /\ PageInv
      /\ Owners(pool.allocated, space, surfaces, store, dma, tables2, leaked)
    BY DEF FrameInv
<1>2. /\ job # NoJob /\ space[p] # NoSpace /\ job' = NoJob
      /\ \/ /\ a # 0 /\ ~clash /\ w.ok
            /\ pool' = w.pool /\ space' = [space EXCEPT ![p] = w.space]
            /\ surfaces' = surfaces \cup {s} /\ UNCHANGED charge
         \/ /\ a = 0 \/ clash \/ ~w.ok
            /\ charge' = Uncharged(p, SurfacePages)
            /\ pool' = IF a = 0 THEN pool ELSE Release(IF clash THEN backing.pool ELSE w.pool, a .. a + SurfacePages - 1)
            /\ UNCHANGED <<space, surfaces>>
      /\ UNCHANGED <<life, store, handles, dma, iommu, tables2, leaked, spoiled, memOps>>
    BY Zenon DEF FinishSurface, UnchargedOnError
<1>3. /\ p \in Users /\ job.slot \in Nat /\ \A u \in surfaces : u.owner = p => u.slot # job.slot
    BY <1>1, <1>2 DEF SurfaceInv
<1>4. SurfacePages \in Nat \ {0}
    BY MemoryAssumption
<1>5. \/ a = 0 /\ backing.pool = pool
      \/ a \in Frames /\ Grown(pool, backing.pool, a .. a + SurfacePages - 1)
    BY <1>1, <1>4, Allocated
<1> HIDE DEF backing
<1>6. ASSUME a # 0
      PROVE  GivenMade(backing.pool, space[p], SurfaceRegion(job.slot), SurfacePages, From(a, SurfacePages), w)
    <2>1. a \in Frames /\ backing.pool \in Pools /\ pool.allocated \subseteq backing.pool.allocated
        BY <1>5, <1>6 DEF Grown
    <2>2. SpaceOk(space[p]) /\ SpaceFrames(space[p]) \subseteq backing.pool.allocated
        BY <1>1, <1>2, <1>3, <2>1, ClaimKept DEF SpaceInv
    <2>3. SurfaceRegion(job.slot) \in Regions
        BY <1>3 DEF Regions
    <2>4. From(a, SurfacePages) \in Seq(Frames) /\ From(a, SurfacePages) # << >> /\ SurfacePages <= Len(From(a, SurfacePages))
        BY <1>4, <2>1, FromFacts
    <2>5. PICK P \in Pools : P = backing.pool
        BY <2>1
    <2>6. PICK x, r, f : x = space[p] /\ r = SurfaceRegion(job.slot) /\ f = From(a, SurfacePages)
        OBVIOUS
    <2> QED BY <1>4, <2>2, <2>3, <2>4, <2>5, <2>6, GivenRegion
<1> HIDE DEF w, clash
<1>7. SpaceInv => space = [q \in Users |-> space[q]]
    BY DEF SpaceInv
<1>8. CASE /\ a # 0 /\ ~clash /\ w.ok
           /\ pool' = w.pool /\ space' = [space EXCEPT ![p] = w.space]
           /\ surfaces' = surfaces \cup {s} /\ UNCHANGED charge
    <2>1. PICK F : Grown(backing.pool, pool', F) /\ SpaceFrames(w.space) = SpaceFrames(space[p]) \cup F
        BY <1>6, <1>8 DEF GivenMade
    <2>2. SpaceOk(w.space) /\ w.space # NoSpace
        BY <1>6, <1>8, OkIsSpace DEF GivenMade
    <2>3. a \in Frames /\ backing.pool.allocated = pool.allocated \cup SurfaceFrames(s) /\ SurfaceFrames(s) \cap pool.allocated = {}
        BY <1>5, <1>8 DEF Grown, SurfaceFrames, SurfaceRecord
    <2>4. s \notin surfaces /\ s.owner = p /\ s.slot = job.slot /\ s.first = a /\ s = [owner |-> s.owner, slot |-> s.slot, first |-> s.first]
        BY <1>3 DEF SurfaceRecord
    <2> HIDE DEF s, a
    <2>5. Owners(pool.allocated \cup SurfaceFrames(s), space, surfaces \cup {s}, store, dma, tables2, leaked)
        BY <1>1, <2>3, SurfaceMade
    <2>6. pool' \in Pools /\ pool'.allocated = (pool.allocated \cup SurfaceFrames(s)) \cup F /\ F \cap (pool.allocated \cup SurfaceFrames(s)) = {}
        BY <2>1, <2>3 DEF Grown
    <2>7. Owners(pool'.allocated, space', surfaces', store, dma, tables2, leaked)
        <3>1. PICK x : x = w.space
            OBVIOUS
        <3>2. Owners((pool.allocated \cup SurfaceFrames(s)) \cup F, [space EXCEPT ![p] = x], surfaces \cup {s}, store, dma, tables2, leaked)
            BY <1>1, <1>2, <1>3, <1>7, <2>1, <2>2, <2>5, <2>6, <3>1, SpaceGrew
        <3> QED BY <1>8, <2>6, <3>1, <3>2
    <2>8. SpaceInv' /\ \A q \in Users : space'[q] = IF q = p THEN w.space ELSE space[q]
        BY <1>1, <1>2, <1>3, <1>8, <2>2, SpacesKept
    <2>9. SurfaceInv'
        BY <1>1, <1>2, <1>3, <1>8, <2>3, <2>4 DEF SurfaceInv
    <2>10. PageInv'
        <3>1. ASSUME NEW g \in DOMAIN w.space.pages
              PROVE  Shows(p, g, w.space.pages[g], surfaces', store, dma \cup leaked)
            <4>1. CASE g \in DOMAIN space[p].pages /\ w.space.pages[g] = space[p].pages[g]
                <5>1. Shows(p, g, space[p].pages[g], surfaces, store, dma \cup leaked)
                    BY <1>1, <1>2, <1>3, <4>1 DEF PageInv, PagesShow
                <5> QED BY <1>8, <4>1, <5>1 DEF Shows
            <4>2. CASE g[1] = SurfaceRegion(job.slot) /\ \E i \in 1 .. SurfacePages : g[2] = i /\ w.space.pages[g].frame = From(a, SurfacePages)[i]
                <5>1. w.space.pages[g].frame \in SurfaceFrames(s)
                    BY <1>4, <2>3, <2>4, <4>2, FromFacts DEF SurfaceFrames
                <5>2. SurfaceRegion(s.slot) = g[1] /\ g[2] \in 1 .. SurfacePages
                    BY <2>4, <4>2
                <5> QED BY <1>8, <2>4, <5>1, <5>2 DEF Shows
            <4> QED BY <1>6, <1>8, <4>1, <4>2 DEF GivenMade
        <3>2. \A q \in Users : space[q] # NoSpace => \A g \in DOMAIN space[q].pages : Shows(q, g, space[q].pages[g], surfaces', store, dma \cup leaked)
            BY <1>1, <1>8 DEF PageInv, PagesShow, Shows
        <3>3. PagesShow(space', surfaces', store, dma \cup leaked)
            BY <2>8, <3>1, <3>2 DEF PagesShow
        <3> QED BY <1>2, <3>3 DEF PageInv
    <2>11. ChargeInv'
        BY <1>2, <1>3, <1>8, <2>4, SurfaceGiven
    <2>12. StoreInv' /\ DmaInv'
        BY <1>1, <1>2 DEF StoreInv, DmaInv
    <2> QED BY <1>2, <2>6, <2>7, <2>8, <2>9, <2>10, <2>11, <2>12 DEF FrameInv
<1>9. CASE /\ a = 0 \/ clash \/ ~w.ok
           /\ charge' = Uncharged(p, SurfacePages)
           /\ pool' = IF a = 0 THEN pool ELSE Release(IF clash THEN backing.pool ELSE w.pool, a .. a + SurfacePages - 1)
           /\ UNCHANGED <<space, surfaces>>
    <2>1. pool' \in Pools /\ pool'.allocated = pool.allocated
        <3>1. CASE a = 0
            BY <1>1, <1>9, <3>1
        <3>2. CASE a # 0
            <4>1. PICK P, Q, R, F : /\ P = pool /\ Q = backing.pool /\ F = a .. a + SurfacePages - 1
                                    /\ R = IF clash THEN backing.pool ELSE w.pool
                OBVIOUS
            <4>2. Grown(Q, R, {}) /\ Grown(P, Q, F)
                <5>1. Grown(P, Q, F)
                    BY <1>5, <3>2, <4>1
                <5>2. Grown(Q, Q, {})
                    BY <5>1 DEF Grown
                <5> QED BY <1>6, <1>9, <3>2, <4>1, <5>1, <5>2 DEF GivenMade
            <4>3. Grown(P, R, F)
                <5>1. Grown(P, R, F \cup {})
                    BY <4>2, GrownTwice
                <5> QED BY <5>1
            <4>4. Grown(P, Release(R, F), {})
                BY <4>3, GrownBack
            <4> QED BY <1>9, <3>2, <4>1, <4>4 DEF Grown
        <3> QED BY <3>1, <3>2
    <2>2. SpaceInv' /\ SurfaceInv' /\ StoreInv' /\ DmaInv' /\ PageInv'
        BY <1>1, <1>2, <1>9 DEF SpaceInv, SurfaceInv, StoreInv, DmaInv, PageInv
    <2>3. ChargeInv'
        BY <1>2, <1>3, <1>9, SurfaceGiven
    <2> QED BY <1>1, <1>2, <1>9, <2>1, <2>2, <2>3 DEF FrameInv
<1> QED BY <1>2, <1>8, <1>9

(* A charge is given back together with what it was paid for.               *)
LEMMA PaidBack ==
    ASSUME ChargeInv, NEW p \in Users, NEW n \in Nat, charge' = Uncharged(p, n),
           IsFiniteSet(surfaces'), IsFiniteSet(DOMAIN store'),
           \A q \in Users : q # p => Accounted(q)' = Accounted(q),
           Accounted(p)' \in Nat, Accounted(p) = Accounted(p)' + n
    PROVE  ChargeInv'
<1>1. charge \in [Users -> 0 .. Quota] /\ \A q \in Users : charge[q] <= Accounted(q)
    BY DEF ChargeInv, ChargeIsGivenBack
<1>2. /\ charge' \in [Users -> 0 .. Quota]
      /\ \A q \in Users : q # p => charge'[q] = charge[q]
      /\ \A a \in Nat : charge[p] <= a + n => charge'[p] <= a
    BY <1>1, ChargeBack
<1>3. PICK a \in Nat : a = Accounted(p)'
    OBVIOUS
<1>4. charge'[p] <= a
    BY <1>1, <1>2, <1>3
<1>5. \A q \in Users : charge'[q] <= Accounted(q)'
    BY <1>1, <1>2, <1>3, <1>4
<1> QED BY <1>2, <1>5 DEF ChargeInv, ChargeIsGivenBack

LEMMA SurfaceTaken ==
    ASSUME ChargeInv, NEW s \in surfaces, s.owner \in Users, surfaces' = surfaces \ {s},
           charge' = Uncharged(s.owner, SurfacePages), UNCHANGED <<store, job>>
    PROVE  ChargeInv'
<1>1. SurfacePages \in Nat /\ IsFiniteSet(surfaces) /\ IsFiniteSet(DOMAIN store)
    BY MemoryAssumption DEF ChargeInv
<1>2. PICK sf : sf = surfaces \ {s}
    OBVIOUS
<1>3. sf \in SUBSET surfaces /\ s \notin sf /\ surfaces = sf \cup {s} /\ surfaces' = sf
    BY <1>2
<1>4. IsFiniteSet(sf)
    BY <1>1, <1>3, FS_Subset
<1>5. ASSUME NEW q \in Users
      PROVE  Accounted(q)' \in Nat /\ Accounted(q) = Accounted(q)' + (IF q = s.owner THEN SurfacePages ELSE 0)
    <2>1. PICK had, has : had = {u \in sf : u.owner = q} /\ has = {u \in surfaces : u.owner = q}
        OBVIOUS
    <2>2. OneMoreIn(sf, s, had, has) /\ (s \in has <=> s.owner = q)
        BY <1>3, <1>4, <2>1 DEF OneMoreIn
    <2>3. Cardinality(had) \in Nat /\ Cardinality(has) = Cardinality(had) + (IF s \in has THEN 1 ELSE 0)
        BY ONLY <2>2, OneCounted
    <2>4. PICK c \in Nat : c = Cardinality(had)
        BY <2>3
    <2>5. PICK b \in Nat : b = ObjectPages * Cardinality({o \in DOMAIN store : store[o].owner = q})
        BY Counts
    <2>6. PICK j \in Nat : j = IF job # NoJob /\ job.owner = q THEN SurfacePages ELSE 0
        BY <1>1
    <2>7. Accounted(q) = SurfacePages * Cardinality(has) + b + j
        BY <2>1, <2>5, <2>6 DEF Accounted
    <2>8. Accounted(q)' = SurfacePages * c + b + j
        BY <1>3, <2>1, <2>4, <2>5, <2>6 DEF Accounted
    <2>9. SurfacePages * c \in Nat /\ SurfacePages * (c + 1) = SurfacePages * c + SurfacePages
        BY <1>1, OneMore
    <2>10. CASE s.owner = q
        BY <1>1, <2>2, <2>3, <2>4, <2>7, <2>8, <2>9, <2>10
    <2>11. CASE s.owner # q
        BY <1>1, <2>2, <2>3, <2>4, <2>7, <2>8, <2>9, <2>11
    <2> QED BY <2>10, <2>11
<1> QED BY <1>1, <1>3, <1>4, <1>5, PaidBack

LEMMA RemoveSurfaceKeeps ==
    ASSUME FrameInv, ChargeInv, NEW s \in surfaces, RemoveSurface(s), UNCHANGED life
    PROVE  FrameInv' /\ ChargeInv'
<1> DEFINE p == s.owner
           region == SurfaceRegion(s.slot)
           u == UnmapRegion(pool, space[p], region, SurfacePages)
<1>1. /\ pool \in Pools /\ SpaceInv /\ SurfaceInv /\ StoreInv /\ DmaInv /\ PageInv
      /\ Owners(pool.allocated, space, surfaces, store, dma, tables2, leaked)
    BY DEF FrameInv
<1>2. /\ job = NoJob /\ space[p] # NoSpace
      /\ pool' = Release(u.pool, SurfaceFrames(s)) /\ space' = [space EXCEPT ![p] = u.space]
      /\ surfaces' = surfaces \ {s} /\ charge' = Uncharged(p, SurfacePages)
      /\ UNCHANGED <<job, store, handles, dma, iommu, tables2, leaked, spoiled>>
    BY Zenon DEF RemoveSurface, UnmapSurface, SurfaceFrames
<1>3. p \in Users /\ s.slot \in Nat
    BY <1>1 DEF SurfaceInv
<1>4. SpaceOk(space[p]) /\ SpaceFrames(space[p]) \subseteq pool.allocated /\ space = [q \in Users |-> space[q]]
    BY <1>1, <1>2, <1>3, ClaimKept DEF SpaceInv
<1>5. region \in Regions /\ ~Owned(region)
    BY <1>3 DEF Regions, Owned, SurfaceRegion
<1>6. UnmapMade(pool, space[p], region, SurfacePages, u)
    <2>1. PICK P \in Pools, x \in {space[p]}, r \in Regions : P = pool /\ r = region
        BY <1>1, <1>5
    <2>2. UnmapMade(P, x, r, SurfacePages, UnmapRegion(P, x, r, SurfacePages))
        BY <1>4, <1>5, <2>1, Unmapped
    <2> QED BY <2>1, <2>2
<1> HIDE DEF u
<1>7. PICK F \in SUBSET Nat : /\ u.pool.allocated = pool.allocated \ F
                              /\ SpaceFrames(u.space) = SpaceFrames(space[p]) \ F /\ F \cap pool.allocated \subseteq SpaceFrames(space[p])
    BY <1>6 DEF UnmapMade
<1>8. PICK w : w = u.space
    OBVIOUS
<1>9. SpaceOk(w) /\ w # NoSpace
    BY <1>6, <1>8, OkIsSpace DEF UnmapMade
<1>10. pool' \in Pools /\ pool'.allocated = (pool.allocated \ F) \ SurfaceFrames(s)
    <2>1. PICK P \in Pools : P = u.pool
        BY <1>6 DEF UnmapMade
    <2> QED BY <1>2, <1>7, <2>1, Released
<1>11. Owners(pool.allocated \ F, [space EXCEPT ![p] = w], surfaces, store, dma, tables2, leaked)
    BY <1>1, <1>2, <1>3, <1>4, <1>7, <1>8, <1>9, SpaceShrank
<1>12. Owners((pool.allocated \ F) \ SurfaceFrames(s), [space EXCEPT ![p] = w], surfaces \ {s}, store, dma, tables2, leaked)
    BY <1>11, SurfaceGone
<1>13. SpaceInv' /\ \A q \in Users : space'[q] = IF q = p THEN w ELSE space[q]
    <2>1. space' = [space EXCEPT ![p] = w]
        BY <1>2, <1>8
    <2> QED BY <1>1, <1>2, <1>3, <1>9, <2>1, SpacesKept
<1>14. SurfaceInv' /\ StoreInv' /\ DmaInv'
    BY <1>1, <1>2 DEF SurfaceInv, StoreInv, DmaInv
<1>15. PageInv'
    <2>1. ASSUME NEW q \in Users, space[q] # NoSpace, NEW g \in DOMAIN space[q].pages,
                 q = p => g[1] # region \/ g[2] \notin 1 .. SurfacePages
          PROVE  Shows(q, g, space[q].pages[g], surfaces', store, dma \cup leaked)
        <3>1. Shows(q, g, space[q].pages[g], surfaces, store, dma \cup leaked)
            BY <1>1, <2>1 DEF PageInv, PagesShow
        <3>2. ASSUME NEW v \in surfaces, v.owner = q, SurfaceRegion(v.slot) = g[1], g[2] \in 1 .. SurfacePages
              PROVE  v \in surfaces'
            BY <1>2, <2>1, <3>2
        <3> QED BY <3>1, <3>2 DEF Shows
    <2>2. ASSUME NEW g \in DOMAIN w.pages PROVE Shows(p, g, w.pages[g], surfaces', store, dma \cup leaked)
        <3>1. /\ g \in DOMAIN space[p].pages /\ w.pages[g] = space[p].pages[g]
              /\ g[1] # region \/ g[2] \notin 1 .. SurfacePages
            BY <1>6, <1>8, <2>2 DEF UnmapMade
        <3> QED BY <1>2, <1>3, <2>1, <3>1
    <2>3. ASSUME NEW q \in Users, q # p, space[q] # NoSpace, NEW g \in DOMAIN space[q].pages
          PROVE  Shows(q, g, space[q].pages[g], surfaces', store, dma \cup leaked)
        BY <2>1, <2>3
    <2>4. PagesShow(space', surfaces', store, dma \cup leaked)
        BY <1>13, <2>2, <2>3 DEF PagesShow
    <2> QED BY <1>2, <2>4 DEF PageInv
<1>16. ChargeInv'
    BY <1>2, <1>3, SurfaceTaken
<1>17. Owners(pool'.allocated, space', surfaces', store, dma, tables2, leaked)
    BY <1>2, <1>8, <1>10, <1>12
<1> QED BY <1>2, <1>10, <1>13, <1>14, <1>15, <1>16, <1>17 DEF FrameInv

(* What only moves a process on.                                            *)
LEMMA LifeKeeps ==
    ASSUME FrameInv, ChargeInv, NEW p \in Users, CommitPending(p) \/ ExitCurrent(p) \/ CheckSurfaces(p)
    PROVE  FrameInv' /\ ChargeInv'
<1>1. /\ \E x \in {"live", "exiting", "exited", "releasing"} : life' = [life EXCEPT ![p] = x]
      /\ life[p] \in {"pending", "live", "exiting"}
      /\ UNCHANGED <<pool, space, charge, surfaces, job, store, handles, dma, iommu, tables2, leaked, spoiled, memOps>>
    BY DEF CommitPending, ExitCurrent, CheckSurfaces
<1>2. PICK x \in {"live", "exiting", "exited", "releasing"} : life' = [life EXCEPT ![p] = x]
    BY <1>1
<1>3. SpaceInv
    BY DEF FrameInv
<1>4. SpaceInv'
    BY <1>1, <1>2, <1>3 DEF SpaceInv
<1>5. SurfaceInv' /\ StoreInv' /\ DmaInv' /\ PageInv'
    BY <1>1 DEF FrameInv, SurfaceInv, StoreInv, DmaInv, PageInv
<1>6. ChargeInv'
    BY <1>1, ChargeSame
<1> QED BY <1>1, <1>4, <1>5, <1>6 DEF FrameInv

LEMMA ReleaseKeeps ==
    ASSUME FrameInv, ChargeInv, NEW p \in Users, ReleaseAddressSpace(p)
    PROVE  FrameInv' /\ ChargeInv'
<1>1. /\ pool \in Pools /\ SpaceInv /\ SurfaceInv /\ StoreInv /\ DmaInv /\ PageInv
      /\ Owners(pool.allocated, space, surfaces, store, dma, tables2, leaked)
    BY DEF FrameInv
<1>2. /\ life[p] = "releasing"
      /\ pool' = Release(pool, SpaceFrames(space[p])) /\ space' = [space EXCEPT ![p] = NoSpace]
      /\ life' = [life EXCEPT ![p] = "exited"]
      /\ UNCHANGED <<charge, surfaces, job, store, handles, dma, iommu, tables2, leaked, spoiled, memOps>>
    BY DEF ReleaseAddressSpace, DestroyUserAddressSpace
<1>3. space[p] # NoSpace /\ space = [q \in Users |-> space[q]]
    BY <1>1, <1>2 DEF SpaceInv
<1>4. \A q \in Users : space'[q] = IF q = p THEN NoSpace ELSE space[q]
    BY <1>2, <1>3
<1>5. SpaceInv'
    <2>1. space' = [q \in Users |-> space'[q]]
        BY <1>2, <1>3
    <2> QED BY <1>1, <1>2, <1>4, <2>1 DEF SpaceInv
<1>6. pool' \in Pools /\ pool'.allocated = pool.allocated \ SpaceFrames(space[p])
    <2>1. PICK P \in Pools : P = pool
        BY <1>1
    <2> QED BY <1>2, <2>1, Released
<1>7. Owners(pool'.allocated, space', surfaces, store, dma, tables2, leaked)
    BY <1>1, <1>2, <1>3, <1>6, SpaceGone
<1>8. PageInv'
    BY <1>1, <1>2, <1>4 DEF PageInv, PagesShow
<1>9. SurfaceInv' /\ StoreInv' /\ DmaInv'
    BY <1>1, <1>2 DEF SurfaceInv, StoreInv, DmaInv
<1>10. ChargeInv'
    BY <1>2, ChargeSame
<1> QED BY <1>2, <1>5, <1>6, <1>7, <1>8, <1>9, <1>10 DEF FrameInv

-----------------------------------------------------------------------------
(* Memory objects *)

LEMMA OwnersCounted ==
    ASSUME ChargeInv, UNCHANGED <<charge, surfaces, job>>, DOMAIN store' = DOMAIN store,
           \A o \in DOMAIN store : store'[o].owner = store[o].owner
    PROVE  ChargeInv'
<1>1. \A q \in Users : {o \in DOMAIN store' : store'[o].owner = q} = {o \in DOMAIN store : store[o].owner = q}
    OBVIOUS
<1>2. \A q \in Users : Accounted(q)' = Accounted(q)
    BY <1>1, Zenon DEF Accounted
<1> QED BY <1>2 DEF ChargeInv, ChargeIsGivenBack

LEMMA BecomesFacts ==
    ASSUME StoreInv, NEW o \in DOMAIN store, NEW mapped \in Seq(Users), NEW refs, NEW destroyed,
           store' = Becomes(o, mapped, refs, destroyed)
    PROVE  /\ StoreInv' /\ DOMAIN store' = DOMAIN store /\ store'[o].mapped = mapped
           /\ \A x \in DOMAIN store : store'[x].frames = store[x].frames /\ store'[x].owner = store[x].owner
           /\ \A x \in DOMAIN store : x # o => store'[x] = store[x]
<1> DEFINE r == [owner |-> store[o].owner, frames |-> store[o].frames, mapped |-> mapped, refs |-> refs, destroyed |-> destroyed]
<1>1. store = [x \in DOMAIN store |-> store[x]]
    BY DEF StoreInv
<1>2. store' = [store EXCEPT ![o] = r]
    BY DEF Becomes
<1>3. r.owner = store[o].owner /\ r.frames = store[o].frames /\ r.mapped = mapped
    OBVIOUS
<1> HIDE DEF r
<1>4. /\ DOMAIN store' = DOMAIN store /\ store' = [x \in DOMAIN store' |-> store'[x]] /\ store'[o] = r
      /\ \A x \in DOMAIN store : x # o => store'[x] = store[x]
    BY <1>1, <1>2
<1>5. \A x \in DOMAIN store : store'[x].frames = store[x].frames /\ store'[x].owner = store[x].owner
    BY <1>3, <1>4
<1>6. \A x \in DOMAIN store : store'[x].mapped \in Seq(Users)
    BY <1>3, <1>4 DEF StoreInv
<1>7. StoreInv'
    BY <1>4, <1>5, <1>6 DEF StoreInv
<1> QED BY <1>3, <1>4, <1>5, <1>7

(* mem_dup, and mem_destroy of an object in use.                            *)
LEMMA ObjectKept ==
    ASSUME FrameInv, ChargeInv, NEW o \in DOMAIN store, NEW refs, NEW destroyed,
           store' = Becomes(o, store[o].mapped, refs, destroyed),
           UNCHANGED <<pool, space, life, charge, surfaces, job, dma, iommu, tables2, leaked>>
    PROVE  FrameInv' /\ ChargeInv'
<1>1. /\ pool \in Pools /\ SpaceInv /\ SurfaceInv /\ StoreInv /\ DmaInv /\ PageInv
      /\ Owners(pool.allocated, space, surfaces, store, dma, tables2, leaked)
    BY DEF FrameInv
<1>2. PICK m \in Seq(Users) : m = store[o].mapped
    BY <1>1 DEF StoreInv
<1>3. /\ StoreInv' /\ DOMAIN store' = DOMAIN store /\ store'[o].mapped = m
      /\ \A x \in DOMAIN store : store'[x].frames = store[x].frames /\ store'[x].owner = store[x].owner
      /\ \A x \in DOMAIN store : x # o => store'[x] = store[x]
    BY <1>1, <1>2, BecomesFacts
<1>4. \A x \in DOMAIN store : store'[x].mapped = store[x].mapped
    BY <1>2, <1>3
<1>5. Owners(pool.allocated, space, surfaces, store', dma, tables2, leaked)
    BY <1>1, <1>3, ObjectsSame
<1>6. PageInv'
    <2>1. ASSUME NEW q, NEW g, NEW f, Shows(q, g, f, surfaces, store, dma \cup leaked) PROVE Shows(q, g, f, surfaces, store', dma \cup leaked)
        BY <1>3, <1>4, <2>1 DEF Shows
    <2>2. PagesShow(space, surfaces, store', dma \cup leaked)
        BY <1>1, <2>1 DEF PageInv, PagesShow
    <2> QED BY <2>2 DEF PageInv
<1>7. SpaceInv' /\ SurfaceInv' /\ DmaInv'
    BY <1>1 DEF SpaceInv, SurfaceInv, DmaInv
<1>8. ChargeInv'
    BY <1>3, OwnersCounted
<1> QED BY <1>1, <1>3, <1>5, <1>6, <1>7, <1>8 DEF FrameInv

LEMMA MemDupKeeps ==
    ASSUME FrameInv, ChargeInv, NEW h, NEW g, NEW r, MemDup(h, g, r)
    PROVE  FrameInv' /\ ChargeInv'
<1>1. /\ handles[h].obj \in DOMAIN store
      /\ store' = Becomes(handles[h].obj, store[handles[h].obj].mapped, store[handles[h].obj].refs + 1, FALSE)
      /\ UNCHANGED <<pool, space, life, charge, surfaces, job, dma, iommu, tables2, leaked, spoiled>>
    BY Zenon DEF MemDup, MayMem
<1> QED BY <1>1, ObjectKept

(* The charge of an object that is dropped.                                 *)
LEMMA ObjectTaken ==
    ASSUME ChargeInv, NEW o \in DOMAIN store, store[o].owner \in Users, UNCHANGED <<surfaces, job>>,
           DOMAIN store' = DOMAIN store \ {o}, \A x \in DOMAIN store' : store'[x] = store[x],
           charge' = Uncharged(store[o].owner, ObjectPages)
    PROVE  ChargeInv'
<1>1. ObjectPages \in Nat /\ SurfacePages \in Nat /\ IsFiniteSet(surfaces) /\ IsFiniteSet(DOMAIN store)
    BY MemoryAssumption DEF ChargeInv
<1>2. PICK rest : rest = DOMAIN store'
    OBVIOUS
<1>3. rest \in SUBSET DOMAIN store /\ o \notin rest /\ DOMAIN store = rest \cup {o}
    BY <1>2
<1>4. IsFiniteSet(rest)
    BY <1>1, <1>3, FS_Subset
<1>5. PICK p \in Users : p = store[o].owner
    OBVIOUS
<1>6. ASSUME NEW q \in Users
      PROVE  Accounted(q)' \in Nat /\ Accounted(q) = Accounted(q)' + (IF q = p THEN ObjectPages ELSE 0)
    <2>1. PICK had, has : had = {x \in rest : store[x].owner = q} /\ has = {x \in DOMAIN store : store[x].owner = q}
        OBVIOUS
    <2>2. OneMoreIn(rest, o, had, has) /\ (o \in has <=> p = q)
        BY <1>3, <1>4, <1>5, <2>1 DEF OneMoreIn
    <2>3. Cardinality(had) \in Nat /\ Cardinality(has) = Cardinality(had) + (IF o \in has THEN 1 ELSE 0)
        BY ONLY <2>2, OneCounted
    <2>4. PICK c \in Nat : c = Cardinality(had)
        BY <2>3
    <2>5. PICK a \in Nat : a = SurfacePages * Cardinality({s \in surfaces : s.owner = q})
        BY Counts
    <2>6. PICK j \in Nat : j = IF job # NoJob /\ job.owner = q THEN SurfacePages ELSE 0
        BY <1>1
    <2>7. Accounted(q) = a + ObjectPages * Cardinality(has) + j
        BY <2>1, <2>5, <2>6 DEF Accounted
    <2>8. {x \in DOMAIN store' : store'[x].owner = q} = had
        BY <1>2, <2>1
    <2>9. Accounted(q)' = a + ObjectPages * c + j
        BY <2>4, <2>5, <2>6, <2>8 DEF Accounted
    <2>10. ObjectPages * c \in Nat /\ ObjectPages * (c + 1) = ObjectPages * c + ObjectPages
        BY <1>1, OneMore
    <2>11. CASE p = q
        BY <1>1, <2>2, <2>3, <2>4, <2>7, <2>9, <2>10, <2>11
    <2>12. CASE p # q
        BY <1>1, <2>2, <2>3, <2>4, <2>7, <2>9, <2>10, <2>12
    <2> QED BY <2>11, <2>12
<1> QED BY <1>1, <1>2, <1>4, <1>5, <1>6, PaidBack

LEMMA MemDestroyKeeps ==
    ASSUME FrameInv, ChargeInv, NEW h, MemDestroy(h)
    PROVE  FrameInv' /\ ChargeInv'
<1>1. /\ pool \in Pools /\ SpaceInv /\ SurfaceInv /\ StoreInv /\ DmaInv /\ PageInv
      /\ Owners(pool.allocated, space, surfaces, store, dma, tables2, leaked)
    BY DEF FrameInv
<1>2. PICK o : o = handles[h].obj
    OBVIOUS
<1>3. /\ o \in DOMAIN store
      /\ \/ /\ LastUse(o) /\ store' = Restrict(store, DOMAIN store \ {o})
            /\ pool' = Release(pool, ToSet(store[o].frames)) /\ charge' = Uncharged(store[o].owner, ObjectPages)
         \/ /\ store' = Becomes(o, store[o].mapped, Max({0, store[o].refs - 1}), TRUE)
            /\ UNCHANGED <<pool, charge>>
      /\ UNCHANGED <<space, life, surfaces, job, dma, iommu, tables2, leaked, spoiled>>
    BY <1>2, Zenon DEF MemDestroy, MayMem, Dropped
<1>4. CASE /\ LastUse(o) /\ store' = Restrict(store, DOMAIN store \ {o})
           /\ pool' = Release(pool, ToSet(store[o].frames)) /\ charge' = Uncharged(store[o].owner, ObjectPages)
    <2>1. /\ DOMAIN store' = DOMAIN store \ {o} /\ store' = [x \in DOMAIN store' |-> store'[x]]
          /\ \A x \in DOMAIN store' : store'[x] = store[x]
        BY <1>4 DEF Restrict
    <2>2. StoreInv'
        BY <1>1, <2>1 DEF StoreInv
    <2>3. ToSet(store[o].mapped) = {}
        BY <1>4 DEF LastUse, ToSet
    <2>4. PageInv'
        <3>1. ASSUME NEW q, NEW g, NEW f, Shows(q, g, f, surfaces, store, dma \cup leaked) PROVE Shows(q, g, f, surfaces, store', dma \cup leaked)
            <4>1. ASSUME NEW x \in DOMAIN store, q \in ToSet(store[x].mapped)
                  PROVE  x \in DOMAIN store' /\ store'[x] = store[x]
                BY <2>1, <2>3, <4>1
            <4> QED BY <3>1, <4>1 DEF Shows
        <3>2. PagesShow(space, surfaces, store', dma \cup leaked)
            BY <1>1, <3>1 DEF PageInv, PagesShow
        <3> QED BY <1>3, <3>2 DEF PageInv
    <2>5. pool' \in Pools /\ pool'.allocated = pool.allocated \ ToSet(store[o].frames)
        <3>1. PICK P \in Pools : P = pool
            BY <1>1
        <3>2. PICK F : F = ToSet(store[o].frames)
            OBVIOUS
        <3> QED BY <1>4, <3>1, <3>2, Released
    <2>6. Owners(pool'.allocated, space, surfaces, store', dma, tables2, leaked)
        <3>1. PICK st2 : st2 = store'
            OBVIOUS
        <3>2. DOMAIN st2 = DOMAIN store \ {o} /\ \A x \in DOMAIN st2 : st2[x].frames = store[x].frames
            BY <2>1, <3>1
        <3>3. Owners(pool.allocated \ ToSet(store[o].frames), space, surfaces, st2, dma, tables2, leaked)
            BY <1>1, <1>3, <3>2, ObjectGone
        <3> QED BY <2>5, <3>1, <3>3
    <2>7. SpaceInv' /\ SurfaceInv' /\ DmaInv'
        BY <1>1, <1>3 DEF SpaceInv, SurfaceInv, DmaInv
    <2>8. ChargeInv'
        BY <1>1, <1>3, <1>4, <2>1, ObjectTaken DEF StoreInv
    <2> QED BY <1>3, <2>2, <2>4, <2>5, <2>6, <2>7, <2>8 DEF FrameInv
<1>5. CASE /\ store' = Becomes(o, store[o].mapped, Max({0, store[o].refs - 1}), TRUE)
           /\ UNCHANGED <<pool, charge>>
    BY <1>3, <1>5, ObjectKept
<1> QED BY <1>3, <1>4, <1>5

LEMMA LeastIn ==
    ASSUME NEW I \in SUBSET Nat, I # {}
    PROVE  Min(I) \in I
<1>1. \E x \in I : \A y \in I : x <= y
    BY MinExists
<1> QED BY <1>1 DEF Min

LEMMA MemCreateFailsKeeps ==
    ASSUME FrameInv, ChargeInv, NEW p \in Users, MemCreateFails(p)
    PROVE  FrameInv' /\ ChargeInv'
<1> DEFINE got == Take(pool, ObjectPages)
<1>1. /\ pool' = Release(got.pool, ToSet(got.frames)) /\ charge' = Uncharged(p, ObjectPages)
      /\ UNCHANGED <<space, life, surfaces, job, store, handles, dma, iommu, tables2, leaked, spoiled>>
    BY Zenon DEF MemCreateFails
<1>2. pool \in Pools /\ ObjectPages \in Nat
    BY MemoryAssumption DEF FrameInv
<1>3. Handed(pool, ObjectPages, got)
    BY <1>2, Taken
<1> HIDE DEF got
<1>4. Grown(pool, pool', {})
    <2>1. PICK P, Q, F : P = pool /\ Q = got.pool /\ F = ToSet(got.frames)
        OBVIOUS
    <2>2. Grown(P, Q, F)
        BY <1>3, <2>1 DEF Handed
    <2> QED BY <1>1, <2>1, <2>2, GrownBack
<1>5. pool' \in Pools /\ pool'.allocated = pool.allocated
    BY <1>4 DEF Grown
<1>6. SpaceInv' /\ SurfaceInv' /\ StoreInv' /\ DmaInv' /\ PageInv'
    BY <1>1 DEF FrameInv, SpaceInv, SurfaceInv, StoreInv, DmaInv, PageInv
<1>7. FrameInv'
    BY <1>1, <1>5, <1>6 DEF FrameInv
<1>8. /\ charge' \in [Users -> 0 .. Quota] /\ \A q \in Users : q # p => charge'[q] = charge[q]
      /\ charge'[p] <= charge[p]
    BY <1>1, <1>2, ChargeBack DEF ChargeInv
<1>9. ASSUME NEW q \in Users PROVE charge'[q] <= Accounted(q)'
    <2>1. /\ charge[q] <= Accounted(q) /\ charge[q] \in 0 .. Quota /\ SurfacePages \in Nat
          /\ SurfacePages * Cardinality({s \in surfaces : s.owner = q}) \in Nat
          /\ ObjectPages * Cardinality({o \in DOMAIN store : store[o].owner = q}) \in Nat
        BY Counts
    <2>2. Accounted(q)' = Accounted(q) /\ Accounted(q) \in Nat
        BY <1>1, <2>1 DEF Accounted
    <2>3. charge'[q] <= charge[q] /\ charge'[q] \in 0 .. Quota /\ Quota \in Nat
        <3>1. Quota \in Nat /\ charge'[q] \in 0 .. Quota
            BY <1>8, MemoryAssumption
        <3>2. q # p => charge'[q] = charge[q]
            BY <1>8
        <3> QED BY <1>8, <2>1, <3>1, <3>2
    <2> QED BY <2>1, <2>2, <2>3
<1>10. ChargeInv'
    BY <1>1, <1>8, <1>9 DEF ChargeInv, ChargeIsGivenBack
<1> QED BY <1>7, <1>10

LEMMA MemCreateKeeps ==
    ASSUME FrameInv, ChargeInv, NEW p \in Users, NEW o, NEW h, MemCreate(p, o, h)
    PROVE  FrameInv' /\ ChargeInv'
<1> DEFINE got == Take(pool, ObjectPages)
           r == [owner |-> p, frames |-> got.frames, mapped |-> << >>, refs |-> 1, destroyed |-> FALSE]
<1>1. /\ pool \in Pools /\ SpaceInv /\ SurfaceInv /\ StoreInv /\ DmaInv /\ PageInv
      /\ Owners(pool.allocated, space, surfaces, store, dma, tables2, leaked)
    BY DEF FrameInv
<1>2. /\ o \notin DOMAIN store /\ charge[p] + ObjectPages <= Quota /\ pool' = got.pool
      /\ \/ /\ Len(got.frames) = ObjectPages /\ store' = Entered(store, o, r)
            /\ charge' = [charge EXCEPT ![p] = @ + ObjectPages] /\ UNCHANGED leaked
         \/ leaked' = leaked \cup ToSet(got.frames) /\ UNCHANGED <<store, charge>>
      /\ UNCHANGED <<space, life, surfaces, job, dma, iommu, tables2, spoiled>>
    BY Zenon DEF MemCreate, Fresh
<1>3. ObjectPages \in Nat \ {0} /\ Quota \in Nat /\ SurfacePages \in Nat
    BY MemoryAssumption
<1>4. Handed(pool, ObjectPages, got)
    BY <1>1, <1>3, Taken
<1>5. r.owner = p /\ r.frames = got.frames /\ r.mapped = << >>
    OBVIOUS
<1> HIDE DEF got, r
<1>6. /\ got.frames \in Seq(Frames) /\ pool' \in Pools /\ pool'.allocated = pool.allocated \cup ToSet(got.frames)
      /\ ToSet(got.frames) \cap pool.allocated = {}
    BY <1>2, <1>4, HandFacts DEF Handed, Grown
<1>7. SpaceInv' /\ SurfaceInv' /\ DmaInv'
    BY <1>1, <1>2 DEF SpaceInv, SurfaceInv, DmaInv
<1>8. CASE /\ Len(got.frames) = ObjectPages /\ store' = Entered(store, o, r)
           /\ charge' = [charge EXCEPT ![p] = @ + ObjectPages] /\ UNCHANGED leaked
    <2>1. /\ DOMAIN store' = DOMAIN store \cup {o} /\ store' = [x \in DOMAIN store' |-> store'[x]]
          /\ store'[o] = r /\ \A x \in DOMAIN store : store'[x] = store[x]
        BY <1>2, <1>8 DEF Entered
    <2>2. << >> \in Seq(Users)
        OBVIOUS
    <2>3. StoreInv'
        BY <1>1, <1>5, <1>6, <1>8, <2>1, <2>2 DEF StoreInv
    <2>4. PageInv'
        <3>1. ASSUME NEW q, NEW g, NEW f, Shows(q, g, f, surfaces, store, dma \cup leaked) PROVE Shows(q, g, f, surfaces, store', dma \cup leaked)
            BY <2>1, <3>1 DEF Shows
        <3>2. PagesShow(space, surfaces, store', dma \cup leaked)
            BY <1>1, <3>1 DEF PageInv, PagesShow
        <3> QED BY <1>2, <1>8, <3>2 DEF PageInv
    <2>5. Owners(pool'.allocated, space, surfaces, store', dma, tables2, leaked)
        <3>1. PICK st2 : st2 = store'
            OBVIOUS
        <3>2. DOMAIN st2 = DOMAIN store \cup {o} /\ (\A x \in DOMAIN store : st2[x].frames = store[x].frames) /\ st2[o].frames = got.frames
            BY <1>5, <2>1, <3>1
        <3>3. ToSet(st2[o].frames) \cap pool.allocated = {}
            BY <1>6, <3>2
        <3>4. Owners(pool.allocated \cup ToSet(st2[o].frames), space, surfaces, st2, dma, tables2, leaked)
            BY <1>1, <1>2, <3>2, <3>3, ObjectMade
        <3> QED BY <1>6, <3>1, <3>2, <3>4
    <2>6. charge \in [Users -> 0 .. Quota] /\ IsFiniteSet(DOMAIN store)
        BY DEF ChargeInv
    <2>7. charge' \in [Users -> 0 .. Quota] /\ \A q \in Users : charge'[q] = IF q = p THEN charge[p] + ObjectPages ELSE charge[q]
        BY <1>2, <1>3, <1>8, <2>6
    <2>8. ASSUME NEW q \in Users PROVE charge'[q] <= Accounted(q)'
        <3>1. PICK old, had, has : /\ old = DOMAIN store /\ had = {x \in old : store[x].owner = q}
                                   /\ has = {x \in DOMAIN store' : store'[x].owner = q}
            OBVIOUS
        <3>2. OneMoreIn(old, o, had, has) /\ (o \in has <=> p = q)
            BY <1>2, <1>5, <2>1, <2>6, <3>1 DEF OneMoreIn
        <3>3. Cardinality(had) \in Nat /\ Cardinality(has) = Cardinality(had) + (IF o \in has THEN 1 ELSE 0)
            BY ONLY <3>2, OneCounted
        <3>4. PICK c \in Nat : c = Cardinality(had)
            BY <3>3
        <3>5. PICK a \in Nat : a = SurfacePages * Cardinality({s \in surfaces : s.owner = q})
            BY Counts
        <3>6. PICK j \in Nat : j = IF job # NoJob /\ job.owner = q THEN SurfacePages ELSE 0
            BY <1>3
        <3>7. Accounted(q) = a + ObjectPages * c + j
            BY <3>1, <3>4, <3>5, <3>6 DEF Accounted
        <3>8. Accounted(q)' = a + ObjectPages * Cardinality(has) + j
            BY <1>2, <3>1, <3>5, <3>6 DEF Accounted
        <3>9. ObjectPages * c \in Nat /\ ObjectPages * (c + 1) = ObjectPages * c + ObjectPages
            BY <1>3, OneMore
        <3>10. charge[q] <= Accounted(q) /\ charge[q] \in 0 .. Quota
            BY Counts
        <3>11. CASE p = q
            BY <1>3, <2>7, <3>2, <3>3, <3>4, <3>7, <3>8, <3>9, <3>10, <3>11
        <3>12. CASE p # q
            BY <1>3, <2>7, <3>2, <3>3, <3>4, <3>7, <3>8, <3>9, <3>10, <3>12
        <3> QED BY <3>11, <3>12
    <2>9. IsFiniteSet(DOMAIN store')
        BY <2>1, <2>6, FS_AddElement
    <2>10. ChargeInv'
        BY <1>2, <2>7, <2>8, <2>9 DEF ChargeInv, ChargeIsGivenBack
    <2> QED BY <1>2, <1>6, <1>7, <1>8, <2>3, <2>4, <2>5, <2>10 DEF FrameInv
<1>9. CASE leaked' = leaked \cup ToSet(got.frames) /\ UNCHANGED <<store, charge>>
    <2>1. PICK F : F = ToSet(got.frames)
        OBVIOUS
    <2>2. Owners(pool.allocated \cup F, space, surfaces, store, dma, tables2, leaked \cup F)
        BY <1>1, <1>6, <2>1, LossGrows
    <2>3. StoreInv'
        BY <1>1, <1>2, <1>9 DEF StoreInv
    <2>4. PageInv'
        <3>1. PICK k, k2 : k = dma \cup leaked /\ k2 = dma' \cup leaked'
            OBVIOUS
        <3>2. k \subseteq k2
            BY <1>2, <1>9, <3>1
        <3>3. PagesShow(space, surfaces, store, k2)
            BY <1>1, <3>1, <3>2, ShowsMore DEF PageInv
        <3> QED BY <1>2, <1>9, <3>1, <3>3 DEF PageInv
    <2>5. ChargeInv'
        BY <1>2, <1>9, ChargeSame
    <2> QED BY <1>2, <1>6, <1>7, <1>9, <2>1, <2>2, <2>3, <2>4, <2>5 DEF FrameInv
<1> QED BY <1>2, <1>8, <1>9

(* A region of frames that another record keeps is mapped into the space    *)
(* of p, or nothing happens.                                                *)
MapStep(p, region, n, given, m) ==
    /\ m.pool \in Pools /\ SpaceOk(m.space) /\ m.ok \in BOOLEAN
    /\ Owners(m.pool.allocated, [space EXCEPT ![p] = m.space], surfaces, store, dma, tables2, leaked)
    /\ \A g \in DOMAIN m.space.pages :
          \/ g \in DOMAIN space[p].pages /\ m.space.pages[g] = space[p].pages[g]
          \/ m.ok /\ g[1] = region /\ \E i \in 1 .. n : g[2] = i /\ m.space.pages[g].frame = given[i]

LEMMA StepMapped ==
    ASSUME FrameInv, NEW p \in Users, space[p] # NoSpace, NEW region \in Regions, NEW n \in Nat,
           NEW given \in Seq(Frames), given # << >>, n <= Len(given)
    PROVE  MapStep(p, region, n, given, MapRegion(pool, space[p], region, n, given))
<1>1. /\ pool \in Pools /\ SpaceInv
      /\ Owners(pool.allocated, space, surfaces, store, dma, tables2, leaked)
    BY DEF FrameInv
<1>2. SpaceOk(space[p]) /\ SpaceFrames(space[p]) \subseteq pool.allocated /\ space = [q \in Users |-> space[q]]
    BY <1>1, ClaimKept DEF SpaceInv
<1>3. PICK P \in Pools, sp \in {space[p]} : P = pool
    BY <1>1
<1>4. PICK m : m = MapRegion(P, sp, region, n, given)
    OBVIOUS
<1>5. GivenMade(P, sp, region, n, given, m)
    BY <1>2, <1>3, <1>4, GivenRegion
<1>6. PICK w : w = m.space
    OBVIOUS
<1>7. \E F : Grown(P, m.pool, F) /\ SpaceFrames(w) = SpaceFrames(sp) \cup F
    <2>1. CASE m.ok = FALSE /\ m.space = sp /\ Grown(P, m.pool, {})
        <3>1. SpaceFrames(w) = SpaceFrames(sp) \cup {}
            BY <1>6, <2>1
        <3> QED BY <2>1, <3>1
    <2> QED BY <1>5, <1>6, <2>1 DEF GivenMade
<1>8. PICK F : Grown(P, m.pool, F) /\ SpaceFrames(w) = SpaceFrames(sp) \cup F
    BY <1>7
<1>9. SpaceOk(w) /\ w # NoSpace /\ m.ok \in BOOLEAN
    BY <1>2, <1>3, <1>5, <1>6, OkIsSpace DEF GivenMade
<1>10. m.pool \in Pools /\ m.pool.allocated = pool.allocated \cup F /\ F \cap pool.allocated = {}
    BY <1>3, <1>8 DEF Grown
<1>11. Owners(pool.allocated \cup F, [space EXCEPT ![p] = w], surfaces, store, dma, tables2, leaked)
    BY <1>1, <1>2, <1>3, <1>8, <1>9, <1>10, SpaceGrew
<1>12. \A g \in DOMAIN w.pages :
          \/ g \in DOMAIN sp.pages /\ w.pages[g] = sp.pages[g]
          \/ m.ok /\ g[1] = region /\ \E i \in 1 .. n : g[2] = i /\ w.pages[g].frame = given[i]
    BY <1>5, <1>6 DEF GivenMade
<1>13. MapStep(p, region, n, given, m)
    BY <1>3, <1>6, <1>9, <1>10, <1>11, <1>12 DEF MapStep
<1> QED BY <1>3, <1>4, <1>13

LEMMA MemMapKeeps ==
    ASSUME FrameInv, ChargeInv, NEW h, NEW p \in Users, MemMap(h, p)
    PROVE  FrameInv' /\ ChargeInv'
<1>1. /\ pool \in Pools /\ SpaceInv /\ SurfaceInv /\ StoreInv /\ DmaInv /\ PageInv
      /\ Owners(pool.allocated, space, surfaces, store, dma, tables2, leaked)
    BY DEF FrameInv
<1>2. PICK o : o = handles[h].obj
    OBVIOUS
<1> DEFINE region == <<"map", 0>>
           w == MapRegion(pool, space[p], region, ObjectPages, store[o].frames)
<1>3. /\ o \in DOMAIN store /\ space[p] # NoSpace
      /\ pool' = w.pool /\ space' = [space EXCEPT ![p] = w.space]
      /\ store' = IF w.ok THEN Becomes(o, Append(store[o].mapped, p), store[o].refs + 1, FALSE) ELSE store
      /\ UNCHANGED <<life, charge, surfaces, job, handles, dma, iommu, tables2, leaked, spoiled>>
    BY <1>2, Zenon DEF MemMap, MayMem
<1>4. ObjectPages \in Nat \ {0} /\ region \in Regions
    BY MemoryAssumption DEF Regions
<1>5. PICK f \in Seq(Frames) : f = store[o].frames
    BY <1>1, <1>3 DEF StoreInv
<1>6. Len(f) = ObjectPages /\ f # << >>
    BY <1>1, <1>3, <1>4, <1>5 DEF StoreInv
<1> HIDE DEF region
<1>7. MapStep(p, region, ObjectPages, f, w)
    BY <1>3, <1>4, <1>5, <1>6, StepMapped
<1> HIDE DEF w
<1>8. PICK x : x = w.space
    OBVIOUS
<1>9. SpaceOk(x) /\ space' = [space EXCEPT ![p] = x] /\ pool' \in Pools /\ w.ok \in BOOLEAN
    BY <1>3, <1>7, <1>8 DEF MapStep
<1>10. SpaceInv' /\ \A q \in Users : space'[q] = IF q = p THEN x ELSE space[q]
    BY <1>1, <1>3, <1>9, SpacesKept
<1>11. Owners(pool'.allocated, space', surfaces, store, dma, tables2, leaked)
    BY <1>3, <1>7 DEF MapStep
<1>12. /\ StoreInv' /\ DOMAIN store' = DOMAIN store
       /\ \A y \in DOMAIN store : store'[y].frames = store[y].frames /\ store'[y].owner = store[y].owner
       /\ \A y \in DOMAIN store : ToSet(store[y].mapped) \subseteq ToSet(store'[y].mapped)
       /\ w.ok => p \in ToSet(store'[o].mapped)
    <2>1. CASE w.ok
        <3>1. PICK m \in Seq(Users) : m = store[o].mapped
            BY <1>1, <1>3 DEF StoreInv
        <3>2. PICK m2 \in Seq(Users) : m2 = Append(m, p) /\ ToSet(m2) = ToSet(m) \cup {p}
            BY Appended
        <3>3. /\ StoreInv' /\ DOMAIN store' = DOMAIN store /\ store'[o].mapped = m2
              /\ \A y \in DOMAIN store : store'[y].frames = store[y].frames /\ store'[y].owner = store[y].owner
              /\ \A y \in DOMAIN store : y # o => store'[y] = store[y]
            <4>1. store' = Becomes(o, m2, store[o].refs + 1, FALSE)
                BY <1>3, <2>1, <3>1, <3>2
            <4> QED BY <1>1, <1>3, <4>1, BecomesFacts
        <3> QED BY <3>1, <3>2, <3>3
    <2>2. CASE ~w.ok
        BY <1>1, <1>3, <2>2 DEF StoreInv
    <2> QED BY <2>1, <2>2
<1>13. Owners(pool'.allocated, space', surfaces, store', dma, tables2, leaked)
    BY <1>11, <1>12, ObjectsSame
<1>14. PageInv'
    <2>1. ASSUME NEW q, NEW g, NEW e, Shows(q, g, e, surfaces, store, dma \cup leaked) PROVE Shows(q, g, e, surfaces, store', dma \cup leaked)
        BY <1>12, <2>1 DEF Shows
    <2>2. ASSUME NEW g \in DOMAIN x.pages PROVE Shows(p, g, x.pages[g], surfaces, store', dma \cup leaked)
        <3>1. CASE g \in DOMAIN space[p].pages /\ x.pages[g] = space[p].pages[g]
            BY <1>1, <1>3, <2>1, <3>1 DEF PageInv, PagesShow
        <3>2. CASE w.ok /\ g[1] = region /\ \E i \in 1 .. ObjectPages : g[2] = i /\ x.pages[g].frame = f[i]
            <4>1. x.pages[g].frame \in ToSet(f)
                BY <1>6, <3>2, Elements
            <4>2. x.pages[g].frame \in ToSet(store'[o].frames) /\ p \in ToSet(store'[o].mapped) /\ o \in DOMAIN store'
                BY <1>3, <1>5, <1>12, <3>2, <4>1
            <4>3. g[1] = <<"map", 0>> /\ g[2] \in 1 .. ObjectPages
                BY <3>2 DEF region
            <4> QED BY <4>2, <4>3 DEF Shows
        <3> QED BY <1>7, <1>8, <3>1, <3>2 DEF MapStep
    <2>3. ASSUME NEW q \in Users, space[q] # NoSpace, NEW g \in DOMAIN space[q].pages
          PROVE  Shows(q, g, space[q].pages[g], surfaces, store', dma \cup leaked)
        BY <1>1, <2>1, <2>3 DEF PageInv, PagesShow
    <2>4. PagesShow(space', surfaces, store', dma \cup leaked)
        BY <1>10, <2>2, <2>3 DEF PagesShow
    <2> QED BY <1>3, <2>4 DEF PageInv
<1>15. SurfaceInv' /\ DmaInv'
    BY <1>1, <1>3 DEF SurfaceInv, DmaInv
<1>16. ChargeInv'
    BY <1>3, <1>12, OwnersCounted
<1> QED BY <1>3, <1>9, <1>10, <1>12, <1>13, <1>14, <1>15, <1>16 DEF FrameInv

LEMMA SysMapDmaKeeps ==
    ASSUME FrameInv, ChargeInv, NEW p \in Users, NEW region \in DmaTargets, NEW n \in 1 .. DmaPages, SysMapDma(p, region, n)
    PROVE  FrameInv' /\ ChargeInv'
<1>1. /\ pool \in Pools /\ SpaceInv /\ SurfaceInv /\ StoreInv /\ DmaInv /\ PageInv
      /\ Owners(pool.allocated, space, surfaces, store, dma, tables2, leaked)
    BY DEF FrameInv
<1> DEFINE sp == Disowned(space[p], region, n)
           lost == OwnFrames(space[p]) \ OwnFrames(sp)
           w == MapRegion(pool, sp, region, n, From(Min(dma), n))
<1>2. /\ life[p] = "live" /\ dma # {} /\ pool' = w.pool /\ space' = [space EXCEPT ![p] = w.space]
      /\ leaked' = leaked \cup lost
      /\ UNCHANGED <<life, charge, surfaces, job, store, handles, dma, iommu, tables2, spoiled>>
    BY Zenon DEF SysMapDma
<1>3. space[p] # NoSpace /\ SpaceOk(space[p]) /\ DmaPages \in Nat /\ n \in Nat \ {0} /\ space = [q \in Users |-> space[q]]
    BY <1>1, <1>2, MemoryAssumption DEF SpaceInv
<1>4. region \in Regions
    <2>1. SurfaceSlots \in Nat
        BY MemoryAssumption
    <2> QED BY <2>1 DEF DmaTargets, Regions
<1>5. PICK a \in Frames : dma = a .. a + DmaPages - 1
    BY <1>1, <1>2 DEF DmaInv
<1>6. Min(dma) = a
    <2>1. a \in dma /\ (\A y \in dma : a <= y) /\ \A x \in dma : (\A y \in dma : x <= y) => x = a
        BY <1>3, <1>5 DEF Frames
    <2>2. Min(dma) = CHOOSE x \in dma : \A y \in dma : x <= y
        BY DEF Min
    <2> QED BY <2>1, <2>2, Zenon
<1>7. PICK f \in Seq(Frames) : f = From(Min(dma), n) /\ f # << >> /\ n <= Len(f) /\ \A i \in 1 .. n : f[i] \in dma
    <2>1. From(a, n) \in Seq(Frames) /\ From(a, n) # << >> /\ Len(From(a, n)) = n
          /\ \A i \in 1 .. n : From(a, n)[i] = a + i - 1 /\ a + i - 1 \in a .. a + n - 1
        BY <1>3, FromFacts
    <2>2. \A i \in 1 .. n : a + i - 1 \in dma
        BY <1>3, <1>5 DEF Frames
    <2> QED BY <1>3, <1>6, <2>1, <2>2
<1>8. /\ SpaceOk(sp) /\ SpaceFrames(sp) = SpaceFrames(space[p]) \ lost
      /\ DOMAIN sp.pages = DOMAIN space[p].pages
      /\ \A g \in DOMAIN space[p].pages : sp.pages[g].frame = space[p].pages[g].frame
      /\ \A g \in DOMAIN space[p].pages : space[p].pages[g].own => sp.pages[g].own \/ space[p].pages[g].frame \in lost
    <2>1. PICK x : x = space[p]
        OBVIOUS
    <2> QED BY <1>3, <2>1, DisownedFacts
<1> HIDE DEF sp
<1>9. PICK x, F : x = sp /\ F = lost /\ x # NoSpace /\ SpaceOk(x)
    BY <1>8, OkIsSpace
<1>10. F \subseteq SpaceFrames(space[p]) /\ SpaceFrames(x) = SpaceFrames(space[p]) \ F /\ leaked' = leaked \cup F
    BY <1>2, <1>8, <1>9 DEF SpaceFrames
<1> HIDE DEF lost
<1>11. Owners(pool.allocated, [space EXCEPT ![p] = x], surfaces, store, dma, tables2, leaked \cup F)
    BY <1>1, <1>3, <1>9, <1>10, SpaceLost
<1>12. PICK S : S = [space EXCEPT ![p] = x]
    OBVIOUS
<1>13. S = [q \in Users |-> S[q]] /\ S[p] = x
    BY <1>3, <1>12
<1>14. PICK P \in Pools, m \in {w} : P = pool
    BY <1>1
<1>15. SpaceFrames(x) \subseteq P.allocated
    BY <1>9, <1>11, <1>12, <1>13, <1>14, ClaimKept
<1>16. GivenMade(P, x, region, n, f, m)
    BY <1>3, <1>4, <1>7, <1>9, <1>14, <1>15, GivenRegion
<1> HIDE DEF w
<1>17. PICK y : y = m.space
    OBVIOUS
<1>18. \E G : Grown(P, m.pool, G) /\ SpaceFrames(y) = SpaceFrames(x) \cup G
    <2>1. CASE m.ok = FALSE /\ m.space = x /\ Grown(P, m.pool, {})
        <3>1. SpaceFrames(y) = SpaceFrames(x) \cup {}
            BY <1>17, <2>1
        <3> QED BY <2>1, <3>1
    <2> QED BY <1>16, <1>17, <2>1 DEF GivenMade
<1>19. PICK G : Grown(P, m.pool, G) /\ SpaceFrames(y) = SpaceFrames(x) \cup G
    BY <1>18
<1>20. SpaceOk(y) /\ y # NoSpace
    BY <1>9, <1>16, <1>17, OkIsSpace DEF GivenMade
<1>21. pool' \in Pools /\ pool'.allocated = pool.allocated \cup G /\ G \cap pool.allocated = {}
    BY <1>2, <1>14, <1>19 DEF Grown
<1>22. Owners(pool.allocated \cup G, [S EXCEPT ![p] = y], surfaces, store, dma, tables2, leaked \cup F)
    <2>1. PICK A, l : A = pool.allocated /\ l = leaked \cup F
        OBVIOUS
    <2>2. Owners(A, S, surfaces, store, dma, tables2, l) /\ S[p] # NoSpace /\ SpaceFrames(y) = SpaceFrames(S[p]) \cup G /\ G \cap A = {}
        BY <1>9, <1>11, <1>12, <1>13, <1>19, <1>21, <2>1
    <2>3. Owners(A \cup G, [S EXCEPT ![p] = y], surfaces, store, dma, tables2, l)
        BY <1>13, <1>20, <2>2, SpaceGrew
    <2> QED BY <2>1, <2>3
<1>23. [S EXCEPT ![p] = y] = space'
    BY <1>2, <1>3, <1>12, <1>14, <1>17
<1>24. SpaceInv' /\ \A q \in Users : space'[q] = IF q = p THEN y ELSE space[q]
    <2>1. space' = [space EXCEPT ![p] = y]
        BY <1>2, <1>14, <1>17
    <2> QED BY <1>1, <1>2, <1>3, <1>20, <2>1, SpacesKept
<1>25. PageInv'
    <2>1. PICK k2 : k2 = dma \cup leaked'
        OBVIOUS
    <2>2. F \subseteq k2 /\ dma \subseteq k2 /\ leaked \subseteq k2
        BY <1>10, <2>1
    <2>3. PagesShow(space, surfaces, store, k2)
        <3>1. PICK k : k = dma \cup leaked
            OBVIOUS
        <3>2. k \subseteq k2
            BY <2>2, <3>1
        <3> QED BY <1>1, <3>1, <3>2, ShowsMore DEF PageInv
    <2>4. ASSUME NEW g \in DOMAIN x.pages PROVE Shows(p, g, x.pages[g], surfaces, store, k2)
        <3>1. Shows(p, g, space[p].pages[g], surfaces, store, k2)
            BY <1>3, <1>8, <1>9, <2>3, <2>4 DEF PagesShow
        <3>2. x.pages[g].frame = space[p].pages[g].frame /\ (space[p].pages[g].own => x.pages[g].own \/ x.pages[g].frame \in k2)
            BY <1>8, <1>9, <2>2, <2>4
        <3> QED BY <3>1, <3>2 DEF Shows
    <2>5. ASSUME NEW g \in DOMAIN y.pages PROVE Shows(p, g, y.pages[g], surfaces, store, k2)
        <3>1. CASE g \in DOMAIN x.pages /\ y.pages[g] = x.pages[g]
            BY <2>4, <3>1
        <3>2. CASE \E i \in 1 .. n : g[2] = i /\ y.pages[g].frame = f[i]
            BY <1>7, <2>2, <3>2 DEF Shows
        <3> QED BY <1>16, <1>17, <3>1, <3>2 DEF GivenMade
    <2>6. PagesShow(space', surfaces, store, k2)
        BY <1>24, <2>3, <2>5 DEF PagesShow
    <2> QED BY <1>2, <2>1, <2>6 DEF PageInv
<1>26. SurfaceInv' /\ DmaInv' /\ StoreInv'
    BY <1>1, <1>2 DEF SurfaceInv, DmaInv, StoreInv
<1>27. ChargeInv'
    BY <1>2, ChargeSame
<1>28. Owners(pool'.allocated, space', surfaces', store', dma', tables2', leaked')
    BY <1>2, <1>10, <1>21, <1>22, <1>23
<1> QED BY <1>21, <1>24, <1>25, <1>26, <1>27, <1>28 DEF FrameInv

(* The objects' region of p is unmapped, if p still has a space.            *)
UnmapStep(p, u) ==
    /\ u.pool \in Pools /\ (u.space = NoSpace \/ SpaceOk(u.space)) /\ (u.space = NoSpace <=> space[p] = NoSpace)
    /\ Owners(u.pool.allocated, [space EXCEPT ![p] = u.space], surfaces, store, dma, tables2, leaked)
    /\ u.space # NoSpace => \A g \in DOMAIN u.space.pages :
          /\ g \in DOMAIN space[p].pages /\ u.space.pages[g] = space[p].pages[g]
          /\ g[1] # <<"map", 0>> \/ g[2] \notin 1 .. ObjectPages

LEMMA StepUnmapped ==
    ASSUME FrameInv, NEW p \in Users
    PROVE  UnmapStep(p, IF space[p] = NoSpace THEN [pool |-> pool, space |-> NoSpace]
                        ELSE UnmapRegion(pool, space[p], <<"map", 0>>, ObjectPages))
<1>1. /\ pool \in Pools /\ SpaceInv
      /\ Owners(pool.allocated, space, surfaces, store, dma, tables2, leaked)
    BY DEF FrameInv
<1>2. space = [q \in Users |-> space[q]]
    BY <1>1 DEF SpaceInv
<1>3. CASE space[p] = NoSpace
    <2>1. PICK u : u = [pool |-> pool, space |-> NoSpace]
        OBVIOUS
    <2>2. u.pool = pool /\ u.space = NoSpace
        BY <2>1
    <2>3. [space EXCEPT ![p] = u.space] = space
        BY <1>2, <1>3, <2>2
    <2>4. UnmapStep(p, u)
        BY <1>1, <1>3, <2>2, <2>3 DEF UnmapStep
    <2> QED BY <1>3, <2>1, <2>4
<1>4. CASE space[p] # NoSpace
    <2>1. SpaceOk(space[p]) /\ SpaceFrames(space[p]) \subseteq pool.allocated
        BY <1>1, <1>4, ClaimKept DEF SpaceInv
    <2>2. PICK region \in Regions : region = <<"map", 0>> /\ ~Owned(region)
        <3>1. <<"map", 0>> \in Regions
            BY DEF Regions
        <3>2. ~Owned(<<"map", 0>>)
            BY DEF Owned
        <3> QED BY <3>1, <3>2, Zenon
    <2>3. PICK P \in Pools, sp \in {space[p]} : P = pool
        BY <1>1
    <2>4. PICK u : u = UnmapRegion(P, sp, region, ObjectPages)
        OBVIOUS
    <2>5. UnmapMade(P, sp, region, ObjectPages, u)
        BY <2>1, <2>2, <2>3, <2>4, Unmapped
    <2>6. PICK F \in SUBSET Nat : /\ u.pool.allocated = P.allocated \ F
                                  /\ SpaceFrames(u.space) = SpaceFrames(sp) \ F /\ F \cap P.allocated \subseteq SpaceFrames(sp)
        BY <2>5 DEF UnmapMade
    <2>7. PICK w : w = u.space
        OBVIOUS
    <2>8. SpaceOk(w) /\ w # NoSpace /\ u.pool \in Pools
        BY <2>5, <2>7, OkIsSpace DEF UnmapMade
    <2>9. Owners(pool.allocated \ F, [space EXCEPT ![p] = w], surfaces, store, dma, tables2, leaked)
        BY <1>1, <1>2, <1>4, <2>3, <2>6, <2>7, <2>8, SpaceShrank
    <2>10. \A g \in DOMAIN w.pages : /\ g \in DOMAIN sp.pages /\ w.pages[g] = sp.pages[g]
                                     /\ g[1] # region \/ g[2] \notin 1 .. ObjectPages
        BY <2>5, <2>7 DEF UnmapMade
    <2>11. UnmapStep(p, u)
        BY <1>4, <2>2, <2>3, <2>6, <2>7, <2>8, <2>9, <2>10 DEF UnmapStep
    <2> QED BY <1>4, <2>2, <2>3, <2>4, <2>11
<1> QED BY <1>3, <1>4

LEMMA MemUnmapKeeps ==
    ASSUME FrameInv, ChargeInv, NEW h, NEW p \in Users, MemUnmap(h, p)
    PROVE  FrameInv' /\ ChargeInv'
<1>1. /\ pool \in Pools /\ SpaceInv /\ SurfaceInv /\ StoreInv /\ DmaInv /\ PageInv
      /\ Owners(pool.allocated, space, surfaces, store, dma, tables2, leaked)
    BY DEF FrameInv
<1>2. PICK o : o = handles[h].obj
    OBVIOUS
<1> DEFINE at == SelectInSeq(store[o].mapped, LAMBDA q : q = p)
           rest == RemoveAt(store[o].mapped, at)
           u == IF space[p] = NoSpace THEN [pool |-> pool, space |-> NoSpace]
                ELSE UnmapRegion(pool, space[p], <<"map", 0>>, ObjectPages)
<1>3. /\ o \in DOMAIN store /\ at # 0 /\ space' = [space EXCEPT ![p] = u.space]
      /\ \/ /\ rest = << >> /\ store' = Restrict(store, DOMAIN store \ {o})
            /\ pool' = Release(u.pool, ToSet(store[o].frames))
            /\ charge' = Uncharged(store[o].owner, ObjectPages)
         \/ /\ store' = Becomes(o, rest, Max({0, store[o].refs - 1}), store[o].destroyed)
            /\ pool' = u.pool /\ UNCHANGED charge
      /\ UNCHANGED <<life, surfaces, job, handles, dma, iommu, tables2, leaked, spoiled>>
    BY <1>2, Zenon DEF MemUnmap, MayMem, Dropped
<1>4. PICK m \in Seq(Users) : m = store[o].mapped
    BY <1>1, <1>3 DEF StoreInv
<1>5. at \in 1 .. Len(m) /\ m[at] = p
    <2> DEFINE I == {i \in 1 .. Len(m) : m[i] = p}
    <2>1. SelectInSeq(m, LAMBDA q : q = p) = IF I # {} THEN Min(I) ELSE 0
        BY DEF SelectInSeq
    <2>2. at = IF I # {} THEN Min(I) ELSE 0
        BY <1>4, <2>1
    <2>3. I \in SUBSET Nat
        OBVIOUS
    <2>4. at \in I
        <3> HIDE DEF I, at
        <3> QED BY <1>3, <2>2, <2>3, LeastIn
    <2> HIDE DEF at
    <2> QED BY <2>4
<1>6. UnmapStep(p, u)
    BY StepUnmapped
<1> HIDE DEF u, at
<1>7. PICK k \in 1 .. Len(m) : k = at /\ m[k] = p
    BY <1>5
<1>8. PICK r \in Seq(Users) : r = rest /\ \A y \in ToSet(m) : y # p => y \in ToSet(r)
    BY <1>4, <1>7, Removed
<1> HIDE DEF rest
<1>9. PICK x : x = u.space
    OBVIOUS
<1>10. space' = [space EXCEPT ![p] = x] /\ (x = NoSpace \/ SpaceOk(x)) /\ (x = NoSpace <=> space[p] = NoSpace) /\ u.pool \in Pools
    BY <1>3, <1>6, <1>9 DEF UnmapStep
<1>11. space = [q \in Users |-> space[q]]
    BY <1>1 DEF SpaceInv
<1>12. space' = [q \in Users |-> space'[q]] /\ \A q \in Users : space'[q] = IF q = p THEN x ELSE space[q]
    BY <1>10, <1>11
<1>13. SpaceInv'
    <2>1. \A q \in Users : space'[q] = NoSpace \/ SpaceOk(space'[q])
        BY <1>1, <1>10, <1>12 DEF SpaceInv
    <2>2. \A q \in Users : space'[q] = NoSpace <=> space[q] = NoSpace
        BY <1>10, <1>12
    <2> QED BY <1>1, <1>3, <1>12, <2>1, <2>2 DEF SpaceInv
<1>14. Owners(u.pool.allocated, space', surfaces, store, dma, tables2, leaked)
    BY <1>3, <1>6 DEF UnmapStep
<1>15. ASSUME DOMAIN store' \subseteq DOMAIN store,
              \A y \in DOMAIN store : y # o => y \in DOMAIN store' /\ store'[y] = store[y],
              o \in DOMAIN store' => store'[o].mapped = r /\ store'[o].frames = store[o].frames,
              o \notin DOMAIN store' => r = << >>
       PROVE  PageInv'
    <2>1. ASSUME NEW q \in Users, q # p, NEW g, NEW f, Shows(q, g, f, surfaces, store, dma \cup leaked)
          PROVE  Shows(q, g, f, surfaces, store', dma \cup leaked)
        <3>1. ASSUME NEW y \in DOMAIN store, q \in ToSet(store[y].mapped)
              PROVE  y \in DOMAIN store' /\ store'[y].frames = store[y].frames /\ q \in ToSet(store'[y].mapped)
            <4>1. CASE y = o
                <5>1. q \in ToSet(r)
                    BY <1>4, <1>8, <2>1, <3>1, <4>1
                <5>2. r # << >>
                    BY <5>1 DEF ToSet
                <5> QED BY <1>15, <4>1, <5>1, <5>2
            <4>2. CASE y # o
                BY <1>15, <3>1, <4>2
            <4> QED BY <4>1, <4>2
        <3> QED BY <2>1, <3>1 DEF Shows
    <2>2. ASSUME x # NoSpace, NEW g \in DOMAIN x.pages PROVE Shows(p, g, x.pages[g], surfaces, store', dma \cup leaked)
        <3>1. /\ g \in DOMAIN space[p].pages /\ x.pages[g] = space[p].pages[g]
              /\ g[1] # <<"map", 0>> \/ g[2] \notin 1 .. ObjectPages
            BY <1>6, <1>9, <2>2 DEF UnmapStep
        <3>2. Shows(p, g, x.pages[g], surfaces, store, dma \cup leaked)
            BY <1>1, <1>10, <2>2, <3>1 DEF PageInv, PagesShow
        <3> QED BY <3>1, <3>2 DEF Shows
    <2>3. ASSUME NEW q \in Users, q # p, space[q] # NoSpace, NEW g \in DOMAIN space[q].pages
          PROVE  Shows(q, g, space[q].pages[g], surfaces, store', dma \cup leaked)
        BY <1>1, <2>1, <2>3 DEF PageInv, PagesShow
    <2>4. PagesShow(space', surfaces, store', dma \cup leaked)
        BY <1>12, <2>2, <2>3 DEF PagesShow
    <2> QED BY <1>3, <2>4 DEF PageInv
<1>16. SurfaceInv' /\ DmaInv'
    BY <1>1, <1>3 DEF SurfaceInv, DmaInv
<1>17. CASE /\ rest = << >> /\ store' = Restrict(store, DOMAIN store \ {o})
            /\ pool' = Release(u.pool, ToSet(store[o].frames))
            /\ charge' = Uncharged(store[o].owner, ObjectPages)
    <2>1. /\ DOMAIN store' = DOMAIN store \ {o} /\ store' = [y \in DOMAIN store' |-> store'[y]]
          /\ \A y \in DOMAIN store' : store'[y] = store[y]
        BY <1>17 DEF Restrict
    <2>2. StoreInv'
        BY <1>1, <2>1 DEF StoreInv
    <2>3. PageInv'
        BY <1>8, <1>15, <1>17, <2>1
    <2>4. pool' \in Pools /\ pool'.allocated = u.pool.allocated \ ToSet(store[o].frames)
        <3>1. PICK P \in Pools : P = u.pool
            BY <1>10
        <3>2. PICK F : F = ToSet(store[o].frames)
            OBVIOUS
        <3> QED BY <1>17, <3>1, <3>2, Released
    <2>5. Owners(pool'.allocated, space', surfaces, store', dma, tables2, leaked)
        <3>1. PICK st2, A, sp : st2 = store' /\ A = u.pool.allocated /\ sp = space'
            OBVIOUS
        <3>2. DOMAIN st2 = DOMAIN store \ {o} /\ \A y \in DOMAIN st2 : st2[y].frames = store[y].frames
            BY <2>1, <3>1
        <3>3. Owners(A \ ToSet(store[o].frames), sp, surfaces, st2, dma, tables2, leaked)
            BY <1>3, <1>14, <3>1, <3>2, ObjectGone
        <3> QED BY <2>4, <3>1, <3>3
    <2>6. ChargeInv'
        BY <1>1, <1>3, <1>17, <2>1, ObjectTaken DEF StoreInv
    <2> QED BY <1>3, <1>13, <1>16, <2>2, <2>3, <2>4, <2>5, <2>6 DEF FrameInv
<1>18. CASE /\ store' = Becomes(o, rest, Max({0, store[o].refs - 1}), store[o].destroyed)
            /\ pool' = u.pool /\ UNCHANGED charge
    <2>1. /\ StoreInv' /\ DOMAIN store' = DOMAIN store /\ store'[o].mapped = r
          /\ \A y \in DOMAIN store : store'[y].frames = store[y].frames /\ store'[y].owner = store[y].owner
          /\ \A y \in DOMAIN store : y # o => store'[y] = store[y]
        BY <1>1, <1>3, <1>8, <1>18, BecomesFacts
    <2>2. PageInv'
        BY <1>3, <1>15, <2>1
    <2>3. Owners(pool'.allocated, space', surfaces, store', dma, tables2, leaked)
        <3>1. PICK st2, A, sp : st2 = store' /\ A = u.pool.allocated /\ sp = space'
            OBVIOUS
        <3>2. Owners(A, sp, surfaces, st2, dma, tables2, leaked)
            BY <1>14, <2>1, <3>1, ObjectsSame
        <3> QED BY <1>18, <3>1, <3>2
    <2>4. ChargeInv'
        BY <1>3, <1>18, <2>1, OwnersCounted
    <2> QED BY <1>3, <1>10, <1>13, <1>16, <1>18, <2>1, <2>2, <2>3, <2>4 DEF FrameInv
<1> QED BY <1>3, <1>17, <1>18

-----------------------------------------------------------------------------
(* DMA *)

LEMMA ProbeKeeps ==
    ASSUME FrameInv, ChargeInv, ProbeIommu
    PROVE  FrameInv' /\ ChargeInv'
<1> DEFINE got == Take(pool, 3)
<1>1. /\ pool \in Pools /\ SpaceInv /\ SurfaceInv /\ StoreInv /\ DmaInv /\ PageInv
      /\ Owners(pool.allocated, space, surfaces, store, dma, tables2, leaked)
    BY DEF FrameInv
<1>2. /\ tables2 = {} /\ pool' = got.pool
      /\ \/ tables2' = ToSet(got.frames) /\ UNCHANGED leaked
         \/ leaked' = leaked \cup ToSet(got.frames) /\ UNCHANGED tables2
      /\ UNCHANGED <<space, life, charge, surfaces, job, store, handles, dma, iommu, spoiled>>
    BY Zenon DEF ProbeIommu
<1>3. Handed(pool, 3, got)
    BY <1>1, Taken
<1> HIDE DEF got
<1>4. PICK F : F = ToSet(got.frames)
    OBVIOUS
<1>5. pool' \in Pools /\ pool'.allocated = pool.allocated \cup F /\ F \cap pool.allocated = {}
    BY <1>2, <1>3, <1>4 DEF Handed, Grown
<1>6. Owners(pool.allocated \cup F, space, surfaces, store, dma, tables2 \cup F, leaked)
    BY <1>1, <1>5, TablesGrow
<1>7. Owners(pool.allocated \cup F, space, surfaces, store, dma, tables2, leaked \cup F)
    BY <1>1, <1>5, LossGrows
<1>8. SpaceInv' /\ SurfaceInv' /\ StoreInv' /\ DmaInv' /\ PageInv'
    <2>1. SpaceInv' /\ SurfaceInv' /\ StoreInv' /\ DmaInv'
        BY <1>1, <1>2 DEF SpaceInv, SurfaceInv, StoreInv, DmaInv
    <2>2. PICK k, k2 : k = dma \cup leaked /\ k2 = dma' \cup leaked'
        OBVIOUS
    <2>3. k \subseteq k2
        BY <1>2, <2>2
    <2>4. PagesShow(space, surfaces, store, k2)
        BY <1>1, <2>2, <2>3, ShowsMore DEF PageInv
    <2> QED BY <1>2, <2>1, <2>2, <2>4 DEF PageInv
<1>9. ChargeInv'
    BY <1>2, ChargeSame
<1>10. tables2 \cup F = F
    BY <1>2
<1>11. Owners(pool'.allocated, space, surfaces, store, dma, tables2', leaked')
    BY <1>2, <1>4, <1>5, <1>6, <1>7, <1>10
<1> QED BY <1>2, <1>5, <1>8, <1>9, <1>11 DEF FrameInv

LEMMA RegisterKeeps ==
    ASSUME FrameInv, ChargeInv, RegisterDmaRegion
    PROVE  FrameInv' /\ ChargeInv'
<1> DEFINE region == Allocate(pool, DmaPages)
           frames == region.first .. region.first + DmaPages - 1
           t == MapIommuDmaRange(region.pool)
<1>1. /\ pool \in Pools /\ SpaceInv /\ SurfaceInv /\ StoreInv /\ DmaInv /\ PageInv
      /\ Owners(pool.allocated, space, surfaces, store, dma, tables2, leaked)
    BY DEF FrameInv
<1>2. /\ dma = {} /\ region.first # 0 /\ pool' = t.pool /\ dma' = frames /\ tables2' = tables2 \cup ToSet(t.frames)
      /\ iommu' = (IF tables2 = {} THEN iommu ELSE iommu \cup frames)
      /\ UNCHANGED <<space, life, charge, surfaces, job, store, handles, leaked, spoiled>>
    BY Zenon DEF RegisterDmaRegion
<1>3. DmaPages \in Nat \ {0}
    BY MemoryAssumption
<1>4. region.first \in Frames /\ Grown(pool, region.pool, frames)
    BY <1>1, <1>2, <1>3, Allocated
<1> HIDE DEF region
<1>5. PICK P \in Pools, F \in {frames} : P = region.pool /\ P.allocated = pool.allocated \cup F /\ F \cap pool.allocated = {}
    BY <1>4 DEF Grown
<1>6. \E G : Grown(P, t.pool, G) /\ G = ToSet(t.frames)
    <2>1. CASE tables2 = {}
        <3>1. t.pool = P /\ t.frames = << >>
            BY <1>5, <2>1 DEF MapIommuDmaRange
        <3>2. ToSet(<< >>) = {}
            BY DEF ToSet
        <3> HIDE DEF t
        <3> QED BY <3>1, <3>2 DEF Grown
    <2>2. CASE tables2 # {}
        <3>1. t = Take(P, 3)
            BY <1>5, <2>2 DEF MapIommuDmaRange
        <3>2. Handed(P, 3, Take(P, 3))
            BY Taken
        <3> HIDE DEF t
        <3> QED BY <3>1, <3>2 DEF Handed
    <2> QED BY <2>1, <2>2
<1> HIDE DEF t
<1>7. PICK G : Grown(P, t.pool, G) /\ G = ToSet(t.frames)
    BY <1>6
<1>8. pool' \in Pools /\ pool'.allocated = (pool.allocated \cup F) \cup G /\ G \cap (pool.allocated \cup F) = {}
    BY <1>2, <1>5, <1>7 DEF Grown
<1>9. Owners(pool.allocated \cup F, space, surfaces, store, F, tables2, leaked)
    BY <1>1, <1>2, <1>5, DmaMade
<1>10. Owners((pool.allocated \cup F) \cup G, space, surfaces, store, F, tables2 \cup G, leaked)
    BY <1>8, <1>9, TablesGrow
<1>11. Owners(pool'.allocated, space', surfaces', store', dma', tables2', leaked')
    BY <1>2, <1>5, <1>7, <1>8, <1>10
<1>12. PageInv'
    <2>1. PICK k, k2 : k = dma \cup leaked /\ k2 = dma' \cup leaked'
        OBVIOUS
    <2>2. k \subseteq k2
        BY <1>2, <2>1
    <2>3. PagesShow(space, surfaces, store, k2)
        BY <1>1, <2>1, <2>2, ShowsMore DEF PageInv
    <2> QED BY <1>2, <2>1, <2>3 DEF PageInv
<1>13. SpaceInv' /\ SurfaceInv' /\ StoreInv'
    BY <1>1, <1>2 DEF SpaceInv, SurfaceInv, StoreInv
<1>14. DmaInv'
    <2>1. iommu = {}
        BY <1>1, <1>2 DEF DmaInv
    <2>2. iommu' \in {{}, dma'}
        BY <1>2, <2>1
    <2> QED BY <1>2, <1>4, <2>2 DEF DmaInv
<1>15. ChargeInv'
    BY <1>2, ChargeSame
<1> QED BY <1>8, <1>11, <1>12, <1>13, <1>14, <1>15 DEF FrameInv

-----------------------------------------------------------------------------
(* The invariant *)

LEMMA MemStarts ==
    ASSUME MemInit
    PROVE  FrameInv /\ ChargeInv
<1>1. /\ pool = [next |-> [i \in DOMAIN Extents |-> Extents[i][1]], recycled |-> {}, allocated |-> {}]
      /\ space = [p \in Users |-> NoSpace] /\ life = [p \in Users |-> "none"] /\ charge = [p \in Users |-> 0]
      /\ surfaces = {} /\ job = NoJob /\ store = << >> /\ dma = {} /\ iommu = {} /\ tables2 = {} /\ leaked = {}
    BY DEF MemInit
<1>2. pool \in Pools
    <2>1. [i \in DOMAIN Extents |-> Extents[i][1]] \in [DOMAIN Extents -> Nat]
        BY ExtentFacts DEF Frames
    <2>2. \A i \in DOMAIN Extents : Extents[i][1] <= Extents[i][1]
        BY ExtentFacts DEF Frames
    <2>3. PICK nx \in [DOMAIN Extents -> Nat] : /\ nx = [i \in DOMAIN Extents |-> Extents[i][1]]
                                                /\ \A i \in DOMAIN Extents : Extents[i][1] <= nx[i]
        BY <2>1, <2>2
    <2>4. [next |-> nx, recycled |-> {}, allocated |-> {}] \in Pools
        BY <2>3, PoolMade
    <2> QED BY <1>1, <2>3, <2>4
<1>3. SpaceInv
    BY <1>1 DEF SpaceInv
<1>4. SurfaceInv
    BY <1>1 DEF SurfaceInv
<1>5. StoreInv
    BY <1>1 DEF StoreInv
<1>6. DmaInv
    BY <1>1 DEF DmaInv
<1>7. PageInv
    BY <1>1 DEF PageInv, PagesShow
<1>8. Owners(pool.allocated, space, surfaces, store, dma, tables2, leaked)
    <2> DEFINE C == ClaimsOf(space, {}, << >>, {}, {}, {})
    <2>1. \A c \in C : c[3] = {}
        <3> SUFFICES ASSUME NEW c \in C PROVE c[3] = {}
            OBVIOUS
        <3>1. c = <<"dma", 0, {}>> \/ c = <<"iommu", 0, {}>> \/ c = <<"lost", 0, {}>>
            BY <1>1, ClaimIs
        <3> QED BY <3>1
    <2>2. pool.allocated = {}
        BY <1>1
    <2> HIDE DEF C
    <2>3. OneOwner({}, C)
        BY <2>1 DEF OneOwner
    <2> QED BY <1>1, <2>2, <2>3 DEF Owners, C
<1>9. ChargeInv
    <2>1. Quota \in Nat /\ SurfacePages \in Nat /\ ObjectPages \in Nat
        BY MemoryAssumption
    <2>2. charge \in [Users -> 0 .. Quota]
        BY <1>1, <2>1
    <2>3. IsFiniteSet(surfaces) /\ IsFiniteSet(DOMAIN store)
        BY <1>1, FS_EmptySet
    <2>4. ASSUME NEW p \in Users PROVE Accounted(p) = 0
        <3>1. {s \in surfaces : s.owner = p} = {} /\ {o \in DOMAIN store : store[o].owner = p} = {}
            BY <1>1
        <3>2. Cardinality({}) = 0
            BY FS_EmptySet
        <3>3. ~(job # NoJob /\ job.owner = p)
            BY <1>1
        <3>4. Cardinality({s \in surfaces : s.owner = p}) = 0 /\ Cardinality({o \in DOMAIN store : store[o].owner = p}) = 0
            BY <3>1, <3>2, Zenon
        <3> QED BY <2>1, <3>3, <3>4 DEF Accounted
    <2>5. ChargeIsGivenBack
        BY <1>1, <2>4 DEF ChargeIsGivenBack
    <2> QED BY <2>2, <2>3, <2>5 DEF ChargeInv
<1> QED BY <1>2, <1>3, <1>4, <1>5, <1>6, <1>7, <1>8, <1>9 DEF FrameInv

LEMMA MemKeeps ==
    ASSUME FrameInv, ChargeInv, [MemNext]_memVars
    PROVE  FrameInv' /\ ChargeInv'
<1>1. CASE FinishSurface
    BY <1>1, FinishSurfaceKeeps
<1>2. CASE FinishSurfaceInFreedSpace
    BY <1>2, FreedSpaceKeeps
<1>3. CASE ProbeIommu
    BY <1>3, ProbeKeeps
<1>4. CASE RegisterDmaRegion
    BY <1>4, RegisterKeeps
<1>5. CASE \E s \in surfaces : DestroySurface(s) \/ CleanupSurface(s)
    <2>1. PICK s \in surfaces : RemoveSurface(s) /\ UNCHANGED life
        BY <1>5 DEF DestroySurface, CleanupSurface
    <2> QED BY <2>1, RemoveSurfaceKeeps
<1>6. ASSUME NEW p \in Users, \E next \in {"pending", "live"} : SpawnProcess(p, next)
      PROVE  FrameInv' /\ ChargeInv'
    BY <1>6, SpawnKeeps
<1>7. ASSUME NEW p \in Users, ChargeSurface(p)
      PROVE  FrameInv' /\ ChargeInv'
    BY <1>7, ChargeSurfaceKeeps
<1>8. ASSUME NEW p \in Users, CommitPending(p) \/ ExitCurrent(p) \/ CheckSurfaces(p)
      PROVE  FrameInv' /\ ChargeInv'
    BY <1>8, LifeKeeps
<1>9. ASSUME NEW p \in Users, ReleaseAddressSpace(p)
      PROVE  FrameInv' /\ ChargeInv'
    BY <1>9, ReleaseKeeps
<1>10. ASSUME NEW p \in Users, MemCreateFails(p)
       PROVE  FrameInv' /\ ChargeInv'
    BY <1>10, MemCreateFailsKeeps
<1>11. ASSUME NEW p \in Users, \E region \in DmaTargets, n \in 1 .. DmaPages : SysMapDma(p, region, n)
       PROVE  FrameInv' /\ ChargeInv'
    BY <1>11, SysMapDmaKeeps
<1>12. ASSUME NEW p \in Users, \E o \in Objects, h \in MemHandles : MemCreate(p, o, h)
       PROVE  FrameInv' /\ ChargeInv'
    BY <1>12, MemCreateKeeps
<1>13. ASSUME NEW p \in Users, \E h \in DOMAIN handles : MemMap(h, p) \/ MemUnmap(h, p)
       PROVE  FrameInv' /\ ChargeInv'
    BY <1>13, MemMapKeeps, MemUnmapKeeps
<1>14. ASSUME NEW h \in DOMAIN handles,
              MemDestroy(h) \/ \E g \in MemHandles, r \in {Rights, {"map"}} : MemDup(h, g, r)
       PROVE  FrameInv' /\ ChargeInv'
    BY <1>14, MemDestroyKeeps, MemDupKeeps
<1>15. CASE UNCHANGED memVars
    <2>1. ChargeInv'
        BY <1>15, ChargeSame DEF memVars
    <2>2. SpaceInv' /\ SurfaceInv' /\ StoreInv' /\ DmaInv' /\ PageInv'
        BY <1>15 DEF memVars, FrameInv, SpaceInv, SurfaceInv, StoreInv, DmaInv, PageInv
    <2> QED BY <1>15, <2>1, <2>2 DEF memVars, FrameInv
<1> QED BY <1>1, <1>2, <1>3, <1>4, <1>5, <1>6, <1>7, <1>8, <1>9, <1>10, <1>11, <1>12, <1>13, <1>14, <1>15, Zenon
        DEF MemNext

(* What the invariant says of frames, pages and charges.                    *)
LEMMA MemSays ==
    ASSUME FrameInv, ChargeInv
    PROVE  MemorySound
<1>1. /\ pool \in Pools /\ SpaceInv /\ SurfaceInv /\ StoreInv /\ DmaInv /\ PageInv
      /\ Owners(pool.allocated, space, surfaces, store, dma, tables2, leaked)
    BY DEF FrameInv
<1>2. MemTypeOK
    <2>1. pool.recycled \cap pool.allocated = {}
        BY <1>1 DEF Pools
    <2>2. \A p \in Users : charge[p] \in 0 .. Quota
        BY DEF ChargeInv
    <2> QED BY <1>1, <2>1, <2>2 DEF MemTypeOK, SpaceInv, DmaInv
<1>3. FramesHaveOneOwner
    <2>1. Claims = ClaimsOf(space, surfaces, store, dma, tables2, leaked)
        BY DEF Claims, ClaimsOf, LiveSpaces
    <2> QED BY <1>1, <2>1 DEF FramesHaveOneOwner, Owners, OneOwner
<1>4. ASSUME NEW p \in LiveSpaces, NEW g \in DOMAIN space[p].pages
      PROVE  LET shown == space[p].pages[g]
             IN  \/ shown.own /\ shown.frame \in pool.allocated
                 \/ shown.frame \in dma \cup leaked
                 \/ \E o \in DOMAIN store : shown.frame \in ToSet(store[o].frames)
                 \/ \E s \in surfaces : s.owner = p /\ shown.frame \in SurfaceFrames(s)
    <2>1. p \in Users /\ space[p] # NoSpace
        BY <1>4 DEF LiveSpaces
    <2>2. PICK shown : shown = space[p].pages[g]
        OBVIOUS
    <2>3. Shows(p, g, shown, surfaces, store, dma \cup leaked)
        BY <1>1, <1>4, <2>1, <2>2 DEF PageInv, PagesShow
    <2>4. shown.own => shown.frame \in pool.allocated
        <3>1. SpaceFrames(space[p]) \subseteq pool.allocated
            BY <1>1, <2>1, ClaimKept
        <3>2. shown.own => shown.frame \in OwnFrames(space[p])
            BY <1>4, <2>2 DEF OwnFrames
        <3> QED BY <3>1, <3>2 DEF SpaceFrames
    <2> QED BY <2>2, <2>3, <2>4 DEF Shows
<1>5. NoDanglingPage
    BY <1>4, Zenon DEF NoDanglingPage
<1>6. ChargeIsGivenBack
    BY DEF ChargeInv
<1> QED BY <1>2, <1>3, <1>5, <1>6 DEF MemorySound

(* However often spawning, mapping or an allocation fails half way, a       *)
(* process ends, an object is destroyed under its mappings or a DMA region  *)
(* is mapped over pages that are there, a frame of frame_pool.rs has one    *)
(* owner, is free or is lost for good, no page of an address space shows a  *)
(* frame that may be given to somebody else, and nobody is charged for more *)
(* pages than it holds; but for the tables that surface.rs writes in a      *)
(* space that was released under it, frames and pages are no longer spoken  *)
(* of once their root has been somebody else's.                             *)
THEOREM FramesAreSound == MemSpec => []MemorySound
<1>1. MemInit => FrameInv /\ ChargeInv
    BY MemStarts
<1>2. (FrameInv /\ ChargeInv) /\ [MemNext]_memVars => (FrameInv /\ ChargeInv)'
    BY MemKeeps
<1>3. FrameInv /\ ChargeInv => MemorySound
    BY MemSays
<1> QED BY <1>1, <1>2, <1>3, PTL DEF MemSpec

-----------------------------------------------------------------------------
(* The file tree *)

(* The parts of paths.                                                       *)
Parts == {"bin", "etc", "home", "sys", "proc", "dev", "hello", "hostname", "g"}
         \cup UNION {{path[i] : i \in 1 .. Len(path)} : path \in UserPaths}

(* A tree whose paths are sequences and whose nodes have their parents.      *)
WholeTree(t) == TreeOK(t) /\ \A q \in DOMAIN t : q \in Seq(Parts)

(* A node is put in place of nothing, of a file, or is itself a directory:   *)
(* what was a directory stays one.                                           *)
LEMMA PutKeeps ==
    ASSUME NEW t, NEW path \in Seq(Parts), NEW node, WholeTree(t),
           ParentFound(t, path), node.dir \/ ~IsDir(t, path)
    PROVE  WholeTree(Put(t, path, node))
<1> DEFINE u == Put(t, path, node)
<1>1. /\ DOMAIN u = DOMAIN t \cup {path} /\ u[path] = node
      /\ \A q \in DOMAIN t : q # path => u[q] = t[q]
    BY DEF Put
<1> HIDE DEF u
<1>2. ASSUME NEW x, IsDir(t, x) PROVE IsDir(u, x)
    BY <1>1, <1>2 DEF IsDir
<1>3. \A q \in DOMAIN u : IsDir(u, Front(q))
    BY <1>1, <1>2 DEF WholeTree, TreeOK, ParentFound
<1>4. \A q \in DOMAIN u : q \in Seq(Parts)
    BY <1>1 DEF WholeTree
<1> QED BY <1>3, <1>4 DEF WholeTree, TreeOK, ParentFound, u

LEMMA FrontPrefix ==
    ASSUME NEW s \in Seq(Parts), NEW q \in Seq(Parts), IsPrefix(s, Front(q))
    PROVE  IsPrefix(s, q)
<1>0. Len(q) \in Nat /\ Len(s) \in Nat /\ \A i \in 1 .. Len(q) : q[i] \in Parts
    OBVIOUS
<1>1. CASE q = << >>
    <2>1. Front(q) = << >>
        BY <1>1, SubSeqEmpty DEF Front
    <2> QED BY <1>1, <2>1
<1>2. CASE q # << >>
    <2> DEFINE f == Front(q)
    <2>1. Len(q) > 0
        BY <1>2
    <2>2. /\ f \in Seq(Parts) /\ Len(f) = Len(q) - 1
          /\ \A i \in 1 .. Len(q) - 1 : f[i] = q[i]
        <3>1. \A i \in 1 .. Len(q) - 1 : q[i] \in Parts
            BY <1>0
        <3>2. /\ f \in Seq(Parts) /\ Len(f) = IF 1 <= Len(q) - 1 THEN (Len(q) - 1) - 1 + 1 ELSE 0
              /\ \A i \in 1 .. (Len(q) - 1) - 1 + 1 : f[i] = q[1 + i - 1]
            BY <1>0, <3>1, SubSeqProperties DEF Front
        <3> HIDE DEF f
        <3>3. Len(f) = Len(q) - 1
            <4>1. CASE Len(q) = 1
                BY <3>2, <4>1
            <4>2. CASE Len(q) > 1
                <5>1. 1 <= Len(q) - 1
                    BY <1>0, <4>2
                <5>2. Len(f) = (Len(q) - 1) - 1 + 1
                    BY <3>2, <5>1
                <5> QED BY <1>0, <5>2
            <4>3. Len(q) = 1 \/ Len(q) > 1
                <5>1. PICK n \in Nat : n = Len(q)
                    BY <1>0
                <5>2. n > 0
                    BY <2>1, <5>1
                <5>3. n = 1 \/ n > 1
                    BY ONLY n \in Nat, <5>2
                <5> QED BY <5>1, <5>3
            <4> QED BY <4>1, <4>2, <4>3, Zenon
        <3>4. ASSUME NEW i \in 1 .. Len(q) - 1 PROVE f[i] = q[i]
            <4>1. i \in 1 .. (Len(q) - 1) - 1 + 1 /\ 1 + i - 1 = i
                BY <1>0
            <4>2. f[i] = q[1 + i - 1]
                BY <3>2, <4>1
            <4> QED BY <4>1, <4>2
        <3> QED BY <3>2, <3>3, <3>4
    <2> HIDE DEF f
    <2>3. Len(s) <= Len(q) - 1 /\ SubSeq(s, 1, Len(s)) = SubSeq(f, 1, Len(s))
        BY <2>2 DEF IsPrefix, f
    <2> DEFINE a == SubSeq(f, 1, Len(s))
               b == SubSeq(q, 1, Len(s))
    <2>4. a \in Seq(Parts) /\ Len(a) = Len(s) /\ \A i \in 1 .. Len(s) : a[i] = f[i]
        <3>1. \A i \in 1 .. Len(s) : f[i] \in Parts
            BY <1>0, <2>2, <2>3
        <3>2. /\ a \in Seq(Parts) /\ Len(a) = IF 1 <= Len(s) THEN Len(s) - 1 + 1 ELSE 0
              /\ \A i \in 1 .. Len(s) - 1 + 1 : a[i] = f[1 + i - 1]
            BY <1>0, <3>1, SubSeqProperties
        <3> HIDE DEF a
        <3> QED BY <1>0, <3>2
    <2>5. b \in Seq(Parts) /\ Len(b) = Len(s) /\ \A i \in 1 .. Len(s) : b[i] = q[i]
        <3>1. \A i \in 1 .. Len(s) : q[i] \in Parts
            BY <1>0, <2>3
        <3>2. /\ b \in Seq(Parts) /\ Len(b) = IF 1 <= Len(s) THEN Len(s) - 1 + 1 ELSE 0
              /\ \A i \in 1 .. Len(s) - 1 + 1 : b[i] = q[1 + i - 1]
            BY <1>0, <3>1, SubSeqProperties
        <3> HIDE DEF b
        <3> QED BY <1>0, <3>2
    <2>6. a = b
        <3> HIDE DEF a, b
        <3>1. \A i \in 1 .. Len(a) : a[i] = b[i]
            BY <1>0, <2>2, <2>3, <2>4, <2>5
        <3> QED BY <2>4, <2>5, <3>1, SeqEqual
    <2> QED BY <1>0, <2>3, <2>6 DEF IsPrefix
<1> QED BY <1>1, <1>2

(* What is kept of a tree is a tree when with a path its parents are kept.   *)
LEMMA PartKeeps ==
    ASSUME NEW t, WholeTree(t), NEW K \in SUBSET DOMAIN t,
           \A q \in K : Front(q) \in DOMAIN t => Front(q) \in K
    PROVE  WholeTree(Restrict(t, K))
<1> DEFINE u == Restrict(t, K)
<1>1. DOMAIN u = K /\ \A q \in K : u[q] = t[q]
    BY DEF Restrict
<1> HIDE DEF u
<1>2. ASSUME NEW q \in K PROVE IsDir(u, Front(q))
    <2>1. IsDir(t, Front(q))
        BY DEF WholeTree, TreeOK, ParentFound
    <2> QED BY <1>1, <2>1 DEF IsDir
<1>3. \A q \in K : q \in Seq(Parts)
    BY DEF WholeTree
<1> QED BY <1>1, <1>2, <1>3 DEF WholeTree, TreeOK, ParentFound, u

LEMMA WithoutKeeps ==
    ASSUME NEW t, WholeTree(t), NEW path \in Seq(Parts)
    PROVE  WholeTree(Without(t, path))
<1> DEFINE K == {q \in DOMAIN t : ~IsPrefix(path, q)}
<1>1. \A q \in K : Front(q) \in DOMAIN t => Front(q) \in K
    BY FrontPrefix DEF WholeTree
<1>2. K \in SUBSET DOMAIN t
    OBVIOUS
<1> HIDE DEF K
<1>3. WholeTree(Restrict(t, K))
    BY <1>1, <1>2, PartKeeps
<1> QED BY <1>3 DEF Without, K

LEMMA SerializeKeeps ==
    ASSUME NEW t, WholeTree(t)
    PROVE  WholeTree(Serialize(t))
<1> DEFINE K == {q \in DOMAIN t : Persistent(q)}
<1>1. \A q \in K : Front(q) \in DOMAIN t => Front(q) \in K
    <2> SUFFICES ASSUME NEW q \in K, Front(q) \in DOMAIN t
                 PROVE  Persistent(Front(q))
        OBVIOUS
    <2>1. q \in Seq(Parts) /\ Front(q) \in Seq(Parts)
        BY DEF WholeTree
    <2>2. /\ Len(q) = 0 => Len(Front(q)) = 0
          /\ Len(q) > 0 => Len(Front(q)) = Len(q) - 1
          /\ \A i \in 1 .. Len(Front(q)) : Front(q)[i] = q[i]
        <3>1. CASE Len(q) = 0
            BY <2>1, <3>1, SubSeqEmpty DEF Front
        <3>2. CASE Len(q) > 0
            <4>1. Len(q) - 1 \in 0 .. Len(q) /\ \A i \in 1 .. Len(q) - 1 : i \in 1 .. Len(q)
                BY <2>1, <3>2
            <4>2. \A i \in 1 .. Len(q) - 1 : q[i] \in Parts
                BY <2>1, <4>1
            <4>3. Front(q) = [i \in 1 .. Len(q) - 1 |-> q[i]]
                BY <2>1, <3>2, <4>1 DEF Front
            <4> QED BY <2>1, <3>2, <4>1, <4>3
        <3> QED BY <2>1, <3>1, <3>2
    <2>3. Len(q) \in Nat /\ Len(Front(q)) \in Nat
        BY <2>1
    <2>4. \A i \in 1 .. Len(q) : q[i] \in Synthetic => i = Len(q) /\ i # 1
        BY DEF Persistent
    <2> SUFFICES ASSUME NEW i \in 1 .. Len(Front(q)), Front(q)[i] \in Synthetic PROVE FALSE
        BY DEF Persistent
    <2>5. i \in 1 .. Len(q) /\ i # Len(q) /\ q[i] = Front(q)[i]
        BY <2>2, <2>3
    <2> QED BY <2>4, <2>5
<1>2. K \in SUBSET DOMAIN t
    OBVIOUS
<1> HIDE DEF K
<1>3. WholeTree(Restrict(t, K))
    BY <1>1, <1>2, PartKeeps
<1> QED BY <1>3 DEF Serialize, K

LEMMA QuietKeeps ==
    ASSUME NEW t, WholeTree(t), NEW path \in Seq(Parts), NEW c
    PROVE  /\ WholeTree(WriteFileQuiet(t, path, c))
           /\ \A x : x # path => Agree(t, WriteFileQuiet(t, path, c), x)
           /\ IsDir(t, path) => Agree(t, WriteFileQuiet(t, path, c), path)
<1>1. CASE ParentFound(t, path) /\ ~IsDir(t, path)
    <2>1. WriteFileQuiet(t, path, c) = Put(t, path, File(c))
        BY <1>1 DEF WriteFileQuiet
    <2>2. WholeTree(Put(t, path, File(c)))
        BY <1>1, PutKeeps
    <2>3. \A x : x # path => Agree(t, Put(t, path, File(c)), x)
        BY DEF Put, Agree
    <2> QED BY <1>1, <2>1, <2>2, <2>3
<1>2. CASE ~(ParentFound(t, path) /\ ~IsDir(t, path))
    <2>1. WriteFileQuiet(t, path, c) = t
        BY <1>2 DEF WriteFileQuiet
    <2> QED BY <2>1 DEF Agree
<1> QED BY <1>1, <1>2

LEMMA DefaultTree == WholeTree(InitDefaultFs)
<1> DEFINE t == InitDefaultFs
<1>1. DOMAIN t = DefaultDirs
    BY DEF InitDefaultFs
<1> HIDE DEF t
<1>2. ASSUME NEW q \in DefaultDirs PROVE q \in Seq(Parts) /\ Front(q) = <<>>
    <2>1. PICK d \in {"bin", "etc", "home", "sys", "proc", "dev"} : q = <<d>>
        BY DEF DefaultDirs
    <2>2. d \in Parts
        BY DEF Parts
    <2>3. q \in Seq(Parts) /\ Len(q) = 1
        BY <2>1, <2>2
    <2>4. Front(q) = SubSeq(q, 1, 0)
        BY <2>3 DEF Front
    <2> QED BY <2>3, <2>4, SubSeqEmpty
<1> QED BY <1>1, <1>2 DEF WholeTree, TreeOK, ParentFound, IsDir, t

(* What a boot makes of a whole image is a whole tree, and so is the image.  *)
LEMMA AcceptedKeeps ==
    ASSUME NEW t, WholeTree(t)
    PROVE  WholeTree(Accepted(t)) /\ (~TooLarge(t) => Accepted(t) = t)
BY DefaultTree DEF Accepted

(* Seeding changes nothing but the two seeds, and of the text only what is   *)
(* not there.                                                                *)
LEMMA SeedKeeps ==
    ASSUME NEW t, WholeTree(t)
    PROVE  /\ WholeTree(SeedDefaultFiles(t))
           /\ \A x : x # SeededBinary /\ (x # SeededText \/ x \in DOMAIN t)
                        => Agree(t, SeedDefaultFiles(t), x)
<1>0. SeededBinary \in Seq(Parts) /\ SeededText \in Seq(Parts) /\ SeededBinary # SeededText
    BY DEF SeededBinary, SeededText, Parts
<1> DEFINE b == WriteFileQuiet(t, SeededBinary, <<>>)
           u == WriteFileQuiet(b, SeededText, <<>>)
<1>1. WholeTree(b) /\ \A x : x # SeededBinary => Agree(t, b, x)
    BY <1>0, QuietKeeps
<1> HIDE DEF b
<1>2. WholeTree(u) /\ (\A x : x # SeededText => Agree(b, u, x)) /\ (IsDir(b, SeededText) => Agree(b, u, SeededText))
    BY <1>0, <1>1, QuietKeeps
<1> HIDE DEF u
<1>3. SeedDefaultFiles(t) = IF IsFile(b, SeededText) THEN b ELSE u
    BY DEF SeedDefaultFiles, b, u
<1>4. ASSUME NEW x, x # SeededBinary, x # SeededText \/ x \in DOMAIN t
      PROVE  Agree(t, SeedDefaultFiles(t), x)
    <2>1. Agree(t, b, x)
        BY <1>1, <1>4
    <2>2. CASE IsFile(b, SeededText)
        BY <1>3, <2>1, <2>2
    <2>3. CASE ~IsFile(b, SeededText)
        <3>1. Agree(b, u, x)
            <4>1. CASE x # SeededText
                BY <1>2, <4>1
            <4>2. CASE x = SeededText
                <5>1. x \in DOMAIN b
                    BY <1>4, <2>1, <4>2 DEF Agree
                <5>2. IsDir(b, SeededText)
                    BY <2>3, <4>2, <5>1 DEF IsDir, IsFile
                <5> QED BY <1>2, <4>2, <5>2
            <4> QED BY <4>1, <4>2
        <3> QED BY <1>3, <2>1, <2>3, <3>1 DEF Agree
    <2> QED BY <2>2, <2>3
<1>5. WholeTree(SeedDefaultFiles(t))
    BY <1>1, <1>2, <1>3
<1> QED BY <1>4, <1>5

(* Calls, locks and descriptors *)

FilePaths == UserPaths \cup {Stale}
Busy(x) == x.at \in {"sync", "snap", "write", "synced"}

CallOK(x) ==
    /\ x.at \in {"idle", "exited", "sync", "snap", "write", "synced"}
    /\ Busy(x) => x.path \in FilePaths
    /\ x.at \in {"snap", "write"} => WholeTree(x.image)
    /\ x.at = "synced" => x.then # Idle

DescriptorOK(d) ==
    /\ d = [path |-> d.path, offset |-> d.offset, mode |-> d.mode, by |-> d.by]
    /\ d.path \in FilePaths

VfsTypes ==
    /\ WholeTree(tree) /\ (disk # Torn => WholeTree(disk))
    /\ DOMAIN fdTable \subseteq Fds /\ \A f \in DOMAIN fdTable : DescriptorOK(fdTable[f])
    /\ drive \in FileUsers \cup {Nobody} /\ fdLock \in FileUsers \cup {Nobody}
    /\ table \in [FileUsers -> SUBSET (0 .. MaxFds)] /\ opened \in [FileUsers -> SUBSET Fds]
    /\ DOMAIN vfsPc = FileUsers /\ \A p \in FileUsers : CallOK(vfsPc[p])
    /\ touched \subseteq FilePaths

(* Who writes has the drive; who is in open or write has FD_TABLE, and open  *)
(* found a descriptor that nobody takes meanwhile.                           *)
WriterHasDrive == \A p \in FileUsers : vfsPc[p].at = "write" => drive = p
CallHasTable ==
    \A p \in FileUsers : Busy(vfsPc[p]) /\ vfsPc[p].then # Idle =>
        fdLock = p /\ (vfsPc[p].then.call = "open" => FreeFd # {})

(* A call that is yet to write takes its snapshot, or took it, after every   *)
(* change at a path in the image of another that differs from the tree.      *)
Related(x, y) == IsPrefix(x, y) \/ IsPrefix(y, x)
Covers(q, S, x) == vfsPc[q].at \in S /\ Related(vfsPc[q].path, x)
ImagesAreCurrent ==
    ~risk => \A p \in FileUsers : vfsPc[p].at \in {"snap", "write"} =>
        \A x \in touched : Persistent(x) =>
            \/ Agree(vfsPc[p].image, tree, x)
            \/ \E q \in FileUsers \ {p} : Covers(q, {"sync", "snap"}, x)
DriveIsCurrent ==
    ~risk => \A x \in touched : Persistent(x) =>
        \/ Agree(disk, tree, x)
        \/ \E q \in FileUsers : Covers(q, {"sync", "snap", "write"}, x)

VfsInv ==
    /\ VfsTypes /\ WriterHasDrive /\ CallHasTable
    /\ ImagesAreCurrent /\ DriveIsCurrent /\ OwnDescriptor

LEMMA PathsAreSequences == \A x \in FilePaths : x \in Seq(Parts)
<1>1. ASSUME NEW x \in UserPaths PROVE x \in Seq(Parts)
    <2>1. x \in Seq(STRING)
        BY VfsAssumption
    <2>2. Len(x) \in Nat /\ \A i \in 1 .. Len(x) : x[i] \in Parts
        <3>1. Len(x) \in Nat
            BY <2>1
        <3>2. ASSUME NEW i \in 1 .. Len(x) PROVE x[i] \in Parts
            <4>1. x[i] \in UNION {{path[j] : j \in 1 .. Len(path)} : path \in UserPaths}
                OBVIOUS
            <4> QED BY <4>1, Zenon DEF Parts
        <3> QED BY <3>1, <3>2
    <2>3. x = [i \in 1 .. Len(x) |-> x[i]]
        BY <2>1
    <2> QED BY <2>2, <2>3, IsASeq
<1>2. Stale \in Seq(Parts)
    <2>1. "home" \in Parts /\ "g" \in Parts
        BY DEF Parts
    <2> QED BY <2>1 DEF Stale
<1> QED BY <1>1, <1>2 DEF FilePaths

LEMMA CallMoves ==
    ASSUME VfsTypes, NEW p \in FileUsers, NEW pc, vfsPc' = [vfsPc EXCEPT ![p] = pc]
    PROVE  /\ DOMAIN vfsPc' = FileUsers /\ vfsPc'[p] = pc
           /\ \A q \in FileUsers : q # p => vfsPc'[q] = vfsPc[q]
BY DEF VfsTypes

AgreeBeside(t, u, path) == \A x : ~Related(path, x) => Agree(t, u, x)

(* The tree changes at one path, and the caller goes on to sync.             *)
LEMMA ChangedCurrent ==
    ASSUME VfsInv, NEW p \in FileUsers, Ready(p), NEW t, NEW path, NEW then,
           Changed(p, t, path, then), AgreeBeside(t, tree, path)
    PROVE  ImagesAreCurrent' /\ DriveIsCurrent'
<1> DEFINE pc == [at |-> "sync", path |-> path, then |-> then]
<1>1. /\ tree' = t /\ touched' = touched \cup {path} /\ disk' = disk /\ risk' = risk
      /\ vfsPc' = [vfsPc EXCEPT ![p] = pc]
    BY DEF Changed
<1>2. vfsPc'[p] = pc /\ \A q \in FileUsers : q # p => vfsPc'[q] = vfsPc[q]
    BY <1>1, CallMoves DEF VfsInv
<1>3. pc.at = "sync" /\ pc.path = path
    OBVIOUS
<1> HIDE DEF pc
<1>4. vfsPc[p].at = "idle"
    BY DEF Ready, Idle
<1>5. ASSUME NEW x, Related(path, x) PROVE Covers(p, {"sync", "snap"}, x)' /\ Covers(p, {"sync", "snap", "write"}, x)'
    BY <1>2, <1>3, <1>5 DEF Covers
<1>6. ASSUME NEW x, NEW q \in FileUsers, NEW S, Covers(q, S, x), "idle" \notin S
      PROVE  Covers(q, S, x)' /\ q # p
    BY <1>2, <1>4, <1>6 DEF Covers
<1>7. ASSUME NEW x \in touched', NEW i, ~Related(path, x), Agree(i, tree, x) PROVE Agree(i, tree', x)
    BY <1>1, <1>7 DEF Agree, AgreeBeside
<1>8. ASSUME NEW x \in touched', ~Related(path, x) PROVE x \in touched
    BY <1>1, <1>8 DEF Related, IsPrefix
<1>9. ImagesAreCurrent'
    <2> SUFFICES ASSUME ~risk', NEW r \in FileUsers, vfsPc'[r].at \in {"snap", "write"},
                        NEW x \in touched', Persistent(x)
                 PROVE  \/ Agree(vfsPc'[r].image, tree', x)
                        \/ \E q \in FileUsers \ {r} : Covers(q, {"sync", "snap"}, x)'
        BY DEF ImagesAreCurrent
    <2>1. r # p /\ vfsPc'[r] = vfsPc[r]
        BY <1>2, <1>3
    <2>2. CASE Related(path, x)
        BY <1>5, <2>1, <2>2
    <2>3. CASE ~Related(path, x)
        <3>1. x \in touched
            BY <1>8, <2>3
        <3>2. \/ Agree(vfsPc[r].image, tree, x)
              \/ \E q \in FileUsers \ {r} : Covers(q, {"sync", "snap"}, x)
            BY <1>1, <2>1, <3>1 DEF VfsInv, ImagesAreCurrent
        <3> QED BY <1>6, <1>7, <2>1, <2>3, <3>2
    <2> QED BY <2>2, <2>3
<1>10. DriveIsCurrent'
    <2> SUFFICES ASSUME ~risk', NEW x \in touched', Persistent(x)
                 PROVE  \/ Agree(disk', tree', x)
                        \/ \E q \in FileUsers : Covers(q, {"sync", "snap", "write"}, x)'
        BY DEF DriveIsCurrent
    <2>2. CASE Related(path, x)
        BY <1>5, <2>2
    <2>3. CASE ~Related(path, x)
        <3>1. x \in touched
            BY <1>8, <2>3
        <3>2. \/ Agree(disk, tree, x)
              \/ \E q \in FileUsers : Covers(q, {"sync", "snap", "write"}, x)
            BY <1>1, <3>1 DEF VfsInv, DriveIsCurrent
        <3> QED BY <1>1, <1>6, <1>7, <2>3, <3>2
    <2> QED BY <2>2, <2>3
<1> QED BY <1>9, <1>10

(* Nobody begins or ends a sync.                                             *)
LEMMA CalmCurrent ==
    ASSUME VfsInv, UNCHANGED <<tree, disk, touched, risk>>,
           \A q \in FileUsers : \/ vfsPc'[q] = vfsPc[q]
                                \/ /\ vfsPc[q].at \notin {"sync", "snap", "write"}
                                   /\ vfsPc'[q].at \notin {"sync", "snap", "write"}
    PROVE  ImagesAreCurrent' /\ DriveIsCurrent'
<1>1. ASSUME NEW q \in FileUsers, NEW x, NEW S \in SUBSET {"sync", "snap", "write"}, Covers(q, S, x)
      PROVE  Covers(q, S, x)'
    BY <1>1 DEF Covers
<1>2. ImagesAreCurrent'
    <2> SUFFICES ASSUME ~risk', NEW r \in FileUsers, vfsPc'[r].at \in {"snap", "write"},
                        NEW x \in touched', Persistent(x)
                 PROVE  \/ Agree(vfsPc'[r].image, tree', x)
                        \/ \E q \in FileUsers \ {r} : Covers(q, {"sync", "snap"}, x)'
        BY DEF ImagesAreCurrent
    <2>1. vfsPc'[r] = vfsPc[r]
        OBVIOUS
    <2>2. \/ Agree(vfsPc[r].image, tree, x)
          \/ \E q \in FileUsers \ {r} : Covers(q, {"sync", "snap"}, x)
        BY <2>1 DEF VfsInv, ImagesAreCurrent
    <2> QED BY <1>1, <2>1, <2>2
<1>3. DriveIsCurrent'
    <2> SUFFICES ASSUME ~risk', NEW x \in touched', Persistent(x)
                 PROVE  \/ Agree(disk', tree', x)
                        \/ \E q \in FileUsers : Covers(q, {"sync", "snap", "write"}, x)'
        BY DEF DriveIsCurrent
    <2>1. \/ Agree(disk, tree, x)
          \/ \E q \in FileUsers : Covers(q, {"sync", "snap", "write"}, x)
        BY DEF VfsInv, DriveIsCurrent
    <2> QED BY <1>1, <2>1
<1> QED BY <1>2, <1>3

LEMMA SnapshotCurrent ==
    ASSUME VfsInv, NEW p \in FileUsers, TakeSnapshot(p)
    PROVE  ImagesAreCurrent' /\ DriveIsCurrent'
<1> DEFINE pc == [at |-> "snap", path |-> vfsPc[p].path, then |-> vfsPc[p].then, image |-> Serialize(tree)]
<1>1. /\ vfsPc[p].at = "sync" /\ vfsPc' = [vfsPc EXCEPT ![p] = pc]
      /\ UNCHANGED <<tree, disk, touched, risk>>
    BY DEF TakeSnapshot
<1>2. vfsPc'[p] = pc /\ \A q \in FileUsers : q # p => vfsPc'[q] = vfsPc[q]
    BY <1>1, CallMoves DEF VfsInv
<1>3. pc.at = "snap" /\ pc.path = vfsPc[p].path /\ pc.image = Serialize(tree)
    OBVIOUS
<1> HIDE DEF pc
<1>4. ASSUME NEW q \in FileUsers, NEW x, NEW S, {"sync", "snap"} \subseteq S, Covers(q, S, x)
      PROVE  Covers(q, S, x)'
    BY <1>1, <1>2, <1>3, <1>4 DEF Covers
<1>5. \A x : Persistent(x) => Agree(Serialize(tree), tree, x)
    BY DEF Serialize, Restrict, Agree
<1>6. ImagesAreCurrent'
    <2> SUFFICES ASSUME ~risk', NEW r \in FileUsers, vfsPc'[r].at \in {"snap", "write"},
                        NEW x \in touched', Persistent(x)
                 PROVE  \/ Agree(vfsPc'[r].image, tree', x)
                        \/ \E q \in FileUsers \ {r} : Covers(q, {"sync", "snap"}, x)'
        BY DEF ImagesAreCurrent
    <2>1. CASE r = p
        <3>1. Agree(vfsPc'[r].image, tree, x)
            BY <1>2, <1>3, <1>5, <2>1
        <3> QED BY <1>1, <3>1
    <2>2. CASE r # p
        <3>1. vfsPc'[r] = vfsPc[r]
            BY <1>2, <2>2
        <3>2. \/ Agree(vfsPc[r].image, tree, x)
              \/ \E q \in FileUsers \ {r} : Covers(q, {"sync", "snap"}, x)
            BY <1>1, <3>1 DEF VfsInv, ImagesAreCurrent
        <3> QED BY <1>1, <1>4, <3>1, <3>2
    <2> QED BY <2>1, <2>2
<1>7. DriveIsCurrent'
    <2> SUFFICES ASSUME ~risk', NEW x \in touched', Persistent(x)
                 PROVE  \/ Agree(disk', tree', x)
                        \/ \E q \in FileUsers : Covers(q, {"sync", "snap", "write"}, x)'
        BY DEF DriveIsCurrent
    <2>1. \/ Agree(disk, tree, x)
          \/ \E q \in FileUsers : Covers(q, {"sync", "snap", "write"}, x)
        BY <1>1 DEF VfsInv, DriveIsCurrent
    <2> QED BY <1>1, <1>4, <2>1
<1> QED BY <1>6, <1>7

(* Nobody else writes, and nobody else is about to without risk: only the    *)
(* new writer's image counts.                                                *)
LEMMA LockCurrent ==
    ASSUME VfsInv, NEW p \in FileUsers, LockDrive(p)
    PROVE  ImagesAreCurrent' /\ DriveIsCurrent'
<1> DEFINE pc == [at |-> "write", path |-> vfsPc[p].path, then |-> vfsPc[p].then,
                  image |-> vfsPc[p].image]
<1>1. /\ vfsPc[p].at = "snap" /\ drive = Nobody /\ vfsPc' = [vfsPc EXCEPT ![p] = pc]
      /\ risk' = (risk \/ \E q \in FileUsers \ {p} : vfsPc[q].at = "snap")
      /\ UNCHANGED <<tree, disk, touched>>
    BY DEF LockDrive
<1>2. vfsPc'[p] = pc /\ \A q \in FileUsers : q # p => vfsPc'[q] = vfsPc[q]
    BY <1>1, CallMoves DEF VfsInv
<1>3. pc.at = "write" /\ pc.path = vfsPc[p].path /\ pc.image = vfsPc[p].image
    OBVIOUS
<1> HIDE DEF pc
<1>4. ASSUME NEW q \in FileUsers, vfsPc[q].at = "write" PROVE FALSE
    BY <1>1, <1>4, VfsAssumption DEF VfsInv, WriterHasDrive
<1>6. ImagesAreCurrent'
    <2> SUFFICES ASSUME ~risk', NEW r \in FileUsers, vfsPc'[r].at \in {"snap", "write"},
                        NEW x \in touched', Persistent(x)
                 PROVE  \/ Agree(vfsPc'[r].image, tree', x)
                        \/ \E q \in FileUsers \ {r} : Covers(q, {"sync", "snap"}, x)'
        BY DEF ImagesAreCurrent
    <2>1. r = p
        BY <1>1, <1>2, <1>4
    <2>2. \/ Agree(vfsPc[r].image, tree, x)
          \/ \E q \in FileUsers \ {r} : Covers(q, {"sync", "snap"}, x)
        BY <1>1, <2>1 DEF VfsInv, ImagesAreCurrent
    <2>3. ASSUME NEW q \in FileUsers \ {r}, Covers(q, {"sync", "snap"}, x) PROVE Covers(q, {"sync", "snap"}, x)'
        BY <1>2, <2>1, <2>3 DEF Covers
    <2> QED BY <1>1, <1>2, <1>3, <2>1, <2>2, <2>3
<1>7. DriveIsCurrent'
    <2> SUFFICES ASSUME ~risk', NEW x \in touched', Persistent(x)
                 PROVE  \/ Agree(disk', tree', x)
                        \/ \E q \in FileUsers : Covers(q, {"sync", "snap", "write"}, x)'
        BY DEF DriveIsCurrent
    <2>1. \/ Agree(disk, tree, x)
          \/ \E q \in FileUsers : Covers(q, {"sync", "snap", "write"}, x)
        BY <1>1 DEF VfsInv, DriveIsCurrent
    <2>2. ASSUME NEW q \in FileUsers, Covers(q, {"sync", "snap", "write"}, x)
          PROVE  Covers(q, {"sync", "snap", "write"}, x)'
        BY <1>1, <1>2, <1>3, <2>2 DEF Covers
    <2> QED BY <1>1, <2>1, <2>2
<1> QED BY <1>6, <1>7

(* What is written is current or another call has yet to write.              *)
LEMMA SyncedCurrent ==
    ASSUME VfsInv, NEW p \in FileUsers, SyncSucceeds(p)
    PROVE  ImagesAreCurrent' /\ DriveIsCurrent'
<1> DEFINE pc == IF vfsPc[p].then = Idle THEN Idle
                 ELSE [at |-> "synced", path |-> vfsPc[p].path, then |-> vfsPc[p].then]
<1>1. /\ vfsPc[p].at = "write" /\ vfsPc' = [vfsPc EXCEPT ![p] = pc]
      /\ disk' = vfsPc[p].image /\ UNCHANGED <<tree, touched, risk>>
    BY DEF SyncSucceeds, SyncEnds
<1>2. vfsPc'[p] = pc /\ \A q \in FileUsers : q # p => vfsPc'[q] = vfsPc[q]
    BY <1>1, CallMoves DEF VfsInv
<1>3. pc.at \in {"idle", "synced"}
    BY DEF Idle
<1> HIDE DEF pc
<1>4. ASSUME NEW q \in FileUsers, NEW x, Covers(q, {"sync", "snap"}, x)
      PROVE  Covers(q, {"sync", "snap"}, x)' /\ Covers(q, {"sync", "snap", "write"}, x)'
    BY <1>1, <1>2, <1>4 DEF Covers
<1>6. ImagesAreCurrent'
    <2> SUFFICES ASSUME ~risk', NEW r \in FileUsers, vfsPc'[r].at \in {"snap", "write"},
                        NEW x \in touched', Persistent(x)
                 PROVE  \/ Agree(vfsPc'[r].image, tree', x)
                        \/ \E q \in FileUsers \ {r} : Covers(q, {"sync", "snap"}, x)'
        BY DEF ImagesAreCurrent
    <2>1. r # p /\ vfsPc'[r] = vfsPc[r]
        BY <1>2, <1>3
    <2>2. \/ Agree(vfsPc[r].image, tree, x)
          \/ \E q \in FileUsers \ {r} : Covers(q, {"sync", "snap"}, x)
        BY <1>1, <2>1 DEF VfsInv, ImagesAreCurrent
    <2> QED BY <1>1, <1>4, <2>1, <2>2
<1>7. DriveIsCurrent'
    <2> SUFFICES ASSUME ~risk', NEW x \in touched', Persistent(x)
                 PROVE  \/ Agree(disk', tree', x)
                        \/ \E q \in FileUsers : Covers(q, {"sync", "snap", "write"}, x)'
        BY DEF DriveIsCurrent
    <2>1. \/ Agree(vfsPc[p].image, tree, x)
          \/ \E q \in FileUsers \ {p} : Covers(q, {"sync", "snap"}, x)
        BY <1>1 DEF VfsInv, ImagesAreCurrent
    <2> QED BY <1>1, <1>4, <2>1
<1> QED BY <1>6, <1>7

(* The five calls that change the tree do it at one path, keep it whole, and *)
(* lock FD_TABLE unless they are not calls on a descriptor.                  *)
ChangesTree(p, t, path, then) ==
    /\ Ready(p) /\ Changed(p, t, path, then) /\ path \in FilePaths /\ WholeTree(t)
    /\ AgreeBeside(t, tree, path)
    /\ \/ then = Idle /\ fdLock' = fdLock
       \/ fdLock = Nobody /\ fdLock' = p /\ (then.call = "open" => FreeFd # {})
    /\ UNCHANGED <<fdTable, table, opened, crossed>>

LEMMA PutAgrees ==
    ASSUME NEW t, NEW path, NEW node
    PROVE  AgreeBeside(Put(t, path, node), t, path)
<1>1. \A x : ~Related(path, x) => x # path
    BY DEF Related, IsPrefix
<1> QED BY <1>1 DEF Put, Agree, AgreeBeside

LEMMA RequestChanges ==
    ASSUME VfsInv, NEW p \in FileUsers, NEW path \in UserPaths, DispatchFsRequest(p, path)
    PROVE  \E t, then : ChangesTree(p, t, path, then)
<1>0. path \in FilePaths /\ path \in Seq(Parts) /\ WholeTree(tree)
    BY PathsAreSequences DEF FilePaths, VfsInv, VfsTypes
<1>1. ASSUME NEW c, WriteFileBytes(p, path, c) PROVE ChangesTree(p, Put(tree, path, File(c)), path, Idle)
    <2>1. WholeTree(Put(tree, path, File(c)))
        BY <1>0, <1>1, PutKeeps DEF WriteFileBytes
    <2> QED BY <1>0, <1>1, <2>1, PutAgrees DEF ChangesTree, WriteFileBytes, fdVars
<1>2. ASSUME Mkdir(p, path) PROVE ChangesTree(p, Put(tree, path, Directory), path, Idle)
    <2>0. Directory.dir
        BY DEF Directory
    <2>1. WholeTree(Put(tree, path, Directory))
        BY <1>0, <1>2, <2>0, PutKeeps DEF Mkdir
    <2> QED BY <1>0, <1>2, <2>1, PutAgrees DEF ChangesTree, Mkdir, fdVars
<1>3. ASSUME RemoveNode(p, path) PROVE ChangesTree(p, Without(tree, path), path, Idle)
    <2>1. WholeTree(Without(tree, path))
        BY <1>0, WithoutKeeps
    <2>2. AgreeBeside(Without(tree, path), tree, path)
        BY DEF Without, Restrict, Agree, Related, AgreeBeside
    <2> QED BY <1>0, <1>3, <2>1, <2>2 DEF ChangesTree, RemoveNode, fdVars
<1> QED BY <1>1, <1>2, <1>3 DEF DispatchFsRequest

LEMMA OpenCreateChanges ==
    ASSUME VfsInv, NEW p \in FileUsers, NEW path \in UserPaths, NEW mode, SysOpenCreate(p, path, mode)
    PROVE  \E t, then : ChangesTree(p, t, path, then)
<1>0. path \in FilePaths /\ path \in Seq(Parts) /\ WholeTree(tree)
    BY PathsAreSequences DEF FilePaths, VfsInv, VfsTypes
<1>1. /\ Ready(p) /\ fdLock = Nobody /\ FreeFd # {} /\ ParentFound(tree, path)
      /\ Changed(p, Put(tree, path, File(<<>>)), path, [call |-> "open", mode |-> mode])
      /\ fdLock' = p /\ UNCHANGED <<fdTable, table, opened, crossed>> /\ path \notin DOMAIN tree
    BY DEF SysOpenCreate, FileExists
<1>2. File(<<>>).dir \/ ~IsDir(tree, path) \/ path = <<>>
    BY <1>1 DEF IsDir
<1>3. WholeTree(Put(tree, path, File(<<>>)))
    <2>1. CASE ~IsDir(tree, path)
        BY <1>0, <1>1, <2>1, PutKeeps
    <2>2. CASE path = <<>>
        <3> DEFINE u == Put(tree, path, File(<<>>))
        <3>1. DOMAIN u = DOMAIN tree \cup {<<>>} /\ \A q \in DOMAIN tree : q # <<>> => u[q] = tree[q]
            BY <2>2 DEF Put
        <3> HIDE DEF u
        <3>2. \A q \in DOMAIN u : q \in Seq(Parts)
            BY <1>0, <2>2, <3>1 DEF WholeTree
        <3>3. ASSUME NEW x, IsDir(tree, x) PROVE IsDir(u, x)
            BY <3>1, <3>3 DEF IsDir
        <3>4. \A q \in DOMAIN u : IsDir(u, Front(q))
            BY <1>0, <1>1, <2>2, <3>1, <3>3 DEF WholeTree, TreeOK, ParentFound
        <3> QED BY <3>2, <3>4 DEF WholeTree, TreeOK, ParentFound, u
    <2> QED BY <1>1, <2>1, <2>2 DEF IsDir
<1> QED BY <1>0, <1>1, <1>3, PutAgrees DEF ChangesTree

LEMMA WriteChanges ==
    ASSUME VfsInv, NEW p \in FileUsers, NEW f \in Fds, SysWrite(p, f)
    PROVE  \E t, path, then : ChangesTree(p, t, path, then)
<1>1. PICK path : path = fdTable[f].path
    OBVIOUS
<1>2. PICK c : WriteFileChunk(tree, path, fdTable[f].offset, Chunk) = Put(tree, path, File(c))
    BY DEF WriteFileChunk
<1>3. /\ Ready(p) /\ fdLock = Nobody /\ f \in DOMAIN fdTable
      /\ ParentFound(tree, path) /\ ~IsDir(tree, path)
      /\ Changed(p, Put(tree, path, File(c)), path, [call |-> "write", fd |-> f])
      /\ fdLock' = p /\ UNCHANGED <<fdTable, table, opened, crossed>>
    BY <1>1, <1>2 DEF SysWrite, MayUse
<1>4. path \in FilePaths /\ path \in Seq(Parts) /\ WholeTree(tree)
    BY <1>1, <1>3, PathsAreSequences DEF VfsInv, VfsTypes, DescriptorOK
<1>5. WholeTree(Put(tree, path, File(c)))
    BY <1>3, <1>4, PutKeeps
<1> QED BY <1>3, <1>4, <1>5, PutAgrees DEF ChangesTree

(* The steps of the file system, by what they do.                            *)
VfsStep(p) ==
    \/ \E t, path, then : ChangesTree(p, t, path, then)
    \/ \E path \in UserPaths, mode \in Modes : SysOpen(p, path, mode)
    \/ \E f \in Fds : SysRead(p, f) \/ SysLseek(p, f, MaxOffset - 1)
    \/ Exit(p) \/ SysClose(p) \/ TakeSnapshot(p) \/ LockDrive(p)
    \/ SyncSucceeds(p) \/ SyncFails(p) \/ SysOpenReturns(p) \/ SysWriteReturns(p)

LEMMA VfsSteps ==
    ASSUME VfsInv, VfsNext
    PROVE  LoadFromDisk \/ CrashInWrite \/ \E p \in FileUsers : VfsStep(p)
<1>1. ASSUME NEW p \in FileUsers, VfsCall(p) PROVE VfsStep(p)
    BY <1>1, RequestChanges, OpenCreateChanges, WriteChanges DEF VfsCall, VfsStep
<1>2. ASSUME NEW p \in FileUsers, VfsContinue(p) PROVE VfsStep(p)
    BY <1>2 DEF VfsContinue, VfsStep, Returns
<1> QED BY <1>1, <1>2 DEF VfsNext

LEMMA NextCurrent ==
    ASSUME VfsInv, VfsNext
    PROVE  ImagesAreCurrent' /\ DriveIsCurrent'
<1>1. CASE LoadFromDisk
    BY <1>1 DEF LoadFromDisk, ImagesAreCurrent, DriveIsCurrent
<1>2. ASSUME risk' PROVE ImagesAreCurrent' /\ DriveIsCurrent'
    BY <1>2 DEF ImagesAreCurrent, DriveIsCurrent
<1>3. CASE CrashInWrite
    BY <1>2, <1>3 DEF CrashInWrite
<1>4. ASSUME NEW p \in FileUsers, VfsStep(p) PROVE ImagesAreCurrent' /\ DriveIsCurrent'
    <2>1. CASE \E t, path, then : ChangesTree(p, t, path, then)
        <3>1. PICK t, path, then : ChangesTree(p, t, path, then)
            BY <2>1
        <3>2. Ready(p) /\ Changed(p, t, path, then) /\ AgreeBeside(t, tree, path)
            BY <3>1 DEF ChangesTree
        <3> QED BY <3>2, ChangedCurrent, Zenon
    <2>2. CASE \E path \in UserPaths, mode \in Modes : SysOpen(p, path, mode)
        BY <2>2, CalmCurrent DEF SysOpen
    <2>3. CASE \E f \in Fds : SysRead(p, f) \/ SysLseek(p, f, MaxOffset - 1)
        BY <2>3, CalmCurrent DEF SysRead, SysLseek
    <2>4. CASE SysClose(p)
        BY <2>4, CalmCurrent DEF SysClose
    <2>5. ASSUME NEW pc, vfsPc' = [vfsPc EXCEPT ![p] = pc], UNCHANGED <<tree, disk, touched, risk>>,
                 vfsPc[p].at \in {"idle", "synced"}, pc.at \in {"idle", "exited"}
          PROVE  ImagesAreCurrent' /\ DriveIsCurrent'
        <3>1. vfsPc'[p] = pc /\ \A q \in FileUsers : q # p => vfsPc'[q] = vfsPc[q]
            BY <2>5, CallMoves DEF VfsInv
        <3> QED BY <2>5, <3>1, CalmCurrent
    <2>6. CASE Exit(p)
        <3>1. PICK pc : pc = [at |-> "exited"]
            OBVIOUS
        <3>2. pc.at = "exited"
            BY <3>1
        <3>3. vfsPc' = [vfsPc EXCEPT ![p] = pc] /\ UNCHANGED <<tree, disk, touched, risk>>
            BY <2>6, <3>1 DEF Exit
        <3>4. vfsPc[p].at = "idle"
            BY <2>6 DEF Exit, Ready, Idle
        <3> QED BY <2>5, <3>2, <3>3, <3>4
    <2>7. CASE SysOpenReturns(p)
        BY <2>5, <2>7 DEF SysOpenReturns, Idle
    <2>8. CASE SysWriteReturns(p)
        BY <2>5, <2>8 DEF SysWriteReturns, Idle
    <2>9. CASE SyncFails(p)
        BY <1>2, <2>9 DEF SyncFails
    <2>10. CASE TakeSnapshot(p) \/ LockDrive(p) \/ SyncSucceeds(p)
        BY <2>10, SnapshotCurrent, LockCurrent, SyncedCurrent
    <2> QED BY <1>4, <2>1, <2>2, <2>3, <2>4, <2>6, <2>7, <2>8, <2>9, <2>10 DEF VfsStep
<1> QED BY <1>1, <1>3, <1>4, VfsSteps

(* Types and locks *)

LEMMA IdleOK == CallOK(Idle) /\ ~Busy(Idle) /\ Idle.at # "write"
BY DEF CallOK, Busy, Idle

LEMMA AllIdle ==
    ASSUME vfsPc' = [p \in FileUsers |-> Idle]
    PROVE  /\ DOMAIN vfsPc' = FileUsers /\ \A p \in FileUsers : CallOK(vfsPc'[p])
           /\ WriterHasDrive' /\ CallHasTable'
BY IdleOK DEF WriterHasDrive, CallHasTable

LEMMA SeededTables ==
    /\ SeededTable \in [FileUsers -> SUBSET (0 .. MaxFds)]
    /\ [p \in FileUsers |-> {}] \in [FileUsers -> SUBSET Fds]
<1>1. Stdio \subseteq 0 .. MaxFds /\ EndpointFd \in 0 .. MaxFds
    BY VfsAssumption DEF Stdio
<1> QED BY <1>1 DEF SeededTable

(* The moves of one call that keep its kind of place.                        *)
LEMMA OneCallOK ==
    ASSUME VfsTypes, NEW p \in FileUsers, NEW pc, vfsPc' = [vfsPc EXCEPT ![p] = pc], CallOK(pc)
    PROVE  DOMAIN vfsPc' = FileUsers /\ \A q \in FileUsers : CallOK(vfsPc'[q])
BY CallMoves DEF VfsTypes

LEMMA FreeFdMin ==
    ASSUME FreeFd # {}
    PROVE  Min(FreeFd) \in FreeFd
<1>1. FreeFd \in SUBSET Nat
    BY VfsAssumption DEF FreeFd, Fds
<1>2. \E x \in FreeFd : \A y \in FreeFd : x <= y
    BY <1>1, MinExists
<1> QED BY <1>2 DEF Min

LEMMA DescriptorMade ==
    ASSUME NEW p, NEW path \in FilePaths, NEW mode
    PROVE  DescriptorOK(Descriptor(p, path, mode)) /\ Descriptor(p, path, mode).by = p
BY DEF DescriptorOK, Descriptor

LEMMA DescriptorMoved ==
    ASSUME NEW d, DescriptorOK(d), NEW v
    PROVE  DescriptorOK([d EXCEPT !.offset = v]) /\ [d EXCEPT !.offset = v].by = d.by
<1> DEFINE e == [d EXCEPT !.offset = v]
<1>1. e = [path |-> d.path, offset |-> v, mode |-> d.mode, by |-> d.by]
    BY DEF DescriptorOK
<1> HIDE DEF e
<1>2. e.path = d.path /\ e.offset = v /\ e.mode = d.mode /\ e.by = d.by
    BY <1>1
<1>3. e = [path |-> e.path, offset |-> e.offset, mode |-> e.mode, by |-> e.by]
    BY <1>1, <1>2
<1> QED BY <1>2, <1>3 DEF DescriptorOK, e

(* What open does to the tables.                                             *)
Gives(p, f, d) ==
    /\ f \in FreeFd /\ DescriptorOK(d) /\ d.by = p
    /\ fdTable' = Put(fdTable, f, d) /\ Provision(p, f) /\ UNCHANGED crossed

FdTypes ==
    /\ DOMAIN fdTable \subseteq Fds /\ \A f \in DOMAIN fdTable : DescriptorOK(fdTable[f])
    /\ table \in [FileUsers -> SUBSET (0 .. MaxFds)] /\ opened \in [FileUsers -> SUBSET Fds]

LEMMA FdsGiven ==
    ASSUME FdTypes, OwnDescriptor, NEW p \in FileUsers, NEW f, NEW d, Gives(p, f, d)
    PROVE  FdTypes' /\ OwnDescriptor'
<1>1. /\ f \in Fds /\ f \notin DOMAIN fdTable
      /\ DOMAIN fdTable' = DOMAIN fdTable \cup {f} /\ fdTable'[f] = d
      /\ \A g \in DOMAIN fdTable : fdTable'[g] = fdTable[g]
    BY DEF Gives, FreeFd, Put
<1>2. /\ table' = [table EXCEPT ![p] = @ \cup {f}] /\ d.by = p /\ DescriptorOK(d) /\ crossed' = crossed
      /\ opened' = opened \/ opened' = [opened EXCEPT ![p] = @ \cup {f}]
    BY DEF Gives, Provision
<1>3. Fds \subseteq 0 .. MaxFds
    BY VfsAssumption DEF Fds
<1>4. /\ table' \in [FileUsers -> SUBSET (0 .. MaxFds)] /\ opened' \in [FileUsers -> SUBSET Fds]
      /\ \A q \in FileUsers : \A g : g \in opened'[q] => g \in opened[q] \/ (q = p /\ g = f)
    BY <1>1, <1>2, <1>3 DEF FdTypes
<1>5. \A g \in DOMAIN fdTable' : DescriptorOK(fdTable'[g])
    BY <1>1, <1>2 DEF FdTypes
<1>6. FdTypes'
    BY <1>1, <1>4, <1>5 DEF FdTypes
<1>7. OwnDescriptor'
    <2> SUFFICES ASSUME NEW q \in FileUsers, NEW g \in opened'[q], ~crossed'
                 PROVE  g \in DOMAIN fdTable' /\ fdTable'[g].by = q
        BY DEF OwnDescriptor
    <2>1. CASE g \in opened[q]
        BY <1>1, <1>2, <2>1 DEF OwnDescriptor
    <2>2. CASE q = p /\ g = f
        BY <1>1, <1>2, <2>2
    <2> QED BY <1>4, <2>1, <2>2
<1> QED BY <1>6, <1>7

(* A descriptor's offset moves, or SYS_CLOSE of an endpoint takes its number *)
(* out, which crossed records when it was a file's.                          *)
LEMMA FdsMoved ==
    ASSUME FdTypes, OwnDescriptor, NEW f, NEW v,
           fdTable' = [fdTable EXCEPT ![f].offset = v], UNCHANGED <<table, opened, crossed>>
    PROVE  FdTypes' /\ OwnDescriptor'
<1>1. /\ DOMAIN fdTable' = DOMAIN fdTable
      /\ \A g \in DOMAIN fdTable : fdTable'[g] = IF g = f THEN [fdTable[g] EXCEPT !.offset = v] ELSE fdTable[g]
    OBVIOUS
<1>2. ASSUME NEW g \in DOMAIN fdTable PROVE DescriptorOK(fdTable'[g]) /\ fdTable'[g].by = fdTable[g].by
    <2>1. DescriptorOK(fdTable[g])
        BY DEF FdTypes
    <2>2. CASE g = f
        BY <1>1, <2>1, <2>2, DescriptorMoved
    <2>3. CASE g # f
        BY <1>1, <2>1, <2>3
    <2> QED BY <2>2, <2>3
<1>3. FdTypes'
    BY <1>1, <1>2 DEF FdTypes
<1>4. OwnDescriptor'
    BY <1>1, <1>2 DEF OwnDescriptor
<1> QED BY <1>3, <1>4

LEMMA FdsClosed ==
    ASSUME FdTypes, OwnDescriptor, NEW p \in FileUsers, SysClose(p)
    PROVE  FdTypes' /\ OwnDescriptor'
<1>1. /\ DOMAIN fdTable' = DOMAIN fdTable \ {EndpointFd}
      /\ \A g \in DOMAIN fdTable' : fdTable'[g] = fdTable[g]
    BY DEF SysClose, Restrict
<1>2. /\ table' = [table EXCEPT ![p] = @ \ {EndpointFd}] /\ opened' = opened
      /\ crossed' = (crossed \/ EndpointFd \in DOMAIN fdTable)
    BY DEF SysClose
<1>3. FdTypes'
    <2>1. table' \in [FileUsers -> SUBSET (0 .. MaxFds)]
        BY <1>2 DEF FdTypes
    <2> QED BY <1>1, <1>2, <2>1 DEF FdTypes
<1>4. OwnDescriptor'
    BY <1>1, <1>2 DEF OwnDescriptor
<1> QED BY <1>3, <1>4

LEMMA NextFds ==
    ASSUME VfsInv, VfsNext
    PROVE  FdTypes' /\ OwnDescriptor'
<1>0. FdTypes /\ OwnDescriptor
    BY DEF VfsInv, VfsTypes, FdTypes
<1>1. ASSUME UNCHANGED <<fdTable, table, opened, crossed>> PROVE FdTypes' /\ OwnDescriptor'
    BY <1>0, <1>1 DEF FdTypes, OwnDescriptor
<1>2. CASE LoadFromDisk
    <2>1. /\ fdTable' = <<>> /\ table' = SeededTable /\ opened' = [p \in FileUsers |-> {}]
        BY <1>2 DEF LoadFromDisk
    <2>2. DOMAIN fdTable' = {}
        BY <2>1
    <2> QED BY <2>1, <2>2, SeededTables DEF FdTypes, OwnDescriptor
<1>3. CASE CrashInWrite
    BY <1>1, <1>3 DEF CrashInWrite
<1>4. ASSUME NEW p \in FileUsers, VfsStep(p) PROVE FdTypes' /\ OwnDescriptor'
    <2>1. CASE \E t, path, then : ChangesTree(p, t, path, then)
        BY <1>1, <2>1 DEF ChangesTree
    <2>2. CASE \E path \in UserPaths, mode \in Modes : SysOpen(p, path, mode)
        <3>1. PICK path \in UserPaths, mode \in Modes : SysOpen(p, path, mode)
            BY <2>2
        <3>2. Min(FreeFd) \in FreeFd
            BY <3>1, FreeFdMin DEF SysOpen
        <3>3. path \in FilePaths
            BY DEF FilePaths
        <3>4. Gives(p, Min(FreeFd), Descriptor(p, path, mode))
            BY <3>1, <3>2, <3>3, DescriptorMade DEF SysOpen, Gives
        <3> QED BY <1>0, <3>4, FdsGiven
    <2>3. CASE \E f \in Fds : SysRead(p, f) \/ SysLseek(p, f, MaxOffset - 1)
        <3>1. PICK f \in Fds : SysRead(p, f) \/ SysLseek(p, f, MaxOffset - 1)
            BY <2>3
        <3>2. \E v : fdTable' = [fdTable EXCEPT ![f].offset = v]
            BY <3>1 DEF SysRead, SysLseek
        <3>3. UNCHANGED <<table, opened, crossed>>
            BY <3>1 DEF SysRead, SysLseek
        <3> QED BY <1>0, <3>2, <3>3, FdsMoved
    <2>4. CASE SysClose(p)
        BY <1>0, <2>4, FdsClosed
    <2>5. CASE Exit(p)
        <3>1. /\ table' = [table EXCEPT ![p] = {}] /\ opened' = [opened EXCEPT ![p] = {}]
              /\ UNCHANGED <<fdTable, crossed>>
            BY <2>5 DEF Exit
        <3>2. /\ table' \in [FileUsers -> SUBSET (0 .. MaxFds)] /\ opened' \in [FileUsers -> SUBSET Fds]
              /\ \A q \in FileUsers : opened'[q] \subseteq opened[q]
            BY <1>0, <3>1 DEF FdTypes
        <3> QED BY <1>0, <3>1, <3>2 DEF FdTypes, OwnDescriptor
    <2>6. CASE SysOpenReturns(p)
        <3>1. /\ vfsPc[p].at = "synced" /\ vfsPc[p].then.call = "open"
              /\ fdTable' = Put(fdTable, Min(FreeFd), Descriptor(p, vfsPc[p].path, vfsPc[p].then.mode))
              /\ Provision(p, Min(FreeFd)) /\ UNCHANGED crossed
            BY <2>6 DEF SysOpenReturns
        <3>2. vfsPc[p].path \in FilePaths /\ vfsPc[p].then # Idle
            BY <3>1 DEF VfsInv, VfsTypes, CallOK, Busy
        <3>3. FreeFd # {}
            BY <3>1, <3>2 DEF VfsInv, CallHasTable, Busy
        <3>4. Gives(p, Min(FreeFd), Descriptor(p, vfsPc[p].path, vfsPc[p].then.mode))
            BY <3>1, <3>2, <3>3, FreeFdMin, DescriptorMade DEF Gives
        <3> QED BY <1>0, <3>4, FdsGiven
    <2>7. CASE SysWriteReturns(p)
        <3>2. \E f, v : fdTable' = [fdTable EXCEPT ![f].offset = v]
            BY <2>7 DEF SysWriteReturns
        <3>3. UNCHANGED <<table, opened, crossed>>
            BY <2>7 DEF SysWriteReturns
        <3> QED BY <1>0, <3>2, <3>3, FdsMoved
    <2>8. CASE TakeSnapshot(p) \/ LockDrive(p) \/ SyncSucceeds(p) \/ SyncFails(p)
        <3>1. UNCHANGED <<fdTable, table, opened, crossed>>
            BY <2>8 DEF TakeSnapshot, LockDrive, SyncSucceeds, SyncFails, SyncEnds, fdVars
        <3> QED BY <1>1, <3>1
    <2> QED BY <1>4, <2>1, <2>2, <2>3, <2>4, <2>5, <2>6, <2>7, <2>8 DEF VfsStep
<1> QED BY <1>2, <1>3, <1>4, VfsSteps

(* A step of one call, for the locks.                                        *)
LEMMA NextLocks ==
    ASSUME VfsInv, VfsNext
    PROVE  /\ WriterHasDrive' /\ CallHasTable'
           /\ DOMAIN vfsPc' = FileUsers /\ \A p \in FileUsers : CallOK(vfsPc'[p])
           /\ drive' \in FileUsers \cup {Nobody} /\ fdLock' \in FileUsers \cup {Nobody}
<1>0. /\ VfsTypes /\ WriterHasDrive /\ CallHasTable /\ Nobody \notin FileUsers
      /\ DOMAIN vfsPc = FileUsers /\ \A p \in FileUsers : CallOK(vfsPc[p])
      /\ drive \in FileUsers \cup {Nobody} /\ fdLock \in FileUsers \cup {Nobody}
    BY VfsAssumption DEF VfsInv, VfsTypes
<1>1. CASE LoadFromDisk
    BY <1>0, <1>1, AllIdle DEF LoadFromDisk
<1>2. CASE CrashInWrite
    BY <1>0, <1>2, AllIdle DEF CrashInWrite
<1>3. ASSUME fdLock = Nobody, NEW p \in FileUsers, Busy(vfsPc[p]) PROVE vfsPc[p].then = Idle
    BY <1>0, <1>3 DEF CallHasTable
<1>4. ASSUME UNCHANGED <<vfsPc, drive>>, fdLock = Nobody, fdLock' = Nobody
      PROVE  /\ WriterHasDrive' /\ CallHasTable'
             /\ DOMAIN vfsPc' = FileUsers /\ \A p \in FileUsers : CallOK(vfsPc'[p])
             /\ drive' \in FileUsers \cup {Nobody} /\ fdLock' \in FileUsers \cup {Nobody}
    <2>1. WriterHasDrive'
        BY <1>0, <1>4 DEF WriterHasDrive
    <2>2. CallHasTable'
        BY <1>3, <1>4 DEF CallHasTable
    <2> QED BY <1>0, <1>4, <2>1, <2>2
<1>5. ASSUME NEW p \in FileUsers, VfsStep(p)
      PROVE  /\ WriterHasDrive' /\ CallHasTable'
             /\ DOMAIN vfsPc' = FileUsers /\ \A q \in FileUsers : CallOK(vfsPc'[q])
             /\ drive' \in FileUsers \cup {Nobody} /\ fdLock' \in FileUsers \cup {Nobody}
    <2>0. ASSUME NEW pc, vfsPc' = [vfsPc EXCEPT ![p] = pc], CallOK(pc),
                 pc.at # "write", UNCHANGED drive,
                 \/ fdLock' = fdLock /\ UNCHANGED fdTable
                 \/ fdLock = Nobody /\ fdLock' = p
                 \/ fdLock = p /\ fdLock' = Nobody,
                 Busy(pc) /\ pc.then # Idle => fdLock' = p /\ (pc.then.call = "open" => FreeFd' # {})
          PROVE  /\ WriterHasDrive' /\ CallHasTable'
                 /\ DOMAIN vfsPc' = FileUsers /\ \A q \in FileUsers : CallOK(vfsPc'[q])
                 /\ drive' \in FileUsers \cup {Nobody} /\ fdLock' \in FileUsers \cup {Nobody}
        <3>1. vfsPc'[p] = pc /\ \A q \in FileUsers : q # p => vfsPc'[q] = vfsPc[q]
            BY <1>0, <2>0, CallMoves
        <3>2. DOMAIN vfsPc' = FileUsers /\ \A q \in FileUsers : CallOK(vfsPc'[q])
            BY <1>0, <2>0, OneCallOK
        <3>3. WriterHasDrive'
            BY <1>0, <2>0, <3>1 DEF WriterHasDrive
        <3>4. CallHasTable'
            <4> SUFFICES ASSUME NEW q \in FileUsers, Busy(vfsPc'[q]), vfsPc'[q].then # Idle
                         PROVE  fdLock' = q /\ (vfsPc'[q].then.call = "open" => FreeFd' # {})
                BY DEF CallHasTable
            <4>1. CASE q = p
                BY <2>0, <3>1, <4>1
            <4>2. CASE q # p
                <5>1. fdLock = q /\ (vfsPc'[q].then.call = "open" => FreeFd # {})
                    BY <1>0, <3>1, <4>2 DEF CallHasTable
                <5>2. fdLock' = fdLock /\ fdTable' = fdTable
                    BY <1>0, <2>0, <4>2, <5>1
                <5> QED BY <5>1, <5>2 DEF FreeFd
            <4> QED BY <4>1, <4>2
        <3> QED BY <1>0, <2>0, <3>2, <3>3, <3>4
    <2>1. CASE \E t, path, then : ChangesTree(p, t, path, then)
        <3>1. PICK t, path, then : ChangesTree(p, t, path, then)
            BY <2>1
        <3>2. PICK pc : pc = [at |-> "sync", path |-> path, then |-> then]
            OBVIOUS
        <3>3. pc.at = "sync" /\ pc.path = path /\ pc.then = then
            BY <3>2
        <3>4. vfsPc' = [vfsPc EXCEPT ![p] = pc] /\ UNCHANGED <<drive, fdTable>> /\ path \in FilePaths
            BY <3>1, <3>2 DEF ChangesTree, Changed
        <3>5. \/ then = Idle /\ fdLock' = fdLock
              \/ fdLock = Nobody /\ fdLock' = p /\ (then.call = "open" => FreeFd # {})
            BY <3>1 DEF ChangesTree
        <3>6. CallOK(pc)
            BY <3>3, <3>4 DEF CallOK, Busy
        <3>7. FreeFd' = FreeFd
            BY <3>4 DEF FreeFd
        <3> QED BY <2>0, <3>3, <3>4, <3>5, <3>6, <3>7
    <2>2. CASE \E path \in UserPaths, mode \in Modes : SysOpen(p, path, mode)
        BY <1>4, <2>2 DEF SysOpen
    <2>3. CASE \E f \in Fds : SysRead(p, f) \/ SysLseek(p, f, MaxOffset - 1)
        BY <1>4, <2>3 DEF SysRead, SysLseek, MayUse
    <2>4. CASE SysClose(p)
        BY <1>4, <2>4 DEF SysClose
    <2>5. CASE Exit(p)
        <3>1. PICK pc : pc = [at |-> "exited"]
            OBVIOUS
        <3>2. pc.at = "exited" /\ CallOK(pc) /\ ~Busy(pc)
            BY <3>1 DEF CallOK, Busy
        <3>3. vfsPc' = [vfsPc EXCEPT ![p] = pc] /\ UNCHANGED <<drive, fdLock, fdTable>>
            BY <2>5, <3>1 DEF Exit
        <3> QED BY <2>0, <3>2, <3>3
    <2>6. CASE SysOpenReturns(p) \/ SysWriteReturns(p)
        <3>1. vfsPc[p].at = "synced" /\ vfsPc' = [vfsPc EXCEPT ![p] = Idle] /\ UNCHANGED drive /\ fdLock' = Nobody
            BY <2>6 DEF SysOpenReturns, SysWriteReturns
        <3>2. fdLock = p
            BY <1>0, <3>1 DEF CallHasTable, CallOK, Busy
        <3> QED BY <2>0, <3>1, <3>2, IdleOK
    <2>7. CASE TakeSnapshot(p)
        <3>1. PICK pc : pc = [at |-> "snap", path |-> vfsPc[p].path, then |-> vfsPc[p].then, image |-> Serialize(tree)]
            OBVIOUS
        <3>2. pc.at = "snap" /\ pc.path = vfsPc[p].path /\ pc.then = vfsPc[p].then /\ pc.image = Serialize(tree)
            BY <3>1
        <3>3. vfsPc[p].at = "sync" /\ vfsPc' = [vfsPc EXCEPT ![p] = pc] /\ UNCHANGED <<drive, fdLock, fdTable>>
            BY <2>7, <3>1 DEF TakeSnapshot, fdVars
        <3>4. CallOK(pc)
            BY <1>0, <3>2, <3>3, SerializeKeeps DEF CallOK, Busy, VfsTypes
        <3>5. Busy(pc) /\ pc.then # Idle => fdLock' = p /\ (pc.then.call = "open" => FreeFd' # {})
            BY <1>0, <3>2, <3>3 DEF CallHasTable, Busy, FreeFd
        <3> QED BY <2>0, <3>2, <3>3, <3>4, <3>5
    <2>8. CASE LockDrive(p)
        <3>1. PICK pc : pc = [at |-> "write", path |-> vfsPc[p].path, then |-> vfsPc[p].then, image |-> vfsPc[p].image]
            OBVIOUS
        <3>2. pc.at = "write" /\ pc.path = vfsPc[p].path /\ pc.then = vfsPc[p].then /\ pc.image = vfsPc[p].image
            BY <3>1
        <3>3. /\ vfsPc[p].at = "snap" /\ drive = Nobody /\ vfsPc' = [vfsPc EXCEPT ![p] = pc]
              /\ drive' = p /\ UNCHANGED <<fdLock, fdTable>>
            BY <2>8, <3>1 DEF LockDrive, fdVars
        <3>4. CallOK(pc)
            BY <1>0, <3>2, <3>3 DEF CallOK, Busy
        <3>5. Busy(pc) /\ pc.then # Idle => fdLock' = p /\ (pc.then.call = "open" => FreeFd' # {})
            BY <1>0, <3>2, <3>3 DEF CallHasTable, Busy, FreeFd
        <3>6. vfsPc'[p] = pc /\ \A q \in FileUsers : q # p => vfsPc'[q] = vfsPc[q]
            BY <1>0, <3>3, CallMoves
        <3>7. DOMAIN vfsPc' = FileUsers /\ \A q \in FileUsers : CallOK(vfsPc'[q])
            BY <1>0, <3>3, <3>4, OneCallOK
        <3>8. WriterHasDrive'
            BY <1>0, <3>3, <3>6 DEF WriterHasDrive
        <3>9. CallHasTable'
            BY <1>0, <3>3, <3>5, <3>6 DEF CallHasTable, FreeFd
        <3> QED BY <1>0, <3>3, <3>7, <3>8, <3>9
    <2>9. CASE SyncSucceeds(p) \/ SyncFails(p)
        <3>1. PICK pc : pc = IF vfsPc[p].then = Idle THEN Idle
                             ELSE [at |-> "synced", path |-> vfsPc[p].path, then |-> vfsPc[p].then]
            OBVIOUS
        <3>2. \/ pc = Idle
              \/ pc.at = "synced" /\ pc.path = vfsPc[p].path /\ pc.then = vfsPc[p].then /\ pc.then # Idle
            BY <3>1
        <3>3. /\ vfsPc[p].at = "write" /\ drive = p /\ vfsPc' = [vfsPc EXCEPT ![p] = pc]
              /\ drive' = Nobody /\ UNCHANGED <<fdLock, fdTable>>
            BY <2>9, <3>1 DEF SyncSucceeds, SyncFails, SyncEnds, ReleaseDrive, fdVars
        <3>4. CallOK(pc) /\ pc.at # "write"
            BY <1>0, <3>2, <3>3, IdleOK DEF CallOK, Busy
        <3>5. Busy(pc) /\ pc.then # Idle => fdLock' = p /\ (pc.then.call = "open" => FreeFd' # {})
            BY <1>0, <3>2, <3>3, IdleOK DEF CallHasTable, Busy, FreeFd
        <3>6. vfsPc'[p] = pc /\ \A q \in FileUsers : q # p => vfsPc'[q] = vfsPc[q]
            BY <1>0, <3>3, CallMoves
        <3>7. DOMAIN vfsPc' = FileUsers /\ \A q \in FileUsers : CallOK(vfsPc'[q])
            BY <1>0, <3>3, <3>4, OneCallOK
        <3>8. WriterHasDrive'
            BY <1>0, <3>3, <3>4, <3>6 DEF WriterHasDrive
        <3>9. CallHasTable'
            BY <1>0, <3>3, <3>5, <3>6 DEF CallHasTable, FreeFd
        <3> QED BY <1>0, <3>3, <3>7, <3>8, <3>9
    <2> QED BY <1>5, <2>1, <2>2, <2>3, <2>4, <2>5, <2>6, <2>7, <2>8, <2>9 DEF VfsStep
<1> QED BY <1>1, <1>2, <1>5, VfsSteps

LEMMA NextTrees ==
    ASSUME VfsInv, VfsNext
    PROVE  WholeTree(tree') /\ (disk' # Torn => WholeTree(disk')) /\ touched' \subseteq FilePaths
<1>0. WholeTree(tree) /\ (disk # Torn => WholeTree(disk)) /\ touched \subseteq FilePaths
    BY DEF VfsInv, VfsTypes
<1>1. CASE LoadFromDisk
    <2>1. WholeTree(disk) /\ tree' = SeedDefaultFiles(Accepted(disk)) /\ touched' = {}
          /\ disk' = IF TooLarge(disk) THEN Serialize(InitDefaultFs) ELSE disk
        BY <1>0, <1>1 DEF LoadFromDisk
    <2>2. WholeTree(tree')
        BY <2>1, AcceptedKeeps, SeedKeeps
    <2>3. WholeTree(disk')
        BY <2>1, DefaultTree, SerializeKeeps
    <2> QED BY <2>1, <2>2, <2>3
<1>2. CASE CrashInWrite
    BY <1>0, <1>2 DEF CrashInWrite
<1>3. ASSUME NEW p \in FileUsers, VfsStep(p)
      PROVE  WholeTree(tree') /\ (disk' # Torn => WholeTree(disk')) /\ touched' \subseteq FilePaths
    <2>1. CASE \E t, path, then : ChangesTree(p, t, path, then)
        BY <1>0, <2>1 DEF ChangesTree, Changed
    <2>2. CASE \/ \E path \in UserPaths, mode \in Modes : SysOpen(p, path, mode)
               \/ \E f \in Fds : SysRead(p, f) \/ SysLseek(p, f, MaxOffset - 1)
        BY <1>0, <2>2 DEF SysOpen, SysRead, SysLseek
    <2>3. CASE SysClose(p) \/ Exit(p) \/ TakeSnapshot(p) \/ LockDrive(p)
        BY <1>0, <2>3 DEF SysClose, Exit, TakeSnapshot, LockDrive
    <2>4. CASE SysOpenReturns(p) \/ SysWriteReturns(p)
        BY <1>0, <2>4 DEF SysOpenReturns, SysWriteReturns
    <2>5. CASE SyncFails(p)
        BY <1>0, <2>5 DEF SyncFails, SyncEnds
    <2>6. CASE SyncSucceeds(p)
        <3>1. vfsPc[p].at = "write" /\ disk' = vfsPc[p].image /\ UNCHANGED <<tree, touched>>
            BY <2>6 DEF SyncSucceeds, SyncEnds
        <3>2. WholeTree(vfsPc[p].image)
            BY <3>1 DEF VfsInv, VfsTypes, CallOK
        <3> QED BY <1>0, <3>1, <3>2
    <2> QED BY <1>3, <2>1, <2>2, <2>3, <2>4, <2>5, <2>6 DEF VfsStep
<1> QED BY <1>1, <1>2, <1>3, VfsSteps

LEMMA VfsInvInit == VfsInit => VfsInv
<1> SUFFICES ASSUME VfsInit PROVE VfsInv
    OBVIOUS
<1>1. WholeTree(InitDefaultFs)
    BY DefaultTree
<1>2. WholeTree(tree) /\ WholeTree(disk)
    BY <1>1, SeedKeeps, SerializeKeeps DEF VfsInit
<1>3. DOMAIN fdTable \subseteq Fds /\ \A f \in DOMAIN fdTable : DescriptorOK(fdTable[f])
    <2>1. Stale \in FilePaths
        BY DEF FilePaths
    <2>2. DescriptorOK(Descriptor(Nobody, Stale, "r"))
        BY <2>1, DescriptorMade
    <2> QED BY <2>2 DEF VfsInit
<1>4. DOMAIN vfsPc = FileUsers /\ (\A p \in FileUsers : CallOK(vfsPc[p])) /\ WriterHasDrive /\ CallHasTable
    BY IdleOK DEF VfsInit, WriterHasDrive, CallHasTable
<1>5. VfsTypes
    BY <1>2, <1>3, <1>4, SeededTables DEF VfsInit, VfsTypes
<1>6. ImagesAreCurrent /\ DriveIsCurrent /\ OwnDescriptor
    BY DEF VfsInit, ImagesAreCurrent, DriveIsCurrent, OwnDescriptor
<1> QED BY <1>4, <1>5, <1>6 DEF VfsInv

LEMMA VfsInvNext == VfsInv /\ [VfsNext]_vfsVars => VfsInv'
<1> SUFFICES ASSUME VfsInv, [VfsNext]_vfsVars PROVE VfsInv'
    OBVIOUS
<1>1. CASE VfsNext
    <2>1. VfsTypes'
        BY <1>1, NextTrees, NextFds, NextLocks DEF VfsTypes, FdTypes
    <2> QED BY <1>1, <2>1, NextFds, NextLocks, NextCurrent DEF VfsInv
<1>2. CASE UNCHANGED vfsVars
    BY <1>2 DEF vfsVars, VfsInv, VfsTypes, WriterHasDrive, CallHasTable, FreeFd, ImagesAreCurrent,
           DriveIsCurrent, Covers, OwnDescriptor
<1> QED BY <1>1, <1>2

LEMMA VfsInvAlways == VfsSpec => []VfsInv
BY VfsInvInit, VfsInvNext, PTL DEF VfsSpec

LEMMA VfsInvSuffices == VfsInv => FilesSound
<1> SUFFICES ASSUME VfsInv PROVE FilesSound
    OBVIOUS
<1>1. VfsTypeOK
    BY DEF VfsInv, VfsTypes, VfsTypeOK, WholeTree
<1>2. ImageIsCurrent
    BY DEF VfsInv, ImageIsCurrent, DriveIsCurrent, Covers
<1> QED BY <1>1, <1>2 DEF FilesSound, VfsInv

(* The file tree and the image on the drive are whole trees; whenever no     *)
(* sync is under way and no two have raced, what calls changed is in the     *)
(* image as it is in memory, but for what is below a directory called proc   *)
(* or dev at any depth; and a descriptor stays its opener's (fs.rs, fd.rs):  *)
(* for any callers, paths and table of descriptors, with calls preempted     *)
(* between the locks.                                                        *)
THEOREM FilesAreSound == VfsSpec => []FilesSound
BY VfsInvAlways, VfsInvSuffices, PTL

(* What a call has changed is there after a power failure and a boot, with   *)
(* the exceptions of ChangesSurvive: races of two syncs, a failing drive, an *)
(* image load_from_disk finds too large, what is below a directory called    *)
(* proc or dev, and the seeds (fs.rs).                                       *)
THEOREM FilesSurvive == VfsSpec => ChangesSurvive
<1> DEFINE Survive == crashes' # crashes /\ ~risk /\ disk' # Torn /\ ~TooLarge(disk) =>
          \A path \in Settled \ {SeededBinary} :
              \/ Agree(tree, tree', path)
              \/ path = SeededText /\ path \notin DOMAIN tree
<1>1. ASSUME VfsInv, VfsNext PROVE Survive
    <2> SUFFICES ASSUME crashes' # crashes, ~risk, disk' # Torn, ~TooLarge(disk),
                        NEW path \in Settled, path # SeededBinary,
                        path # SeededText \/ path \in DOMAIN tree
                 PROVE  Agree(tree, tree', path)
        OBVIOUS
    <2>1. LoadFromDisk
        <3>1. ASSUME NEW p \in FileUsers, VfsStep(p) PROVE crashes' = crashes
            BY <3>1 DEF VfsStep, ChangesTree, Changed, SysOpen, SysRead, SysLseek, SysClose, Exit, TakeSnapshot,
               LockDrive, SyncSucceeds, SyncFails, SyncEnds, SysOpenReturns, SysWriteReturns
        <3>2. CrashInWrite => disk' = Torn
            BY DEF CrashInWrite
        <3> QED BY <1>1, <3>1, <3>2, VfsSteps
    <2>2. disk # Torn /\ tree' = SeedDefaultFiles(disk) /\ WholeTree(disk)
        <3>1. disk # Torn /\ tree' = SeedDefaultFiles(Accepted(disk)) /\ WholeTree(disk)
            BY <1>1, <2>1 DEF LoadFromDisk, VfsInv, VfsTypes
        <3> QED BY <3>1, AcceptedKeeps
    <2>3. Agree(disk, tree, path)
        BY <1>1 DEF VfsInv, DriveIsCurrent, Settled, InProgress, Covers, Related
    <2>4. path # SeededText \/ path \in DOMAIN disk
        BY <2>3 DEF Agree
    <2>5. Agree(disk, tree', path)
        BY <2>2, <2>4, SeedKeeps
    <2> QED BY <2>3, <2>5 DEF Agree
<1>2. VfsInv /\ [VfsNext]_vfsVars => [Survive]_vfsVars
    BY <1>1
<1> QED BY <1>2, VfsInvAlways, PTL DEF VfsSpec, ChangesSurvive, Survive
=============================================================================
