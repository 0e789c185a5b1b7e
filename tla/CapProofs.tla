----------------------------- MODULE CapProofs -----------------------------
(***************************************************************************)
(* Proofs about the capability core, for every size of its tables, every   *)
(* set of rights and any number of accessors; and what the core promises   *)
(* to its callers: the tables say what they stand for, the lazy epochs and *)
(* generations implement eager revocation, and timed loans end neither     *)
(* early nor on the wrong capability.                                      *)
(***************************************************************************)
EXTENDS CapExpiry, QueueLemmas

-----------------------------------------------------------------------------
(* The slot table *)

(* allocate_slot returns a free slot when there is one.                     *)
LEMMA AllocateSlotIsFree ==
    ASSUME FreeSlots # {}
    PROVE  AllocateSlot \in FreeSlots
<1>1. FreeSlots \in SUBSET Nat
    BY CapAssumption DEF FreeSlots, SlotIdx
<1>2. \E s \in FreeSlots : \A t \in FreeSlots : s <= t
    BY <1>1, MinExists
<1> QED BY <1>2 DEF AllocateSlot

(* Installing a capability writes one slot that was free, or none.          *)
LEMMA InstallFacts ==
    ASSUME slots \in [SlotIdx -> CapSlot], NEW c \in CapSlot
    PROVE  /\ Install(c) \in [SlotIdx -> CapSlot]
           /\ \A s \in SlotIdx :
                 \/ Install(c)[s] = slots[s]
                 \/ /\ slots[s].free
                    /\ Install(c)[s] = [c EXCEPT !.gen = slots[s].gen]
           /\ \A s, t \in SlotIdx :
                 Install(c)[s] # slots[s] /\ Install(c)[t] # slots[t] => s = t
<1>1. CASE FreeSlots = {}
    BY <1>1 DEF Install
<1>2. CASE FreeSlots # {}
    <2>1. AllocateSlot \in SlotIdx /\ slots[AllocateSlot].free
        BY <1>2, AllocateSlotIsFree DEF FreeSlots
    <2>2. Install(c) = [slots EXCEPT ![AllocateSlot] =
                          [c EXCEPT !.gen = slots[AllocateSlot].gen]]
        BY <1>2 DEF Install
    <2>3. [c EXCEPT !.gen = slots[AllocateSlot].gen] \in CapSlot
        BY <2>1 DEF CapSlot
    <2> QED BY <2>1, <2>2, <2>3
<1> QED BY <1>1, <1>2

(* A new capability has the type of a slot.                                 *)
LEMMA NewCapType ==
    ASSUME NEW node \in Nat, NEW object \in Nat,
           NEW rights \in SUBSET AllRights, NEW lent \in BOOLEAN
    PROVE  NewCap(node, object, rights, lent) \in CapSlot
BY CapAssumption DEF NewCap, CapSlot

(* Freeing a slot outdates its generation and keeps everything else.        *)
LEMMA FreedFacts ==
    ASSUME NEW table \in [SlotIdx -> CapSlot], NEW s \in SlotIdx
    PROVE  /\ Freed(table, s) \in [SlotIdx -> CapSlot]
           /\ Freed(table, s)[s].free
           /\ Freed(table, s)[s].gen = (table[s].gen + 1) % GenModulus
           /\ \A t \in SlotIdx : t # s => Freed(table, s)[t] = table[t]
<1>1. GenModulus \in Nat /\ GenModulus > 0
    BY CapAssumption
<1>2. table[s] \in CapSlot /\ table[s].gen \in Nat
    BY DEF CapSlot
<1>3. (table[s].gen + 1) % GenModulus \in 0 .. GenModulus - 1
    BY <1>1, <1>2
<1>4. [table[s] EXCEPT !.free = TRUE, !.gen = (table[s].gen + 1) % GenModulus]
         \in CapSlot
    BY <1>2, <1>3 DEF CapSlot
<1>5. Freed(table, s) =
        [table EXCEPT ![s] = [table[s] EXCEPT !.free = TRUE,
                                 !.gen = (table[s].gen + 1) % GenModulus]]
    BY <1>2 DEF Freed
<1>6. Freed(table, s)[s] = [table[s] EXCEPT !.free = TRUE,
                               !.gen = (table[s].gen + 1) % GenModulus]
    BY <1>5
<1>7. Freed(table, s)[s].free
      /\ Freed(table, s)[s].gen = (table[s].gen + 1) % GenModulus
    BY <1>2, <1>6 DEF CapSlot
<1> QED BY <1>4, <1>5, <1>7

-----------------------------------------------------------------------------
(* Type correctness *)

(* A node is appended under an older one, or under none.                    *)
LEMMA AppendNode ==
    ASSUME CapTypeOK, Len(nodes) < MaxCapNodes,
           NEW parent \in 0 .. Len(nodes),
           nodes' = Append(nodes, [parent |-> parent, epoch |-> 0])
    PROVE  /\ nodes' \in Seq(CapNode)
           /\ Len(nodes') = Len(nodes) + 1
           /\ Len(nodes') <= MaxCapNodes
           /\ \A n \in NodeIdx : nodes'[n] = nodes[n]
           /\ nodes'[Len(nodes) + 1] = [parent |-> parent, epoch |-> 0]
           /\ \A n \in 1 .. Len(nodes') : nodes'[n].parent < n
<1> USE CapAssumption
<1>1. [parent |-> parent, epoch |-> 0] \in CapNode
    BY DEF CapNode, CapTypeOK
<1>2. nodes \in Seq(CapNode)
    BY DEF CapTypeOK
<1>3. /\ nodes' \in Seq(CapNode)
      /\ Len(nodes') = Len(nodes) + 1
      /\ \A n \in NodeIdx : nodes'[n] = nodes[n]
      /\ nodes'[Len(nodes) + 1] = [parent |-> parent, epoch |-> 0]
    BY <1>1, <1>2 DEF NodeIdx
<1>4. ASSUME NEW n \in 1 .. Len(nodes') PROVE nodes'[n].parent < n
    <2>1. CASE n \in NodeIdx
        BY <1>3, <2>1 DEF CapTypeOK
    <2>2. CASE n = Len(nodes) + 1
        BY <1>3, <2>2, <1>2
    <2> QED BY <1>2, <1>3, <2>1, <2>2 DEF NodeIdx
<1>5. Len(nodes') <= MaxCapNodes
    BY <1>2, <1>3
<1> QED BY <1>3, <1>4, <1>5

(* revoke only moves an epoch.                                              *)
LEMMA BumpEpochFacts ==
    ASSUME CapTypeOK, NEW m \in NodeIdx, nodes' = BumpEpoch(m)
    PROVE  /\ nodes' \in Seq(CapNode)
           /\ Len(nodes') = Len(nodes)
           /\ \A n \in NodeIdx : /\ nodes'[n].parent = nodes[n].parent
                                  /\ nodes'[n].epoch >= nodes[n].epoch
           /\ \A n \in 1 .. Len(nodes') : nodes'[n].parent < n
<1> USE CapAssumption
<1>1. nodes \in Seq(CapNode) /\ nodes[m] \in CapNode
    BY DEF CapTypeOK, NodeIdx
<1> DEFINE e == IF nodes[m].epoch < MaxEpoch THEN nodes[m].epoch + 1
                ELSE nodes[m].epoch
           new == [nodes[m] EXCEPT !.epoch = e]
<1>2. e \in 0 .. MaxEpoch /\ e >= nodes[m].epoch
    BY <1>1 DEF CapNode
<1>3. new \in CapNode /\ new.parent = nodes[m].parent /\ new.epoch = e
    BY <1>1, <1>2 DEF CapNode
<1>4. nodes' = [nodes EXCEPT ![m] = new]
    BY <1>1 DEF BumpEpoch
<1> HIDE DEF e, new
<1>5. nodes' \in Seq(CapNode) /\ Len(nodes') = Len(nodes)
    BY <1>1, <1>3, <1>4 DEF NodeIdx
<1>6. ASSUME NEW n \in NodeIdx
      PROVE  nodes'[n].parent = nodes[n].parent /\ nodes'[n].epoch >= nodes[n].epoch
    <2>1. nodes[n] \in CapNode
        BY <1>1 DEF NodeIdx
    <2>2. CASE n = m
        BY <1>1, <1>2, <1>3, <1>4, <2>2 DEF NodeIdx
    <2>3. CASE n # m
        BY <1>1, <1>4, <2>1, <2>3 DEF NodeIdx, CapNode
    <2> QED BY <2>2, <2>3
<1> QED BY <1>5, <1>6 DEF CapTypeOK, NodeIdx

(* The nodes of the lineage.                                                *)
LEMMA NodeFacts ==
    ASSUME CapTypeOK
    PROVE  \A n \in NodeIdx :
              /\ n \in Nat /\ n <= Len(nodes)
              /\ nodes[n] \in CapNode
              /\ nodes[n].epoch \in Nat
              /\ nodes[n].parent \in Nat
              /\ nodes[n].parent < n
<1> SUFFICES ASSUME NEW n \in NodeIdx
             PROVE  /\ n \in Nat /\ n <= Len(nodes)
                    /\ nodes[n] \in CapNode
                    /\ nodes[n].epoch \in Nat
                    /\ nodes[n].parent \in Nat
                    /\ nodes[n].parent < n
    OBVIOUS
<1>1. nodes \in Seq(CapNode) /\ nodes[n].parent < n
    BY DEF CapTypeOK
<1>2. nodes[n] \in CapNode /\ n \in Nat /\ n <= Len(nodes)
    BY <1>1 DEF NodeIdx
<1>3. nodes[n].epoch \in 0 .. MaxEpoch /\ nodes[n].parent \in Nat
    BY <1>2 DEF CapNode
<1> QED BY <1>1, <1>2, <1>3, CapAssumption

(* What the first test of every operation gives.                            *)
LEMMA LiveFacts ==
    ASSUME CapTypeOK, NEW h \in Handles, Live(h)
    PROVE  /\ h.slot \in SlotIdx
           /\ slots[h.slot] \in CapSlot
           /\ ~slots[h.slot].free
           /\ slots[h.slot].gen = h.gen
           /\ slots[h.slot].node \in NodeIdx
           /\ slots[h.slot].object \in ObjectIdx
           /\ slots[h.slot].rights \in SUBSET AllRights
<1>1. h.slot \in SlotIdx
    BY DEF Handles
<1>2. slots[h.slot] \in CapSlot
    BY <1>1 DEF CapTypeOK
<1> QED BY <1>1, <1>2 DEF CapTypeOK, Live, CapSlot

LEMMA HandleOfFacts ==
    ASSUME CapTypeOK, NEW s \in SlotIdx
    PROVE  HandleOf(s) \in Handles /\ HandleOf(s).slot = s
<1>1. slots[s] \in CapSlot
    BY DEF CapTypeOK
<1> QED BY <1>1 DEF HandleOf, Handles, CapSlot

(* The types of the tables after a capability was installed under a new     *)
(* node: the part that create_object, grant, lend and transfer share.       *)
LEMMA InstallType ==
    ASSUME CapTypeOK, NEW c \in CapSlot, NEW N, NEW O,
           NodeIdx \subseteq N, ObjectIdx \subseteq O, c.node \in N, c.object \in O
    PROVE  /\ Install(c) \in [SlotIdx -> CapSlot]
           /\ \A s \in SlotIdx : ~Install(c)[s].free =>
                 Install(c)[s].node \in N /\ Install(c)[s].object \in O
<1>1. slots \in [SlotIdx -> CapSlot]
    BY DEF CapTypeOK
<1>2. /\ Install(c) \in [SlotIdx -> CapSlot]
      /\ \A s \in SlotIdx :
            \/ Install(c)[s] = slots[s]
            \/ Install(c)[s] = [c EXCEPT !.gen = slots[s].gen]
    BY <1>1, InstallFacts
<1>3. ASSUME NEW s \in SlotIdx, ~Install(c)[s].free
      PROVE  Install(c)[s].node \in N /\ Install(c)[s].object \in O
    <2>1. CASE Install(c)[s] = slots[s]
        BY <1>3, <2>1 DEF CapTypeOK
    <2>2. CASE Install(c)[s] = [c EXCEPT !.gen = slots[s].gen]
        BY <2>2 DEF CapSlot
    <2> QED BY <1>2, <2>1, <2>2
<1> QED BY <1>2, <1>3

(* The types of the slot table after one slot of it was freed.              *)
LEMMA FreedType ==
    ASSUME NEW table \in [SlotIdx -> CapSlot], NEW s \in SlotIdx,
           NEW N, NEW O,
           \A t \in SlotIdx : ~table[t].free =>
               table[t].node \in N /\ table[t].object \in O
    PROVE  /\ Freed(table, s) \in [SlotIdx -> CapSlot]
           /\ \A t \in SlotIdx : ~Freed(table, s)[t].free =>
                 Freed(table, s)[t].node \in N /\ Freed(table, s)[t].object \in O
BY FreedFacts

(* Dropping a guard leaves an object.                                       *)
LEMMA ReleasedType ==
    ASSUME NEW o \in CapObject
    PROVE  Released(o) \in CapObject
<1>1. CASE o.valid /\ o.refcount > 0
    <2>1. Released(o) = [o EXCEPT !.refcount = o.refcount - 1, !.valid = o.refcount # 1]
        BY <1>1 DEF Released
    <2>2. o.refcount - 1 \in Nat /\ (o.refcount # 1) \in BOOLEAN
        BY <1>1 DEF CapObject
    <2> QED BY <2>1, <2>2 DEF CapObject
<1>2. CASE ~(o.valid /\ o.refcount > 0)
    BY <1>2 DEF Released
<1> QED BY <1>1, <1>2

(* The initial state has the types.                                         *)
LEMMA TypeInit == CapInit => CapTypeOK
<1> SUFFICES ASSUME CapInit PROVE CapTypeOK
    OBVIOUS
<1> USE CapAssumption
<1>1. slots \in [SlotIdx -> CapSlot]
    BY DEF CapInit, CapSlot, NoNode, NoObject
<1>2. nodes \in Seq(CapNode) /\ Len(nodes) = 0
    BY DEF CapInit
<1>3. objects \in Seq(CapObject) /\ Len(objects) = 0
    BY DEF CapInit
<1>4. \A s \in SlotIdx : slots[s].free
    BY DEF CapInit
<1>5. access \in [Accessors -> Nat] /\ \A a \in Accessors : access[a] = NoObject
    BY DEF CapInit, NoObject
<1>6. destroying \subseteq Handles /\ retired \subseteq Handles
    BY DEF CapInit
<1> QED BY <1>1, <1>2, <1>3, <1>4, <1>5, <1>6 DEF CapTypeOK, NodeIdx, ObjectIdx

(* Every operation keeps the types and the links between the tables.        *)
LEMMA TypeNext == CapTypeOK /\ [CapNext]_capVars => CapTypeOK'
<1> SUFFICES ASSUME CapTypeOK, [CapNext]_capVars PROVE CapTypeOK'
    OBVIOUS
<1> USE CapAssumption
<1>0. /\ slots \in [SlotIdx -> CapSlot]
      /\ nodes \in Seq(CapNode) /\ Len(nodes) \in Nat
      /\ objects \in Seq(CapObject) /\ Len(objects) \in Nat
      /\ access \in [Accessors -> Nat]
    BY DEF CapTypeOK
(* An action that changes nothing but the slots and the history.            *)
<1>a. ASSUME NEW h \in Handles, Live(h), slots' = Freed(slots, h.slot),
             UNCHANGED <<nodes, objects, access>>,
             retired' = retired \cup {h}, destroying' \subseteq destroying
      PROVE  CapTypeOK'
    <2>1. h.slot \in SlotIdx
        BY <1>a, LiveFacts
    <2>2. \A t \in SlotIdx : ~slots[t].free =>
             slots[t].node \in NodeIdx /\ slots[t].object \in ObjectIdx
        BY DEF CapTypeOK
    <2>3. /\ slots' \in [SlotIdx -> CapSlot]
          /\ \A t \in SlotIdx : ~slots'[t].free =>
                slots'[t].node \in NodeIdx /\ slots'[t].object \in ObjectIdx
        BY <1>0, <1>a, <2>1, <2>2, FreedType
    <2>4. NodeIdx' = NodeIdx /\ ObjectIdx' = ObjectIdx
        BY <1>a DEF NodeIdx, ObjectIdx
    <2> QED BY <1>a, <2>3, <2>4 DEF CapTypeOK
(* An action that appends a node and installs a capability.                 *)
<1>b. ASSUME NEW c \in CapSlot, NEW parent \in 0 .. Len(nodes),
             Len(nodes) < MaxCapNodes,
             nodes' = Append(nodes, [parent |-> parent, epoch |-> 0]),
             objects' \in Seq(CapObject), Len(objects') >= Len(objects),
             c.node = Len(nodes) + 1, c.object \in ObjectIdx',
             \/ slots' = Install(c)
             \/ \E s \in SlotIdx : slots' = Freed(Install(c), s)
             \/ slots' = slots,
             UNCHANGED <<access, destroying>>, retired' \subseteq Handles
      PROVE  CapTypeOK'
    <2>1. /\ nodes' \in Seq(CapNode)
          /\ Len(nodes') = Len(nodes) + 1
          /\ Len(nodes') <= MaxCapNodes
          /\ \A n \in NodeIdx' : nodes'[n].parent < n
        BY <1>b, AppendNode DEF NodeIdx
    <2>2. NodeIdx \subseteq NodeIdx' /\ ObjectIdx \subseteq ObjectIdx'
          /\ c.node \in NodeIdx'
        BY <1>0, <1>b, <2>1 DEF NodeIdx, ObjectIdx
    <2>3. /\ Install(c) \in [SlotIdx -> CapSlot]
          /\ \A s \in SlotIdx : ~Install(c)[s].free =>
                Install(c)[s].node \in NodeIdx' /\ Install(c)[s].object \in ObjectIdx'
        BY <1>b, <2>2, InstallType
    <2>4. /\ slots' \in [SlotIdx -> CapSlot]
          /\ \A s \in SlotIdx : ~slots'[s].free =>
                slots'[s].node \in NodeIdx' /\ slots'[s].object \in ObjectIdx'
        <3>1. CASE slots' = Install(c)
            BY <2>3, <3>1
        <3>2. CASE \E s \in SlotIdx : slots' = Freed(Install(c), s)
            BY <2>3, <3>2, FreedType
        <3>3. CASE slots' = slots
            BY <1>0, <2>2, <3>3 DEF CapTypeOK
        <3> QED BY <1>b, <3>1, <3>2, <3>3
    <2>5. access' \in [Accessors -> Nat]
          /\ \A a \in Accessors : access'[a] # NoObject => access'[a] \in ObjectIdx'
        BY <1>b, <2>2 DEF CapTypeOK
    <2> QED BY <1>b, <2>1, <2>4, <2>5 DEF CapTypeOK
(* An action that bumps the epoch of a node.                                *)
<1>c. ASSUME NEW h \in Handles, Live(h), nodes' = BumpEpoch(slots[h.slot].node),
             UNCHANGED <<slots, objects, access, retired>>,
             destroying' \subseteq Handles
      PROVE  CapTypeOK'
    <2>1. slots[h.slot].node \in NodeIdx
        BY <1>c, LiveFacts
    <2>2. /\ nodes' \in Seq(CapNode) /\ Len(nodes') = Len(nodes)
          /\ \A n \in 1 .. Len(nodes') : nodes'[n].parent < n
        BY <1>c, <2>1, BumpEpochFacts
    <2>3. NodeIdx' = NodeIdx /\ ObjectIdx' = ObjectIdx
        BY <1>c, <2>2 DEF NodeIdx, ObjectIdx
    <2> QED BY <1>c, <2>2, <2>3 DEF CapTypeOK, NodeIdx
(* An action on the objects and the guards.                                 *)
<1>d. ASSUME objects' \in Seq(CapObject), Len(objects') = Len(objects),
             access' \in [Accessors -> Nat],
             \A a \in Accessors : access'[a] # NoObject => access'[a] \in ObjectIdx,
             UNCHANGED <<slots, nodes, destroying, retired>>
      PROVE  CapTypeOK'
    <2>1. NodeIdx' = NodeIdx /\ ObjectIdx' = ObjectIdx
        BY <1>d DEF NodeIdx, ObjectIdx
    <2> QED BY <1>d, <2>1 DEF CapTypeOK
<1>1. ASSUME NEW kind \in Kinds, CreateObject(kind) PROVE CapTypeOK'
    <2> DEFINE c == NewCap(Len(nodes) + 1, Len(objects) + 1, AllRights, FALSE)
    <2>1. c \in CapSlot /\ c.node = Len(nodes) + 1 /\ c.object = Len(objects) + 1
        BY <1>0 DEF NewCap, CapSlot
    <2>2. [kind |-> kind, refcount |-> 0, valid |-> TRUE] \in CapObject
        BY DEF CapObject
    <2>3. objects' \in Seq(CapObject) /\ Len(objects') = Len(objects) + 1
        BY <1>0, <1>1, <2>2 DEF CreateObject
    <2> HIDE DEF c
    <2>4. c.object \in ObjectIdx'
        BY <1>0, <2>1, <2>3 DEF ObjectIdx
    <2>5. slots' = Install(c) /\ Len(nodes) < MaxCapNodes
          /\ UNCHANGED <<access, destroying>> /\ retired' = retired
        BY <1>1 DEF CreateObject, c
    <2>6. nodes' = Append(nodes, [parent |-> 0, epoch |-> 0])
        BY <1>1 DEF CreateObject, NoNode
    <2>7. 0 \in 0 .. Len(nodes) /\ Len(objects') >= Len(objects) /\ retired' \subseteq Handles
        BY <1>0, <2>3, <2>5 DEF CapTypeOK
    <2> QED BY <1>b, <2>1, <2>3, <2>4, <2>5, <2>6, <2>7
<1>2. ASSUME NEW h \in Handles, NEW req \in SUBSET AllRights, NEW lent \in BOOLEAN,
             Derive(h, req, lent)
      PROVE  CapTypeOK'
    <2> DEFINE c == NewCap(Len(nodes) + 1, slots[h.slot].object,
                           slots[h.slot].rights \cap req, lent)
    <2>1. /\ slots[h.slot].node \in NodeIdx
          /\ slots[h.slot].object \in ObjectIdx
          /\ slots[h.slot].rights \in SUBSET AllRights
        BY <1>2, LiveFacts DEF Derive, MayDerive
    <2>2. c \in CapSlot /\ c.node = Len(nodes) + 1 /\ c.object = slots[h.slot].object
        BY <1>0, <2>1 DEF NewCap, CapSlot, ObjectIdx
    <2>3. /\ nodes' = Append(nodes, [parent |-> slots[h.slot].node, epoch |-> 0])
          /\ slots' = Install(c) /\ Len(nodes) < MaxCapNodes
          /\ UNCHANGED <<objects, access, destroying, retired>>
        BY <1>2 DEF Derive
    <2>4. /\ slots[h.slot].node \in 0 .. Len(nodes)
          /\ c.object \in ObjectIdx'
          /\ objects' \in Seq(CapObject)
          /\ Len(objects') >= Len(objects)
          /\ retired' \subseteq Handles
        BY <1>0, <2>1, <2>2, <2>3 DEF CapTypeOK, NodeIdx, ObjectIdx
    <2> HIDE DEF c
    <2> QED BY <1>b, <2>2, <2>3, <2>4
<1>3. ASSUME NEW h \in Handles, NEW req \in SUBSET AllRights, Transfer(h, req)
      PROVE  CapTypeOK'
    <2> DEFINE c == NewCap(Len(nodes) + 1, slots[h.slot].object,
                           slots[h.slot].rights \cap req, FALSE)
    <2>1. /\ h.slot \in SlotIdx
          /\ slots[h.slot].object \in ObjectIdx
          /\ slots[h.slot].rights \in SUBSET AllRights
        BY <1>3, LiveFacts DEF Transfer, MayDerive
    <2>2. c \in CapSlot /\ c.node = Len(nodes) + 1 /\ c.object = slots[h.slot].object
        BY <1>0, <2>1 DEF NewCap, CapSlot, ObjectIdx
    <2>3. /\ nodes' = Append(nodes, [parent |-> 0, epoch |-> 0])
          /\ slots' = Freed(Install(c), h.slot) \/ slots' = slots
          /\ Len(nodes) < MaxCapNodes
          /\ UNCHANGED <<objects, access, destroying>>
          /\ retired' = retired \/ retired' = retired \cup {h}
        BY <1>3 DEF Transfer, NoNode
    <2> HIDE DEF c
    <2>4. /\ 0 \in 0 .. Len(nodes)
          /\ c.object \in ObjectIdx'
          /\ objects' \in Seq(CapObject)
          /\ Len(objects') >= Len(objects)
        BY <1>0, <2>1, <2>2, <2>3 DEF ObjectIdx
    <2>5. retired' \subseteq Handles
        BY <2>3 DEF CapTypeOK
    <2> QED BY <1>b, <2>1, <2>2, <2>3, <2>4, <2>5
<1>4. ASSUME NEW h \in Handles, Close(h) PROVE CapTypeOK'
    BY <1>a, <1>4 DEF Close
<1>5. ASSUME NEW h \in Handles, Revoke(h) PROVE CapTypeOK'
    BY <1>c, <1>5 DEF Revoke, CapTypeOK
<1>6. ASSUME NEW h \in Handles, DestroyOwnedRevoke(h) PROVE CapTypeOK'
    <2>1. destroying' \subseteq Handles
        BY <1>6 DEF DestroyOwnedRevoke, CapTypeOK
    <2> QED BY <1>c, <1>6, <2>1 DEF DestroyOwnedRevoke
<1>7. ASSUME NEW h \in Handles, DestroyOwnedClose(h) PROVE CapTypeOK'
    <2>1. CASE Live(h)
        BY <1>a, <1>7, <2>1 DEF DestroyOwnedClose
    <2>2. CASE ~Live(h)
        <3>1. UNCHANGED <<slots, nodes, objects, access, retired>>
              /\ destroying' \subseteq destroying
            BY <1>7, <2>2 DEF DestroyOwnedClose
        <3>2. NodeIdx' = NodeIdx /\ ObjectIdx' = ObjectIdx
            BY <3>1 DEF NodeIdx, ObjectIdx
        <3> QED BY <3>1, <3>2 DEF CapTypeOK
    <2> QED BY <2>1, <2>2
<1>8. ASSUME NEW h \in Handles, NEW a \in Accessors, NEW flags \in SUBSET AllRights,
             Deref(a, h, flags)
      PROVE  CapTypeOK'
    <2>1. slots[h.slot].object \in ObjectIdx
        BY <1>8, LiveFacts DEF Deref, CheckRights
    <2> DEFINE o == slots[h.slot].object
               new == [objects[o] EXCEPT !.refcount = @ + 1]
    <2>2. objects[o] \in CapObject
        BY <1>0, <2>1 DEF ObjectIdx
    <2>3. new \in CapObject
        BY <2>2 DEF CapObject
    <2>4. objects' = [objects EXCEPT ![o] = new] /\ access' = [access EXCEPT ![a] = o]
          /\ UNCHANGED <<slots, nodes, destroying, retired>>
        BY <1>8 DEF Deref
    <2>5. \A b \in Accessors : access[b] # NoObject => access[b] \in ObjectIdx
        BY DEF CapTypeOK
    <2> HIDE DEF o, new
    <2>6. objects' \in Seq(CapObject) /\ Len(objects') = Len(objects)
        BY <1>0, <2>1, <2>3, <2>4 DEF ObjectIdx, o
    <2>7. o \in ObjectIdx /\ o \in Nat
        BY <2>1, <1>0 DEF o, ObjectIdx
    <2>8. access' \in [Accessors -> Nat]
          /\ \A b \in Accessors : access'[b] # NoObject => access'[b] \in ObjectIdx
        BY <1>0, <2>4, <2>5, <2>7
    <2> QED BY <1>d, <2>4, <2>6, <2>8
<1>9. ASSUME NEW a \in Accessors, DropAccess(a) PROVE CapTypeOK'
    <2>1. access[a] \in ObjectIdx
        BY <1>9 DEF DropAccess, CapTypeOK
    <2>2. objects[access[a]] \in CapObject
        BY <1>0, <2>1 DEF ObjectIdx
    <2>3. Released(objects[access[a]]) \in CapObject
        BY <2>2, ReleasedType
    <2>4. /\ objects' = [objects EXCEPT ![access[a]] = Released(objects[access[a]])]
          /\ access' = [access EXCEPT ![a] = NoObject]
          /\ UNCHANGED <<slots, nodes, destroying, retired>>
        BY <1>9 DEF DropAccess
    <2>5. objects' \in Seq(CapObject) /\ Len(objects') = Len(objects)
        BY <1>0, <2>1, <2>3, <2>4 DEF ObjectIdx
    <2>6. \A b \in Accessors : access[b] # NoObject => access[b] \in ObjectIdx
        BY DEF CapTypeOK
    <2>7. access' \in [Accessors -> Nat]
          /\ \A b \in Accessors : access'[b] # NoObject => access'[b] \in ObjectIdx
        BY <1>0, <2>4, <2>6 DEF NoObject
    <2> QED BY <1>d, <2>4, <2>5, <2>7
<1>10. CASE UNCHANGED capVars
    <2>1. UNCHANGED <<slots, nodes, objects, access, destroying, retired>>
        BY <1>10 DEF capVars
    <2>2. NodeIdx' = NodeIdx /\ ObjectIdx' = ObjectIdx
        BY <2>1 DEF NodeIdx, ObjectIdx
    <2> QED BY <2>1, <2>2 DEF CapTypeOK
<1>11. ASSUME NEW s \in SlotIdx, CapStep(HandleOf(s)) PROVE CapTypeOK'
    <2>1. HandleOf(s) \in Handles
        BY HandleOfFacts
    <2> QED BY <1>2, <1>3, <1>4, <1>5, <1>6, <1>8, <1>11, <2>1
            DEF CapStep, Grant, Lend
<1>12. destroying \subseteq Handles
    BY DEF CapTypeOK
<1> QED BY <1>1, <1>7, <1>9, <1>10, <1>11, <1>12 DEF CapNext

(* Type correctness of the capability tables, with the links between them:  *)
(* a parent is older than its children, and a slot in use names a node and  *)
(* an object that were pushed (the indexing in cap.rs cannot go out of      *)
(* bounds).                                                                 *)
THEOREM TypeCorrect == CapSpec => []CapTypeOK
BY TypeInit, TypeNext, PTL DEF CapSpec

-----------------------------------------------------------------------------
(* Generations: closed handles stay closed *)

(* What one step can do to a slot: nothing, put a new capability in it (and *)
(* then a node was spent), or free it (and then its generation moves on).   *)
SlotKept(s) == slots'[s] = slots[s]

SlotFilled(s) ==
    /\ slots[s].free
    /\ ~slots'[s].free
    /\ slots'[s].gen = slots[s].gen
    /\ slots'[s].node = Len(nodes) + 1
    /\ Len(nodes') = Len(nodes) + 1

SlotFreed(s) ==
    /\ ~slots[s].free
    /\ slots'[s].free
    /\ slots'[s].gen = (slots[s].gen + 1) % GenModulus

SlotStep ==
    /\ \A s \in SlotIdx : SlotKept(s) \/ SlotFilled(s) \/ SlotFreed(s)
    /\ \A s, t \in SlotIdx : SlotFilled(s) /\ SlotFilled(t) => s = t
    /\ Len(nodes') >= Len(nodes)
    /\ \A h \in retired' \ retired : h \in Handles /\ Live(h) /\ SlotFreed(h.slot)

(* Freeing the slot of a live handle.                                       *)
LEMMA FreedSlotStep ==
    ASSUME CapTypeOK, NEW h \in Handles, Live(h),
           slots' = Freed(slots, h.slot), retired' = retired \cup {h},
           nodes' = nodes
    PROVE  SlotStep
<1>1. /\ h.slot \in SlotIdx /\ ~slots[h.slot].free
      /\ slots \in [SlotIdx -> CapSlot] /\ Len(nodes) \in Nat
    BY LiveFacts DEF CapTypeOK
<1>2. /\ SlotFreed(h.slot)
      /\ \A s \in SlotIdx : s # h.slot => SlotKept(s)
    BY <1>1, FreedFacts DEF SlotFreed, SlotKept
<1>3. \A s \in SlotIdx : ~SlotFilled(s)
    BY <1>1 DEF SlotFilled
<1> QED BY <1>1, <1>2, <1>3 DEF SlotStep

(* Installing a capability under a fresh node.                              *)
LEMMA InstallSlotStep ==
    ASSUME CapTypeOK, NEW c \in CapSlot, ~c.free, c.node = Len(nodes) + 1,
           slots' = Install(c), retired' = retired, Len(nodes') = Len(nodes) + 1
    PROVE  SlotStep
<1>1. slots \in [SlotIdx -> CapSlot] /\ Len(nodes) \in Nat
    BY DEF CapTypeOK
<1>2. /\ \A s \in SlotIdx :
            \/ slots'[s] = slots[s]
            \/ slots[s].free /\ slots'[s] = [c EXCEPT !.gen = slots[s].gen]
      /\ \A s, t \in SlotIdx : slots'[s] # slots[s] /\ slots'[t] # slots[t] => s = t
    BY <1>1, InstallFacts
<1>3. ASSUME NEW s \in SlotIdx PROVE SlotKept(s) \/ SlotFilled(s)
    <2>1. CASE slots'[s] = slots[s]
        BY <2>1 DEF SlotKept
    <2>2. CASE slots[s].free /\ slots'[s] = [c EXCEPT !.gen = slots[s].gen]
        <3>1. /\ slots'[s].free = c.free /\ slots'[s].gen = slots[s].gen
              /\ slots'[s].node = c.node
            BY <2>2 DEF CapSlot
        <3> QED BY <2>2, <3>1 DEF SlotFilled
    <2> QED BY <1>2, <2>1, <2>2
<1>4. ASSUME NEW s \in SlotIdx, SlotFilled(s) PROVE slots'[s] # slots[s]
    BY <1>4 DEF SlotFilled
<1> QED BY <1>1, <1>2, <1>3, <1>4 DEF SlotStep

(* transfer: the new capability is in its slot before the source's slot is  *)
(* freed, and the two slots differ because the source's was in use.         *)
LEMMA TransferSlotStep ==
    ASSUME CapTypeOK, NEW c \in CapSlot, ~c.free, c.node = Len(nodes) + 1,
           NEW h \in Handles, Live(h),
           slots' = Freed(Install(c), h.slot), retired' = retired \cup {h},
           Len(nodes') = Len(nodes) + 1
    PROVE  SlotStep
<1>1. /\ h.slot \in SlotIdx /\ ~slots[h.slot].free
      /\ slots \in [SlotIdx -> CapSlot] /\ Len(nodes) \in Nat
    BY LiveFacts DEF CapTypeOK
<1>2. /\ Install(c) \in [SlotIdx -> CapSlot]
      /\ \A s \in SlotIdx :
            \/ Install(c)[s] = slots[s]
            \/ slots[s].free /\ Install(c)[s] = [c EXCEPT !.gen = slots[s].gen]
      /\ \A s, t \in SlotIdx :
            Install(c)[s] # slots[s] /\ Install(c)[t] # slots[t] => s = t
    BY <1>1, InstallFacts
<1>3. Install(c)[h.slot] = slots[h.slot]
    BY <1>1, <1>2
<1>4. /\ slots'[h.slot].free
      /\ slots'[h.slot].gen = (slots[h.slot].gen + 1) % GenModulus
      /\ \A s \in SlotIdx : s # h.slot => slots'[s] = Install(c)[s]
    BY <1>1, <1>2, <1>3, FreedFacts
<1>5. SlotFreed(h.slot)
    BY <1>1, <1>4 DEF SlotFreed
<1>6. ASSUME NEW s \in SlotIdx, s # h.slot PROVE SlotKept(s) \/ SlotFilled(s)
    <2>1. CASE Install(c)[s] = slots[s]
        BY <1>4, <1>6, <2>1 DEF SlotKept
    <2>2. CASE slots[s].free /\ Install(c)[s] = [c EXCEPT !.gen = slots[s].gen]
        <3>1. /\ slots'[s].free = c.free /\ slots'[s].gen = slots[s].gen
              /\ slots'[s].node = c.node
            BY <1>4, <1>6, <2>2 DEF CapSlot
        <3> QED BY <2>2, <3>1 DEF SlotFilled
    <2> QED BY <1>2, <2>1, <2>2
<1>7. ASSUME NEW s \in SlotIdx, SlotFilled(s) PROVE Install(c)[s] # slots[s]
    <2>1. s # h.slot
        BY <1>1, <1>7 DEF SlotFilled
    <2> QED BY <1>4, <1>7, <2>1 DEF SlotFilled
<1> QED BY <1>1, <1>2, <1>5, <1>6, <1>7 DEF SlotStep

(* What one step can do to the lineage: nothing, raise an epoch, or append  *)
(* a node that is a root or the child of a live capability that is not lent *)
(* and has all the rights the new capability gets.                          *)
DerivedFrom(p) ==
    \E s \in SlotIdx :
        /\ ~slots[s].free
        /\ ~slots[s].lent
        /\ slots[s].node = p
        /\ \A t \in SlotIdx : SlotFilled(t) =>
              slots'[t].rights \subseteq slots[s].rights
              /\ slots'[t].object = slots[s].object

LineageStep ==
    /\ \A n \in NodeIdx : /\ nodes'[n].parent = nodes[n].parent
                          /\ nodes'[n].epoch >= nodes[n].epoch
    /\ \/ Len(nodes') = Len(nodes)
       \/ /\ Len(nodes') = Len(nodes) + 1
          /\ \/ nodes'[Len(nodes) + 1].parent = NoNode
             \/ DerivedFrom(nodes'[Len(nodes) + 1].parent)

(* Appending a root.                                                        *)
LEMMA RootLineageStep ==
    ASSUME CapTypeOK, Len(nodes) < MaxCapNodes,
           nodes' = Append(nodes, [parent |-> NoNode, epoch |-> 0])
    PROVE  LineageStep /\ Len(nodes') = Len(nodes) + 1
<1>1. nodes \in Seq(CapNode) /\ Len(nodes) \in Nat
    BY DEF CapTypeOK
<1>2. NoNode \in 0 .. Len(nodes)
    BY <1>1 DEF NoNode
<1>3. /\ Len(nodes') = Len(nodes) + 1
      /\ \A n \in NodeIdx : nodes'[n] = nodes[n]
      /\ nodes'[Len(nodes) + 1] = [parent |-> NoNode, epoch |-> 0]
    BY <1>2, AppendNode
<1>4. \A n \in NodeIdx : nodes[n].epoch \in Nat
    BY NodeFacts
<1>5. ASSUME NEW n \in NodeIdx
      PROVE  nodes'[n].parent = nodes[n].parent /\ nodes'[n].epoch >= nodes[n].epoch
    <2>1. nodes'[n] = nodes[n] /\ nodes[n].epoch \in Nat
        BY <1>3, <1>4
    <2>2. nodes'[n].epoch = nodes[n].epoch /\ nodes'[n].parent = nodes[n].parent
        BY <2>1
    <2>3. nodes[n].epoch >= nodes[n].epoch
        BY <2>1
    <2> QED BY <2>2, <2>3, Zenon
<1>6. nodes'[Len(nodes) + 1].parent = NoNode
    BY <1>3
<1> QED BY <1>3, <1>5, <1>6 DEF LineageStep

(* An unchanged lineage.                                                    *)
LEMMA SameLineageStep ==
    ASSUME CapTypeOK, nodes' = nodes
    PROVE  LineageStep
<1>1. \A n \in NodeIdx : nodes[n].epoch \in Nat
    BY NodeFacts
<1> QED BY <1>1 DEF LineageStep

(* A raised epoch.                                                          *)
LEMMA EpochLineageStep ==
    ASSUME CapTypeOK, NEW h \in Handles, Live(h),
           nodes' = BumpEpoch(slots[h.slot].node)
    PROVE  LineageStep /\ Len(nodes') = Len(nodes)
<1>1. slots[h.slot].node \in NodeIdx
    BY LiveFacts
<1> QED BY <1>1, BumpEpochFacts DEF LineageStep

(* The child node of grant and lend.                                        *)
LEMMA DeriveStep ==
    ASSUME CapTypeOK, NEW h \in Handles, NEW req \in SUBSET AllRights,
           NEW lent \in BOOLEAN, Derive(h, req, lent)
    PROVE  SlotStep /\ LineageStep
<1> DEFINE c == NewCap(Len(nodes) + 1, slots[h.slot].object,
                       slots[h.slot].rights \cap req, lent)
<1>1. /\ h.slot \in SlotIdx
      /\ ~slots[h.slot].free
      /\ slots[h.slot].node \in NodeIdx
      /\ slots[h.slot].object \in ObjectIdx
      /\ slots[h.slot].rights \in SUBSET AllRights
    BY LiveFacts DEF Derive, MayDerive
<1>2. /\ slots \in [SlotIdx -> CapSlot]
      /\ nodes \in Seq(CapNode) /\ Len(nodes) \in Nat
      /\ objects \in Seq(CapObject) /\ Len(objects) \in Nat
    BY DEF CapTypeOK
<1>3. /\ c \in CapSlot /\ c.node = Len(nodes) + 1 /\ ~c.free
      /\ c.object = slots[h.slot].object /\ c.rights = slots[h.slot].rights \cap req
    BY <1>1, <1>2, CapAssumption DEF NewCap, CapSlot, ObjectIdx
<1>4. slots' = Install(c) /\ retired' = retired
    BY DEF Derive
<1>5. ~slots[h.slot].lent
    BY DEF Derive, MayDerive
<1> HIDE DEF c
<1>6. slots[h.slot].node \in 0 .. Len(nodes) /\ Len(nodes) < MaxCapNodes
      /\ nodes' = Append(nodes, [parent |-> slots[h.slot].node, epoch |-> 0])
    BY <1>1, <1>2 DEF NodeIdx, Derive
<1>7. /\ Len(nodes') = Len(nodes) + 1
      /\ \A n \in NodeIdx : nodes'[n] = nodes[n]
      /\ nodes'[Len(nodes) + 1] = [parent |-> slots[h.slot].node, epoch |-> 0]
    BY <1>6, AppendNode
<1>8. /\ \A n \in NodeIdx : nodes[n].epoch \in Nat
      /\ nodes'[Len(nodes) + 1].parent = slots[h.slot].node
    BY <1>7, NodeFacts
<1>9. ASSUME NEW t \in SlotIdx, SlotFilled(t)
      PROVE  slots'[t].rights \subseteq slots[h.slot].rights
             /\ slots'[t].object = slots[h.slot].object
    <2>1. slots'[t] # slots[t]
        BY <1>9 DEF SlotFilled
    <2>2. slots'[t] = [c EXCEPT !.gen = slots[t].gen]
        BY <1>2, <1>3, <1>4, <2>1, InstallFacts
    <2>3. slots'[t].rights = c.rights /\ slots'[t].object = c.object
        BY <1>3, <2>2 DEF CapSlot
    <2> QED BY <1>3, <2>3
<1>10. DerivedFrom(slots[h.slot].node)
    BY <1>1, <1>5, <1>9 DEF DerivedFrom
<1>11. LineageStep
    BY <1>7, <1>8, <1>10 DEF LineageStep
<1>12. SlotStep
    BY <1>3, <1>4, <1>7, InstallSlotStep
<1> QED BY <1>11, <1>12

(* Steps that leave the slots alone.                                        *)
LEMMA QuietSlotStep ==
    ASSUME CapTypeOK, slots' = slots, retired' = retired,
           Len(nodes') >= Len(nodes)
    PROVE  SlotStep
<1>1. \A s \in SlotIdx : SlotKept(s) /\ ~SlotFilled(s)
    BY DEF SlotKept, SlotFilled
<1> QED BY <1>1 DEF SlotStep

(* Every step is one of these on the slots and on the lineage.              *)
LEMMA StepShape == CapTypeOK /\ [CapNext]_capVars => SlotStep /\ LineageStep
<1> SUFFICES ASSUME CapTypeOK, [CapNext]_capVars PROVE SlotStep /\ LineageStep
    OBVIOUS
<1>0. /\ slots \in [SlotIdx -> CapSlot]
      /\ Len(nodes) \in Nat
      /\ objects \in Seq(CapObject) /\ Len(objects) \in Nat
    BY DEF CapTypeOK
<1>1. ASSUME NEW kind \in Kinds, CreateObject(kind) PROVE SlotStep /\ LineageStep
    <2> DEFINE c == NewCap(Len(nodes) + 1, Len(objects) + 1, AllRights, FALSE)
    <2>1. c \in CapSlot /\ c.node = Len(nodes) + 1 /\ ~c.free
        BY <1>0, CapAssumption DEF NewCap, CapSlot
    <2>2. slots' = Install(c) /\ Len(nodes) < MaxCapNodes /\ retired' = retired
          /\ nodes' = Append(nodes, [parent |-> NoNode, epoch |-> 0])
        BY <1>1 DEF CreateObject
    <2> HIDE DEF c
    <2>3. LineageStep /\ Len(nodes') = Len(nodes) + 1
        BY <2>2, RootLineageStep
    <2> QED BY <2>1, <2>2, <2>3, InstallSlotStep
<1>2. ASSUME NEW h \in Handles, NEW req \in SUBSET AllRights, Transfer(h, req)
      PROVE  SlotStep /\ LineageStep
    <2> DEFINE c == NewCap(Len(nodes) + 1, slots[h.slot].object,
                           slots[h.slot].rights \cap req, FALSE)
    <2>1. /\ Live(h)
          /\ slots[h.slot].object \in ObjectIdx
          /\ slots[h.slot].rights \in SUBSET AllRights
        BY <1>2, LiveFacts DEF Transfer, MayDerive
    <2>2. c \in CapSlot /\ c.node = Len(nodes) + 1 /\ ~c.free
        BY <1>0, <2>1, CapAssumption DEF NewCap, CapSlot, ObjectIdx
    <2>3. /\ nodes' = Append(nodes, [parent |-> NoNode, epoch |-> 0])
          /\ Len(nodes) < MaxCapNodes
          /\ \/ slots' = slots /\ retired' = retired
             \/ slots' = Freed(Install(c), h.slot) /\ retired' = retired \cup {h}
        BY <1>2 DEF Transfer
    <2> HIDE DEF c
    <2>4. LineageStep /\ Len(nodes') = Len(nodes) + 1
        BY <2>3, RootLineageStep
    <2>5. CASE slots' = slots /\ retired' = retired
        BY <1>0, <2>4, <2>5, QuietSlotStep
    <2>6. CASE slots' = Freed(Install(c), h.slot) /\ retired' = retired \cup {h}
        BY <2>1, <2>2, <2>4, <2>6, TransferSlotStep
    <2> QED BY <2>3, <2>4, <2>5, <2>6
<1>3. ASSUME NEW h \in Handles, Live(h), slots' = Freed(slots, h.slot),
             retired' = retired \cup {h}, nodes' = nodes
      PROVE  SlotStep /\ LineageStep
    BY <1>3, FreedSlotStep, SameLineageStep
<1>4. ASSUME NEW h \in Handles, Live(h), nodes' = BumpEpoch(slots[h.slot].node),
             slots' = slots, retired' = retired
      PROVE  SlotStep /\ LineageStep
    <2>1. LineageStep /\ Len(nodes') = Len(nodes)
        BY <1>4, EpochLineageStep
    <2> QED BY <1>0, <1>4, <2>1, QuietSlotStep
<1>5. ASSUME slots' = slots, nodes' = nodes, retired' = retired
      PROVE  SlotStep /\ LineageStep
    BY <1>0, <1>5, QuietSlotStep, SameLineageStep
<1>6. ASSUME NEW h \in Handles, Close(h) PROVE SlotStep /\ LineageStep
    BY <1>3, <1>6 DEF Close
<1>7. ASSUME NEW h \in Handles, Revoke(h) \/ DestroyOwnedRevoke(h)
      PROVE  SlotStep /\ LineageStep
    BY <1>4, <1>7 DEF Revoke, DestroyOwnedRevoke
<1>8. ASSUME NEW h \in Handles, DestroyOwnedClose(h) PROVE SlotStep /\ LineageStep
    <2>1. CASE Live(h)
        BY <1>3, <1>8, <2>1 DEF DestroyOwnedClose
    <2>2. CASE ~Live(h)
        BY <1>5, <1>8, <2>2 DEF DestroyOwnedClose
    <2> QED BY <2>1, <2>2
<1>9. ASSUME NEW a \in Accessors, NEW h \in Handles, NEW flags, Deref(a, h, flags)
      PROVE  SlotStep /\ LineageStep
    BY <1>5, <1>9 DEF Deref
<1>10. ASSUME NEW a \in Accessors, DropAccess(a) PROVE SlotStep /\ LineageStep
    BY <1>5, <1>10 DEF DropAccess
<1>11. CASE UNCHANGED capVars
    BY <1>5, <1>11 DEF capVars
<1>12. ASSUME NEW s \in SlotIdx, CapStep(HandleOf(s)) PROVE SlotStep /\ LineageStep
    <2>1. HandleOf(s) \in Handles
        BY HandleOfFacts
    <2> QED BY <1>2, <1>6, <1>7, <1>9, <1>12, <2>1, DeriveStep
            DEF CapStep, Grant, Lend
<1>13. destroying \subseteq Handles
    BY DEF CapTypeOK
<1> QED BY <1>1, <1>8, <1>10, <1>11, <1>12, <1>13 DEF CapNext

(* The generations after a step.                                            *)
LEMMA GenerationsNext ==
    ASSUME CapTypeOK, SlotStep, SlotGenerations, RetiredIsOlder
    PROVE  SlotGenerations' /\ RetiredIsOlder'
<1>0. ASSUME NEW s \in SlotIdx
      PROVE  /\ slots[s].gen \in Nat /\ slots[s].gen >= 1 /\ slots[s].gen <= Len(nodes) + 1
             /\ ~slots[s].free => slots[s].gen <= Len(nodes)
             /\ Len(nodes) \in Nat /\ Len(nodes) <= MaxCapNodes
             /\ Len(nodes') >= Len(nodes)
    <2>1. slots[s] \in CapSlot /\ Len(nodes) \in Nat /\ Len(nodes) <= MaxCapNodes
        BY DEF CapTypeOK
    <2>2. slots[s].gen \in Nat
        BY <2>1, CapAssumption DEF CapSlot
    <2>3. slots[s].gen >= 1 /\ slots[s].gen <= Len(nodes) + (IF slots[s].free THEN 1 ELSE 0)
        BY DEF SlotGenerations
    <2>4. Len(nodes') >= Len(nodes)
        BY DEF SlotStep
    <2> QED BY <2>1, <2>2, <2>3, <2>4
<1>1. ASSUME NEW s \in SlotIdx, SlotFreed(s)
      PROVE  slots'[s].gen = slots[s].gen + 1 /\ slots'[s].gen <= Len(nodes) + 1
    <2>1. slots[s].gen + 1 \in Nat /\ slots[s].gen + 1 < GenModulus
        BY <1>0, <1>1, CapAssumption DEF SlotFreed
    <2>2. (slots[s].gen + 1) % GenModulus = slots[s].gen + 1
        BY <2>1, CapAssumption
    <2> QED BY <1>0, <1>1, <2>2 DEF SlotFreed
<1>2. SlotGenerations'
    <2> SUFFICES ASSUME NEW s \in SlotIdx
                 PROVE  /\ slots'[s].gen >= 1
                        /\ slots'[s].gen <= Len(nodes') + (IF slots'[s].free THEN 1 ELSE 0)
        BY DEF SlotGenerations
    <2>1. CASE SlotKept(s)
        BY <1>0, <2>1 DEF SlotKept, SlotGenerations, CapTypeOK
    <2>2. CASE SlotFilled(s)
        BY <1>0, <2>2 DEF SlotFilled
    <2>3. CASE SlotFreed(s)
        BY <1>0, <1>1, <2>3 DEF SlotFreed
    <2> QED BY <2>1, <2>2, <2>3 DEF SlotStep
<1>3. RetiredIsOlder'
    <2> SUFFICES ASSUME NEW h \in retired' PROVE h.gen < slots'[h.slot].gen
        BY DEF RetiredIsOlder
    <2>1. CASE h \in retired
        <3>1. h \in Handles /\ h.slot \in SlotIdx /\ h.gen \in Nat
            BY <2>1, CapAssumption DEF CapTypeOK, Handles
        <3>2. h.gen < slots[h.slot].gen
            BY <2>1 DEF RetiredIsOlder
        <3>3. slots'[h.slot].gen = slots[h.slot].gen \/ slots'[h.slot].gen = slots[h.slot].gen + 1
            BY <1>1, <3>1 DEF SlotStep, SlotKept, SlotFilled
        <3> QED BY <1>0, <3>1, <3>2, <3>3
    <2>2. CASE h \notin retired
        <3>1. h \in Handles /\ Live(h) /\ SlotFreed(h.slot)
            BY <2>2 DEF SlotStep
        <3>2. h.slot \in SlotIdx /\ h.gen = slots[h.slot].gen
            BY <3>1 DEF Handles, Live
        <3> QED BY <1>0, <1>1, <3>1, <3>2
    <2> QED BY <2>1, <2>2
<1> QED BY <1>2, <1>3

-----------------------------------------------------------------------------
(* Lineage: rights only shrink along derivations *)

(* A lineage holds its own node and nothing younger.                        *)
LEMMA LineageBound ==
    ASSUME NEW ns, NEW n \in Nat
    PROVE  Lineage(ns, n) \subseteq 1 .. n
BY DEF Lineage

(* A parent-closed set that holds n covers the lineage of n.                *)
LEMMA LineageLeast ==
    ASSUME NEW ns, NEW n \in Nat, NEW L \in SUBSET (1 .. n),
           n \in L, ParentClosed(ns, L)
    PROVE  Lineage(ns, n) \subseteq L
BY DEF Lineage

(* The lineage of a node depends on the parents of older nodes only.        *)
LEMMA LineageKept ==
    ASSUME NEW ns, NEW ms, NEW n \in Nat,
           \A k \in 1 .. n : ms[k].parent = ns[k].parent
    PROVE  Lineage(ms, n) \subseteq Lineage(ns, n)
<1>1. ASSUME NEW L \in SUBSET (1 .. n), ParentClosed(ns, L)
      PROVE  ParentClosed(ms, L)
    BY <1>1 DEF ParentClosed
<1> QED BY <1>1 DEF Lineage

(* A lineage is closed under parents.                                       *)
LEMMA LineageClosed ==
    ASSUME NEW ns, NEW n \in Nat,
           \A k \in 1 .. n : ns[k].parent \in Nat /\ ns[k].parent < k
    PROVE  ParentClosed(ns, Lineage(ns, n))
<1> SUFFICES ASSUME NEW a \in Lineage(ns, n), ns[a].parent # NoNode
             PROVE  ns[a].parent \in Lineage(ns, n)
    BY DEF ParentClosed
<1>1. a \in 1 .. n
    BY LineageBound
<1>2. ns[a].parent \in 1 .. n
    BY <1>1 DEF NoNode
<1>3. ASSUME NEW L \in SUBSET (1 .. n), n \in L, ParentClosed(ns, L)
      PROVE  ns[a].parent \in L
    <2>1. a \in L
        BY <1>3, LineageLeast
    <2> QED BY <1>3, <2>1 DEF ParentClosed
<1> QED BY <1>2, <1>3 DEF Lineage

(* A node that has no parent is alone in its lineage.                       *)
LEMMA LineageOfRoot ==
    ASSUME NEW ns, NEW n \in Nat \ {0}, ns[n].parent = NoNode
    PROVE  Lineage(ns, n) \subseteq {n}
<1>1. {n} \in SUBSET (1 .. n) /\ ParentClosed(ns, {n})
    BY DEF ParentClosed
<1> QED BY <1>1, LineageLeast

(* A child's lineage is the child and its parent's lineage.                 *)
LEMMA LineageOfChild ==
    ASSUME NEW ns, NEW n \in Nat, NEW p \in 1 .. n - 1, ns[n].parent = p,
           \A k \in 1 .. n : ns[k].parent \in Nat /\ ns[k].parent < k
    PROVE  Lineage(ns, n) \subseteq {n} \cup Lineage(ns, p)
<1> DEFINE L == {n} \cup Lineage(ns, p)
<1>1. p \in Nat /\ Lineage(ns, p) \subseteq 1 .. p
    BY LineageBound
<1>2. p \in Lineage(ns, p)
    BY <1>1 DEF Lineage
<1>3. ParentClosed(ns, Lineage(ns, p))
    BY <1>1, LineageClosed
<1>4. ParentClosed(ns, L)
    BY <1>2, <1>3 DEF ParentClosed
<1>5. L \in SUBSET (1 .. n) /\ n \in L
    BY <1>1
<1> HIDE DEF L
<1>6. Lineage(ns, n) \subseteq L
    BY <1>4, <1>5, LineageLeast
<1> QED BY <1>6 DEF L

(* A slot in use after a step was in use before it with the same content,   *)
(* or holds a capability on the node just appended.                         *)
LEMMA InUseAfter ==
    ASSUME CapTypeOK, SlotStep, NEW s \in SlotIdx, ~slots'[s].free
    PROVE  \/ /\ slots'[s] = slots[s] /\ ~slots[s].free
              /\ slots[s].node \in Nat /\ slots[s].node >= 1
              /\ slots[s].node <= Len(nodes)
           \/ SlotFilled(s)
<1>1. SlotKept(s) \/ SlotFilled(s)
    BY DEF SlotStep, SlotFreed
<1>2. CASE SlotKept(s)
    <2>1. slots'[s] = slots[s] /\ ~slots[s].free
        BY <1>2 DEF SlotKept
    <2>2. slots[s].node \in NodeIdx /\ Len(nodes) \in Nat
        BY <2>1 DEF CapTypeOK
    <2> QED BY <2>1, <2>2 DEF NodeIdx
<1> QED BY <1>1, <1>2

(* Capabilities keep their nodes to themselves.                             *)
LEMMA DistinctNext ==
    ASSUME CapTypeOK, SlotStep, NodesDistinct
    PROVE  NodesDistinct'
<1> SUFFICES ASSUME NEW s \in SlotIdx, NEW t \in SlotIdx,
                    ~slots'[s].free, ~slots'[t].free, slots'[s].node = slots'[t].node
             PROVE  s = t
    BY DEF NodesDistinct
<1>0. Len(nodes) \in Nat
    BY DEF CapTypeOK
<1>1. CASE SlotFilled(s) /\ SlotFilled(t)
    BY <1>1 DEF SlotStep
<1>2. CASE SlotFilled(s) /\ ~SlotFilled(t)
    <2>1. slots'[s].node = Len(nodes) + 1
        BY <1>2 DEF SlotFilled
    <2>2. slots'[t].node \in Nat /\ slots'[t].node <= Len(nodes)
        BY <1>2, InUseAfter
    <2> QED BY <1>0, <2>1, <2>2
<1>3. CASE ~SlotFilled(s) /\ SlotFilled(t)
    <2>1. slots'[t].node = Len(nodes) + 1
        BY <1>3 DEF SlotFilled
    <2>2. slots'[s].node \in Nat /\ slots'[s].node <= Len(nodes)
        BY <1>3, InUseAfter
    <2> QED BY <1>0, <2>1, <2>2
<1>4. CASE ~SlotFilled(s) /\ ~SlotFilled(t)
    BY <1>4, InUseAfter DEF NodesDistinct
<1> QED BY <1>1, <1>2, <1>3, <1>4

(* Nothing is derived from a lent capability.                               *)
LEMMA LeafNext ==
    ASSUME CapTypeOK, CapTypeOK', SlotStep, LineageStep, NodesDistinct, LentIsLeaf
    PROVE  LentIsLeaf'
<1> SUFFICES ASSUME NEW s \in SlotIdx, ~slots'[s].free, slots'[s].lent,
                    NEW n \in 1 .. Len(nodes')
             PROVE  nodes'[n].parent # slots'[s].node
    BY DEF LentIsLeaf, NodeIdx
<1>0. Len(nodes) \in Nat /\ Len(nodes') \in Nat
    BY DEF CapTypeOK
<1>1. nodes'[n].parent < n /\ n \in Nat /\ n <= Len(nodes')
    BY <1>0 DEF CapTypeOK, NodeIdx
<1>2. nodes'[n].parent \in Nat
    <2>1. nodes' \in Seq(CapNode)
        BY DEF CapTypeOK
    <2>2. nodes'[n] \in CapNode
        BY <2>1
    <2> QED BY <2>2 DEF CapNode
<1>3. CASE SlotFilled(s)
    BY <1>0, <1>1, <1>2, <1>3 DEF SlotFilled
<1>4. CASE ~SlotFilled(s)
    <2>1. /\ slots'[s] = slots[s] /\ ~slots[s].free /\ slots[s].lent
          /\ slots[s].node \in Nat /\ slots[s].node >= 1
        BY <1>4, InUseAfter
    <2>2. CASE n \in NodeIdx
        BY <2>1, <2>2 DEF LineageStep, LentIsLeaf
    <2>3. CASE n \notin NodeIdx
        <3>1. n = Len(nodes) + 1 /\ Len(nodes') = Len(nodes) + 1
            BY <1>0, <1>1, <2>3 DEF LineageStep, NodeIdx
        <3>2. CASE nodes'[Len(nodes) + 1].parent = NoNode
            BY <2>1, <3>1, <3>2 DEF NoNode
        <3>3. CASE DerivedFrom(nodes'[Len(nodes) + 1].parent)
            <4>1. PICK u \in SlotIdx : /\ ~slots[u].free
                                       /\ ~slots[u].lent
                                       /\ slots[u].node = nodes'[Len(nodes) + 1].parent
                BY <3>3 DEF DerivedFrom
            <4>2. u # s
                BY <2>1, <4>1
            <4>3. slots[u].node # slots[s].node
                BY <2>1, <4>1, <4>2 DEF NodesDistinct
            <4> QED BY <2>1, <3>1, <4>1, <4>3
        <3> QED BY <1>0, <3>1, <3>2, <3>3 DEF LineageStep
    <2> QED BY <2>2, <2>3
<1> QED BY <1>3, <1>4

(* Rights never grow from an ancestor to a descendant.                      *)
LEMMA AttenuationNext ==
    ASSUME CapTypeOK, CapTypeOK', SlotStep, LineageStep, NodesDistinct, Attenuation
    PROVE  Attenuation'
<1> SUFFICES ASSUME NEW s \in SlotIdx, NEW t \in SlotIdx,
                    ~slots'[s].free, ~slots'[t].free,
                    slots'[t].node \in Lineage(nodes', slots'[s].node)
             PROVE  /\ slots'[s].rights \subseteq slots'[t].rights
                    /\ slots'[s].object = slots'[t].object
    BY DEF Attenuation
<1>0. Len(nodes) \in Nat /\ Len(nodes') \in Nat
    BY DEF CapTypeOK
<1>1. ASSUME NEW n \in Nat, n <= Len(nodes)
      PROVE  Lineage(nodes', n) \subseteq Lineage(nodes, n)
    <2>1. \A k \in 1 .. n : nodes'[k].parent = nodes[k].parent
        BY <1>0, <1>1 DEF LineageStep, NodeIdx
    <2> QED BY <2>1, LineageKept
<1>2. ASSUME NEW u \in SlotIdx, ~slots[u].free,
             slots'[t] = slots[t], ~slots[t].free,
             slots[t].node \in Lineage(nodes, slots[u].node)
      PROVE  /\ slots[u].rights \subseteq slots'[t].rights
             /\ slots[u].object = slots'[t].object
    BY <1>2 DEF Attenuation
<1>3. CASE ~SlotFilled(s)
    <2>1. /\ slots'[s] = slots[s] /\ ~slots[s].free
          /\ slots[s].node \in Nat /\ slots[s].node <= Len(nodes)
        BY <1>3, InUseAfter
    <2>2. slots'[t].node \in Lineage(nodes, slots[s].node)
        BY <1>1, <2>1
    <2>3. slots'[t].node <= Len(nodes)
        BY <1>0, <2>1, <2>2, LineageBound
    <2>4. ~SlotFilled(t)
        BY <1>0, <2>3 DEF SlotFilled
    <2>5. slots'[t] = slots[t] /\ ~slots[t].free
        BY <2>4, InUseAfter
    <2> QED BY <1>2, <2>1, <2>2, <2>5
<1>4. CASE SlotFilled(s) /\ SlotFilled(t)
    <2>1. s = t
        BY <1>4 DEF SlotStep
    <2> QED BY <2>1
<1>5. CASE SlotFilled(s) /\ ~SlotFilled(t)
    <2>1. /\ slots'[t] = slots[t] /\ ~slots[t].free
          /\ slots[t].node \in Nat /\ slots[t].node <= Len(nodes)
        BY <1>5, InUseAfter
    <2>2. PICK m \in Nat \ {0} : m = Len(nodes) + 1
        BY <1>0
    <2>3. slots'[s].node = m /\ Len(nodes') = m /\ slots[t].node # m
        BY <1>0, <1>5, <2>1, <2>2 DEF SlotFilled
    <2>4. slots[t].node \in Lineage(nodes', m)
        BY <2>1, <2>3
    <2>5. CASE nodes'[m].parent = NoNode
        BY <2>3, <2>4, <2>5, LineageOfRoot
    <2>6. CASE DerivedFrom(nodes'[m].parent)
        <3>1. PICK u \in SlotIdx :
                 /\ ~slots[u].free
                 /\ slots[u].node = nodes'[m].parent
                 /\ slots'[s].rights \subseteq slots[u].rights
                 /\ slots'[s].object = slots[u].object
            BY <1>5, <2>6 DEF DerivedFrom
        <3>2. slots[u].node \in NodeIdx
            BY <3>1 DEF CapTypeOK
        <3>3. slots[u].node \in 1 .. m - 1 /\ slots[u].node \in Nat
              /\ slots[u].node <= Len(nodes)
            BY <1>0, <2>2, <3>2 DEF NodeIdx
        <3>4. \A k \in 1 .. m : nodes'[k].parent \in Nat /\ nodes'[k].parent < k
            <4>1. nodes' \in Seq(CapNode) /\ \A k \in 1 .. m : nodes'[k].parent < k
                BY <2>3 DEF CapTypeOK, NodeIdx
            <4>2. \A k \in 1 .. m : nodes'[k] \in CapNode
                BY <2>3, <4>1
            <4> QED BY <4>1, <4>2 DEF CapNode
        <3>5. Lineage(nodes', m) \subseteq {m} \cup Lineage(nodes', slots[u].node)
            BY <3>1, <3>3, <3>4, LineageOfChild
        <3>6. slots[t].node \in Lineage(nodes, slots[u].node)
            BY <1>1, <2>3, <2>4, <3>3, <3>5
        <3> QED BY <1>2, <2>1, <3>1, <3>6
    <2> QED BY <1>0, <2>2, <2>3, <2>5, <2>6 DEF LineageStep
<1> QED BY <1>3, <1>4, <1>5

(* The invariant of the capability core is inductive.                       *)
LEMMA InvInit == CapInit => CapInv
<1> SUFFICES ASSUME CapInit PROVE CapInv
    OBVIOUS
<1>1. CapTypeOK
    BY TypeInit
<1>2. \A s \in SlotIdx : slots[s].free /\ slots[s].gen = 1
    BY DEF CapInit
<1>3. Len(nodes) = 0 /\ retired = {}
    BY DEF CapInit
<1>4. SlotGenerations /\ RetiredIsOlder
    BY <1>2, <1>3 DEF SlotGenerations, RetiredIsOlder
<1>5. NodesDistinct /\ LentIsLeaf /\ Attenuation
    BY <1>2 DEF NodesDistinct, LentIsLeaf, Attenuation
<1> QED BY <1>1, <1>4, <1>5 DEF CapInv

LEMMA InvNext == CapInv /\ [CapNext]_capVars => CapInv'
<1> SUFFICES ASSUME CapInv, [CapNext]_capVars PROVE CapInv'
    OBVIOUS
<1>1. /\ CapTypeOK /\ SlotGenerations /\ RetiredIsOlder
      /\ NodesDistinct /\ LentIsLeaf /\ Attenuation
    BY DEF CapInv
<1>2. CapTypeOK'
    BY <1>1, TypeNext
<1>3. SlotStep /\ LineageStep
    BY <1>1, StepShape
<1>4. SlotGenerations' /\ RetiredIsOlder'
    BY <1>1, <1>3, GenerationsNext
<1>5. NodesDistinct'
    BY <1>1, <1>3, DistinctNext
<1>6. LentIsLeaf'
    BY <1>1, <1>2, <1>3, LeafNext
<1>7. Attenuation'
    BY <1>1, <1>2, <1>3, AttenuationNext
<1> QED BY <1>2, <1>4, <1>5, <1>6, <1>7 DEF CapInv

(* Every reachable state satisfies it.                                      *)
THEOREM CapInvariant == CapSpec => []CapInv
BY InvInit, InvNext, PTL DEF CapSpec

(* A handle that was closed or transferred away is never accepted again,    *)
(* whatever happens to its slot: a slot's generation only grows, every use  *)
(* of a slot spends a node, and MAX_CAP_NODES is below the width of the     *)
(* generation.                                                              *)
THEOREM StaleHandles == CapSpec => []StaleHandlesStayDead
<1>1. CapInv => StaleHandlesStayDead
    <2> SUFFICES ASSUME CapTypeOK, RetiredIsOlder, NEW h \in retired
                 PROVE  ~Live(h)
        BY DEF StaleHandlesStayDead, CapInv
    <2>1. h \in Handles /\ h.gen < slots[h.slot].gen
        BY DEF CapTypeOK, RetiredIsOlder
    <2>2. h.gen \in Nat /\ slots[h.slot].gen \in Nat
        BY <2>1, CapAssumption DEF Handles, CapTypeOK, CapSlot
    <2> QED BY <2>1, <2>2 DEF Live
<1> QED BY <1>1, CapInvariant, PTL

(* INV-9 for every table size and any number of derivations: a capability   *)
(* never has more rights than a live capability it descends from, and names *)
(* the same object.                                                         *)
THEOREM RightsAttenuate == CapSpec => []Attenuation
<1>1. CapInv => Attenuation
    BY DEF CapInv
<1> QED BY <1>1, CapInvariant, PTL

(* A lent capability has no descendants.                                    *)
THEOREM LentCapsAreLeaves == CapSpec => []LentIsLeaf
<1>1. CapInv => LentIsLeaf
    BY DEF CapInv
<1> QED BY <1>1, CapInvariant, PTL

-----------------------------------------------------------------------------
(* Revocation *)

(* An object that was freed stays freed.                                    *)
LEMMA FreedObjectsStayFreed ==
    ASSUME CapTypeOK, [CapNext]_capVars, NEW o \in ObjectIdx, ~objects[o].valid
    PROVE  ~objects'[o].valid
<1>0. objects \in Seq(CapObject) /\ objects[o] \in CapObject /\ o \in 1 .. Len(objects)
    BY DEF CapTypeOK, ObjectIdx
<1>1. CASE UNCHANGED objects
    BY <1>1
<1>2. ASSUME NEW kind \in Kinds, CreateObject(kind) PROVE ~objects'[o].valid
    <2>1. objects' = Append(objects, [kind |-> kind, refcount |-> 0, valid |-> TRUE])
        BY <1>2 DEF CreateObject
    <2>2. objects'[o] = objects[o]
        BY <1>0, <2>1
    <2> QED BY <2>2
<1>3. ASSUME NEW a, NEW h, NEW flags, Deref(a, h, flags) PROVE ~objects'[o].valid
    <2>1. objects' = [objects EXCEPT ![slots[h.slot].object] =
                        [objects[slots[h.slot].object] EXCEPT !.refcount = @ + 1]]
        BY <1>3 DEF Deref
    <2>2. objects'[o] = objects[o] \/ objects'[o] = [objects[o] EXCEPT !.refcount = @ + 1]
        BY <1>0, <2>1
    <2> QED BY <1>0, <2>2 DEF CapObject
<1>4. ASSUME NEW a, DropAccess(a) PROVE ~objects'[o].valid
    <2>1. objects' = [objects EXCEPT ![access[a]] = Released(objects[access[a]])]
        BY <1>4 DEF DropAccess
    <2>2. objects'[o] = objects[o] \/ objects'[o] = Released(objects[o])
        BY <1>0, <2>1
    <2>3. Released(objects[o]) = objects[o]
        BY DEF Released
    <2> QED BY <2>2, <2>3
<1>5. ASSUME NEW h, CapStep(h) PROVE ~objects'[o].valid
    BY <1>1, <1>3, <1>5 DEF CapStep, Grant, Lend, Derive, Transfer, Close, Revoke,
       DestroyOwnedRevoke
<1>6. ASSUME NEW h, DestroyOwnedClose(h) PROVE ~objects'[o].valid
    BY <1>1, <1>6 DEF DestroyOwnedClose
<1>7. CASE UNCHANGED capVars
    BY <1>1, <1>7 DEF capVars
<1> QED BY <1>2, <1>4, <1>5, <1>6, <1>7 DEF CapNext

(* A revoked node stays revoked.                                            *)
LEMMA RevokedStaysRevoked ==
    ASSUME CapTypeOK, LineageStep, NEW n \in NodeIdx,
           NEW a \in Lineage(nodes, n), nodes[a].epoch > 0, CapTypeOK'
    PROVE  a \in Lineage(nodes', n) /\ nodes'[a].epoch > 0
<1>1. n \in Nat /\ n <= Len(nodes) /\ Len(nodes) \in Nat
    BY NodeFacts DEF CapTypeOK
<1>2. \A k \in 1 .. n : k \in NodeIdx /\ nodes[k].parent = nodes'[k].parent
    BY <1>1 DEF LineageStep, NodeIdx
<1>3. a \in Lineage(nodes', n)
    BY <1>1, <1>2, LineageKept
<1>4. a \in NodeIdx
    BY <1>1, <1>2, LineageBound
<1>5. nodes'[a].epoch >= nodes[a].epoch /\ nodes[a].epoch \in Nat
    BY <1>4, NodeFacts DEF LineageStep
<1>6. nodes'[a].epoch \in Nat
    <2>1. a \in NodeIdx'
        BY <1>1, <1>4 DEF LineageStep, NodeIdx
    <2>2. \A m \in NodeIdx' : nodes'[m] \in CapNode
        BY DEF CapTypeOK, NodeIdx
    <2> QED BY <2>1, <2>2, CapAssumption DEF CapNode
<1> QED BY <1>3, <1>5, <1>6

(* Revocation is final: a live handle that check_rights refuses, because it *)
(* or an ancestor was revoked or the object was freed, is refused for ever. *)
THEOREM RevocationFinal == CapSpec => RevocationIsFinal
<1>1. CapInv /\ CapInv' /\ [CapNext]_capVars
        => [\A h \in Handles : Live(h) /\ ~Usable(h) => ~Usable(h)']_capVars
    <2> SUFFICES ASSUME CapInv, CapInv', [CapNext]_capVars, NEW h \in Handles,
                        Live(h), ~Usable(h), Usable(h)'
                 PROVE  FALSE
        OBVIOUS
    <2>1. CapTypeOK /\ CapTypeOK'
        BY DEF CapInv
    <2>2. SlotStep /\ LineageStep
        BY <2>1, StepShape
    <2>3. /\ h.slot \in SlotIdx /\ ~slots[h.slot].free
          /\ slots[h.slot].node \in NodeIdx /\ slots[h.slot].object \in ObjectIdx
        BY <2>1, LiveFacts
    <2>4. ~slots'[h.slot].free
        BY DEF Usable, CheckRights, Live
    <2>5. slots'[h.slot] = slots[h.slot]
        BY <2>1, <2>2, <2>3, <2>4, InUseAfter DEF SlotFilled
    <2>6. IsRevoked(slots[h.slot].node) \/ ~objects[slots[h.slot].object].valid
        BY DEF Usable, CheckRights
    <2>7. CASE ~objects[slots[h.slot].object].valid
        <3>1. ~objects'[slots[h.slot].object].valid
            BY <2>1, <2>3, <2>7, FreedObjectsStayFreed
        <3> QED BY <2>5, <3>1 DEF Usable, CheckRights
    <2>8. CASE IsRevoked(slots[h.slot].node)
        <3>1. PICK a \in Lineage(nodes, slots[h.slot].node) : nodes[a].epoch > 0
            BY <2>8 DEF IsRevoked
        <3>2. a \in Lineage(nodes', slots[h.slot].node) /\ nodes'[a].epoch > 0
            BY <2>1, <2>2, <2>3, <3>1, RevokedStaysRevoked
        <3> QED BY <2>5, <3>2 DEF Usable, CheckRights, IsRevoked
    <2> QED BY <2>6, <2>7, <2>8
<1> QED BY <1>1, CapInvariant, PTL DEF CapSpec, RevocationIsFinal


-----------------------------------------------------------------------------
(* The walk of is_revoked *)

(* A node is in its own lineage.                                            *)
LEMMA LineageSelf ==
    ASSUME NEW ns, NEW n \in Nat \ {0}
    PROVE  n \in Lineage(ns, n)
BY DEF Lineage

(* A lineage contains the lineage of every node on it.                      *)
LEMMA LineageTransitive ==
    ASSUME NEW ns, NEW n \in Nat, NEW p \in Lineage(ns, n),
           \A k \in 1 .. n : ns[k].parent \in Nat /\ ns[k].parent < k
    PROVE  Lineage(ns, p) \subseteq Lineage(ns, n)
<1>1. p \in 1 .. n /\ p \in Nat
    BY LineageBound
<1> DEFINE L == Lineage(ns, n) \cap (1 .. p)
<1>2. ParentClosed(ns, Lineage(ns, n))
    BY LineageClosed
<1>3. ParentClosed(ns, L)
    BY <1>1, <1>2 DEF ParentClosed, NoNode
<1>4. L \in SUBSET (1 .. p) /\ p \in L
    BY <1>1
<1> HIDE DEF L
<1>5. Lineage(ns, p) \subseteq L
    BY <1>1, <1>3, <1>4, LineageLeast
<1> QED BY <1>5 DEF L

(* One turn of the loop of is_revoked: the epoch of the node is bumped, or  *)
(* its parent is revoked.                                                   *)
LEMMA RevokedUnfolds ==
    ASSUME CapTypeOK, NEW n \in NodeIdx
    PROVE  IsRevoked(n) <=> \/ nodes[n].epoch > 0
                            \/ nodes[n].parent # NoNode /\ IsRevoked(nodes[n].parent)
<1>1. /\ n \in Nat \ {0} /\ n <= Len(nodes) /\ Len(nodes) \in Nat
      /\ nodes[n].parent \in Nat /\ nodes[n].parent < n
    BY NodeFacts DEF CapTypeOK, NodeIdx
<1>2. \A k \in 1 .. n : nodes[k].parent \in Nat /\ nodes[k].parent < k
    BY <1>1, NodeFacts DEF NodeIdx
<1>3. n \in Lineage(nodes, n)
    BY <1>1, LineageSelf
<1>4. CASE nodes[n].parent = NoNode
    <2>1. Lineage(nodes, n) \subseteq {n}
        BY <1>1, <1>4, LineageOfRoot
    <2> QED BY <1>3, <1>4, <2>1 DEF IsRevoked
<1>5. CASE nodes[n].parent # NoNode
    <2>1. nodes[n].parent \in 1 .. n - 1
        BY <1>1, <1>5 DEF NoNode
    <2>2. Lineage(nodes, n) \subseteq {n} \cup Lineage(nodes, nodes[n].parent)
        BY <1>1, <1>2, <2>1, LineageOfChild
    <2>3. nodes[n].parent \in Lineage(nodes, n)
        BY <1>1, <1>2, <1>3, <1>5, LineageClosed DEF ParentClosed
    <2>4. Lineage(nodes, nodes[n].parent) \subseteq Lineage(nodes, n)
        BY <1>1, <1>2, <2>3, LineageTransitive
    <2> QED BY <1>3, <1>5, <2>2, <2>4 DEF IsRevoked
<1> QED BY <1>4, <1>5

(* The loop of is_revoked visits exactly the lineage: the function it       *)
(* computes exists, because IsRevoked satisfies its equation, and it is     *)
(* unique, because a least node on which two solutions differ would have a  *)
(* parent on which they differ.                                             *)
LEMMA WalkIsLineage == CapTypeOK => WalkDecidesRevocation
<1> SUFFICES ASSUME CapTypeOK PROVE WalkDecidesRevocation
    OBVIOUS
<1> DEFINE Walk(f) == [n \in NodeIdx |-> \/ nodes[n].epoch > 0
                                         \/ nodes[n].parent # NoNode /\ f[nodes[n].parent]]
           g == [n \in NodeIdx |-> IsRevoked(n)]
<1>1. ASSUME NEW n \in NodeIdx, nodes[n].parent # NoNode
      PROVE  nodes[n].parent \in NodeIdx /\ nodes[n].parent < n
    <2>1. n \in 1 .. Len(nodes) /\ Len(nodes) \in Nat
        BY DEF NodeIdx, CapTypeOK
    <2> QED BY <1>1, <2>1, NodeFacts DEF NodeIdx, NoNode
<1>2. g = Walk(g)
    <2>1. ASSUME NEW n \in NodeIdx
          PROVE  IsRevoked(n) = (\/ nodes[n].epoch > 0
                                 \/ nodes[n].parent # NoNode /\ g[nodes[n].parent])
        <3>1. nodes[n].parent # NoNode => g[nodes[n].parent] = IsRevoked(nodes[n].parent)
            BY <1>1
        <3>2. IsRevoked(n) <=> \/ nodes[n].epoch > 0
                               \/ nodes[n].parent # NoNode /\ IsRevoked(nodes[n].parent)
            BY RevokedUnfolds
        <3>3. IsRevoked(n) \in BOOLEAN
            BY DEF IsRevoked
        <3> HIDE DEF g
        <3> QED BY <3>1, <3>2, <3>3, Zenon
    <2> QED BY <2>1, Zenon
<1>3. WalkRevoked = Walk(WalkRevoked)
    BY <1>2, Zenon DEF WalkRevoked
<1> DEFINE Bad == {n \in NodeIdx : ~(WalkRevoked[n] <=> IsRevoked(n))}
<1>4. ASSUME NEW n \in NodeIdx
      PROVE  WalkRevoked[n] <=> \/ nodes[n].epoch > 0
                                \/ nodes[n].parent # NoNode /\ WalkRevoked[nodes[n].parent]
    BY <1>3, Zenon
<1>5. Bad = {}
    <2> SUFFICES ASSUME Bad # {} PROVE FALSE
        OBVIOUS
    <2>1. Bad \in SUBSET Nat
        BY NodeFacts
    <2> HIDE DEF Bad
    <2>2. PICK m \in Bad : \A t \in Bad : m <= t
        BY <2>1, MinExists
    <2>3. m \in NodeIdx /\ ~(WalkRevoked[m] <=> IsRevoked(m))
        BY DEF Bad
    <2>4. IsRevoked(m) <=> \/ nodes[m].epoch > 0
                           \/ nodes[m].parent # NoNode /\ IsRevoked(nodes[m].parent)
        BY <2>3, RevokedUnfolds
    <2>5. WalkRevoked[m] <=> \/ nodes[m].epoch > 0
                             \/ nodes[m].parent # NoNode /\ WalkRevoked[nodes[m].parent]
        BY <1>4, <2>3
    <2>6. nodes[m].parent # NoNode
          /\ ~(WalkRevoked[nodes[m].parent] <=> IsRevoked(nodes[m].parent))
        BY <2>3, <2>4, <2>5, Zenon
    <2>7. nodes[m].parent \in Bad /\ nodes[m].parent < m
        BY <1>1, <2>3, <2>6 DEF Bad
    <2>8. m \in Nat /\ nodes[m].parent \in Nat
        BY <2>1, <2>7
    <2> QED BY <2>2, <2>7, <2>8
<1> QED BY <1>5, Zenon DEF WalkDecidesRevocation

-----------------------------------------------------------------------------
(* Guards *)

Holders(o) == {a \in Accessors : access[a] = o}

(* A new guard or a dropped one moves the number of guards on one object by *)
(* one.                                                                     *)
LEMMA OneHolder ==
    ASSUME NEW A \in SUBSET Accessors, NEW a \in Accessors
    PROVE  /\ Cardinality(A) \in Nat
           /\ a \notin A => Cardinality(A \cup {a}) = Cardinality(A) + 1
           /\ a \in A => Cardinality(A \ {a}) = Cardinality(A) - 1 /\ Cardinality(A) > 0
           /\ A # {} <=> Cardinality(A) # 0
<1>1. IsFiniteSet(A)
    BY CapAssumption, FS_Subset
<1>2. Cardinality(A) \in Nat /\ (Cardinality(A) = 0 <=> A = {})
    BY <1>1, FS_CardinalityType, FS_EmptySet
<1>3. a \notin A => Cardinality(A \cup {a}) = Cardinality(A) + 1
    BY <1>1, FS_AddElement
<1>4. a \in A => Cardinality(A \ {a}) = Cardinality(A) - 1
    BY <1>1, FS_RemoveElement
<1> QED BY <1>2, <1>3, <1>4

(* deref takes a guard on a valid object and CapAccess::drop gives one      *)
(* back, the last one freeing the object: the count and the guards move     *)
(* together.                                                                *)
LEMMA AccessNext ==
    ASSUME CapTypeOK, AccessKeepsObject, [CapNext]_capVars
    PROVE  AccessKeepsObject'
<1>0. /\ objects \in Seq(CapObject) /\ Len(objects) \in Nat
      /\ access \in [Accessors -> Nat]
      /\ \A o \in ObjectIdx : objects[o] \in CapObject
      /\ \A a \in Accessors : access[a] # NoObject => access[a] \in ObjectIdx
    BY DEF CapTypeOK, ObjectIdx
<1>1. \A o \in ObjectIdx : /\ objects[o].refcount = Cardinality(Holders(o))
                           /\ Holders(o) # {} => objects[o].valid
    BY DEF AccessKeepsObject, Holders
<1>2. SUFFICES ASSUME NEW o \in ObjectIdx'
               PROVE  /\ objects'[o].refcount = Cardinality(Holders(o)')
                      /\ Holders(o)' # {} => objects'[o].valid
    BY DEF AccessKeepsObject, Holders
<1> DEFINE Kept == /\ objects'[o].refcount = Cardinality(Holders(o)')
                   /\ Holders(o)' # {} => objects'[o].valid
<1>3. CASE UNCHANGED <<objects, access>>
    BY <1>1, <1>2, <1>3 DEF ObjectIdx, Holders
<1>4. ASSUME NEW kind \in Kinds, CreateObject(kind) PROVE Kept
    <2>1. objects' = Append(objects, [kind |-> kind, refcount |-> 0, valid |-> TRUE])
          /\ access' = access
        BY <1>4 DEF CreateObject
    <2>2. Holders(o)' = Holders(o)
        BY <2>1 DEF Holders
    <2>3. CASE o \in ObjectIdx
        BY <1>0, <1>1, <2>1, <2>2, <2>3 DEF ObjectIdx
    <2>4. CASE o \notin ObjectIdx
        <3>1. o = Len(objects) + 1
            BY <1>0, <1>2, <2>1, <2>4 DEF ObjectIdx
        <3>2. objects'[o].refcount = 0
            BY <1>0, <2>1, <3>1
        <3>3. Holders(o) = {}
            BY <1>0, <2>4, <3>1 DEF Holders, NoObject
        <3> QED BY <2>2, <3>2, <3>3, FS_EmptySet
    <2> QED BY <2>3, <2>4
<1>5. ASSUME NEW a \in Accessors, NEW h \in Handles, NEW flags, Deref(a, h, flags) PROVE Kept
    <2> DEFINE b == slots[h.slot].object
    <2>1. /\ access[a] = NoObject /\ b \in ObjectIdx /\ objects[b].valid
          /\ objects' = [objects EXCEPT ![b] = [objects[b] EXCEPT !.refcount = @ + 1]]
          /\ access' = [access EXCEPT ![a] = b]
        BY <1>0, <1>5, LiveFacts DEF Deref, CheckRights
    <2> HIDE DEF b
    <2>2. o \in ObjectIdx
        BY <1>0, <1>2, <2>1 DEF ObjectIdx
    <2>3. CASE o = b
        <3>1. Holders(o)' = Holders(o) \cup {a} /\ a \notin Holders(o)
            BY <1>0, <2>1, <2>2, <2>3 DEF Holders, NoObject, ObjectIdx
        <3>2. Cardinality(Holders(o)') = Cardinality(Holders(o)) + 1
            BY <3>1, OneHolder DEF Holders
        <3>3. objects'[o].refcount = objects[o].refcount + 1 /\ objects'[o].valid
            BY <1>0, <2>1, <2>2, <2>3 DEF CapObject, ObjectIdx
        <3> QED BY <1>1, <2>2, <3>2, <3>3
    <2>4. CASE o # b
        <3>1. Holders(o)' = Holders(o)
            BY <1>0, <2>1, <2>2, <2>4 DEF Holders, NoObject, ObjectIdx
        <3>2. objects'[o] = objects[o]
            BY <1>0, <2>1, <2>2, <2>4 DEF ObjectIdx
        <3> QED BY <1>1, <2>2, <3>1, <3>2
    <2> QED BY <2>3, <2>4
<1>6. ASSUME NEW a \in Accessors, DropAccess(a) PROVE Kept
    <2> DEFINE b == access[a]
    <2>1. /\ b # NoObject /\ b \in ObjectIdx
          /\ objects' = [objects EXCEPT ![b] = Released(objects[b])]
          /\ access' = [access EXCEPT ![a] = NoObject]
        BY <1>0, <1>6 DEF DropAccess
    <2>2. o \in ObjectIdx
        BY <1>0, <1>2, <2>1 DEF ObjectIdx
    <2>3. CASE o = b
        <3>1. Holders(o)' = Holders(o) \ {a} /\ a \in Holders(o)
            BY <1>0, <2>1, <2>2, <2>3 DEF Holders, NoObject, ObjectIdx
        <3>2. /\ Cardinality(Holders(o)') = Cardinality(Holders(o)) - 1
              /\ Cardinality(Holders(o)) > 0 /\ Cardinality(Holders(o)) \in Nat
              /\ Holders(o)' # {} => Cardinality(Holders(o)) # 1
            <4>1. /\ Cardinality(Holders(o) \ {a}) = Cardinality(Holders(o)) - 1
                  /\ Cardinality(Holders(o)) > 0 /\ Cardinality(Holders(o)) \in Nat
                BY <3>1, OneHolder DEF Holders
            <4>2. Holders(o) \ {a} # {} <=> Cardinality(Holders(o) \ {a}) # 0
                BY OneHolder DEF Holders
            <4> QED BY <3>1, <4>1, <4>2
        <3>3. objects[o].valid /\ objects[o].refcount > 0 /\ objects[o] \in CapObject
            BY <1>0, <1>1, <2>2, <3>1, <3>2
        <3>4. objects'[o] = [objects[o] EXCEPT !.refcount = @ - 1,
                                               !.valid = objects[o].refcount # 1]
            <4>1. Released(objects[o]) = [objects[o] EXCEPT !.refcount = @ - 1,
                                                  !.valid = objects[o].refcount # 1]
                BY <3>3, Zenon DEF Released
            <4>2. objects'[o] = Released(objects[o])
                BY <1>0, <2>1, <2>2, <2>3 DEF ObjectIdx
            <4> QED BY <4>1, <4>2, Zenon
        <3>5. objects'[o].refcount = objects[o].refcount - 1
            BY <3>3, <3>4 DEF CapObject
        <3>6. objects'[o].valid <=> objects[o].refcount # 1
            BY <3>3, <3>4 DEF CapObject
        <3>7. objects[o].refcount = Cardinality(Holders(o))
            BY <1>1, <2>2
        <3>8. objects'[o].refcount = Cardinality(Holders(o)')
            BY <3>2, <3>5, <3>7
        <3>9. Holders(o)' # {} => objects'[o].valid
            BY <3>2, <3>6, <3>7, Zenon
        <3> QED BY <3>8, <3>9
    <2>4. CASE o # b
        <3>1. Holders(o)' = Holders(o)
            BY <1>0, <2>1, <2>2, <2>4 DEF Holders, NoObject, ObjectIdx
        <3>2. objects'[o] = objects[o]
            BY <1>0, <2>1, <2>2, <2>4 DEF ObjectIdx
        <3> QED BY <1>1, <2>2, <3>1, <3>2
    <2> QED BY <2>3, <2>4
<1>7. ASSUME NEW s \in SlotIdx, CapStep(HandleOf(s)) PROVE Kept
    <2>1. HandleOf(s) \in Handles
        BY HandleOfFacts
    <2> QED BY <1>3, <1>5, <1>7, <2>1 DEF CapStep, Grant, Lend, Derive, Transfer, Close,
            Revoke, DestroyOwnedRevoke
<1>8. ASSUME NEW h, DestroyOwnedClose(h) PROVE Kept
    BY <1>3, <1>8 DEF DestroyOwnedClose
<1>9. CASE UNCHANGED capVars
    BY <1>3, <1>9 DEF capVars
<1> QED BY <1>4, <1>6, <1>7, <1>8, <1>9 DEF CapNext

(* The tables say what they stand for, for every table size and any number  *)
(* of guards: is_revoked finds a bumped epoch exactly when one lies on the  *)
(* lineage, and an object lives exactly as long as its refcount, which is   *)
(* the number of CapAccess guards, says.                                    *)
THEOREM TablesSayTheTruth == CapSpec => []TablesAgree
<1>1. CapInit => AccessKeepsObject
    <2> SUFFICES ASSUME CapInit PROVE AccessKeepsObject
        OBVIOUS
    <2>1. Len(objects) = 0
        BY DEF CapInit
    <2> QED BY <2>1 DEF AccessKeepsObject, ObjectIdx
<1>2. CapTypeOK /\ AccessKeepsObject /\ [CapNext]_capVars => AccessKeepsObject'
    BY AccessNext
<1>3. CapTypeOK /\ AccessKeepsObject => TablesAgree
    BY WalkIsLineage DEF TablesAgree
<1> QED BY <1>1, <1>2, <1>3, TypeCorrect, PTL DEF CapSpec

-----------------------------------------------------------------------------
(* Refinement of CapAuthority *)

AllCaps == {CapIn(s) : s \in Held}
DeadCaps == {CapIn(s) : s \in {t \in Held : IsRevoked(slots[t].node)}}

SameEpochs == \A n \in NodeIdx : nodes'[n].epoch = nodes[n].epoch

(* The capabilities and the dead ones among them, slot by slot.             *)
LEMMA CapsFacts ==
    ASSUME CapInv
    PROVE  /\ \A s \in Held : /\ s \in SlotIdx /\ ~slots[s].free
                              /\ slots[s].node \in NodeIdx
                              /\ slots[s].object \in ObjectIdx
                              /\ CapIn(s).line \subseteq NodeIdx
           /\ \A s, t \in Held : CapIn(s) = CapIn(t) => s = t
<1>1. CapTypeOK /\ NodesDistinct
    BY DEF CapInv
<1>2. ASSUME NEW s \in Held
      PROVE  /\ s \in SlotIdx /\ ~slots[s].free
             /\ slots[s].node \in NodeIdx
             /\ slots[s].object \in ObjectIdx
             /\ CapIn(s).line \subseteq NodeIdx
    <2>1. s \in SlotIdx /\ ~slots[s].free
        BY DEF Held
    <2>2. slots[s].node \in NodeIdx /\ slots[s].object \in ObjectIdx
        BY <1>1, <2>1 DEF CapTypeOK
    <2>3. slots[s].node \in Nat /\ slots[s].node <= Len(nodes) /\ Len(nodes) \in Nat
        BY <1>1, <2>2, NodeFacts DEF CapTypeOK
    <2>4. Lineage(nodes, slots[s].node) \subseteq 1 .. slots[s].node
        BY <2>3, LineageBound
    <2>5. CapIn(s).line = Lineage(nodes, slots[s].node)
        BY DEF CapIn
    <2>6. 1 .. slots[s].node \subseteq NodeIdx
        BY <2>3 DEF NodeIdx
    <2>7. CapIn(s).line \subseteq NodeIdx
        BY <2>4, <2>5, <2>6, Zenon
    <2> QED BY <2>1, <2>2, <2>7
<1>3. ASSUME NEW s \in Held, NEW t \in Held, CapIn(s) = CapIn(t)
      PROVE  s = t
    <2>1. slots[s].node = slots[t].node
        BY <1>3 DEF CapIn
    <2> QED BY <1>1, <2>1 DEF NodesDistinct, Held
<1> QED BY <1>2, <1>3

(* Appending nodes and bumping epochs leave every lineage as it was.        *)
LEMMA SameLineage ==
    ASSUME CapTypeOK, LineageStep, NEW n \in NodeIdx
    PROVE  Lineage(nodes', n) = Lineage(nodes, n)
<1>1. n \in Nat /\ n <= Len(nodes) /\ Len(nodes) \in Nat
    BY NodeFacts DEF CapTypeOK
<1>2. \A k \in 1 .. n : nodes'[k].parent = nodes[k].parent
    BY <1>1 DEF LineageStep, NodeIdx
<1>3. Lineage(nodes', n) \subseteq Lineage(nodes, n)
    BY <1>1, <1>2, LineageKept
<1>4. Lineage(nodes, n) \subseteq Lineage(nodes', n)
    BY <1>1, <1>2, LineageKept
<1> QED BY <1>3, <1>4

(* A capability that stays in its slot stays the same capability, and alive *)
(* or dead unless an epoch moves.                                           *)
LEMMA CapStays ==
    ASSUME CapInv, LineageStep, NEW s \in Held, slots'[s] = slots[s]
    PROVE  /\ s \in Held'
           /\ CapIn(s)' = CapIn(s)
           /\ SameEpochs => (IsRevoked(slots[s].node)' <=> IsRevoked(slots[s].node))
<1>1. /\ CapTypeOK /\ s \in SlotIdx /\ ~slots[s].free /\ slots[s].node \in NodeIdx
      /\ CapIn(s).line \subseteq NodeIdx
    BY CapsFacts DEF CapInv
<1>2. Lineage(nodes', slots[s].node) = Lineage(nodes, slots[s].node)
    BY <1>1, SameLineage
<1>3. CapIn(s)' = CapIn(s)
    BY <1>2 DEF CapIn
<1>4. Lineage(nodes, slots[s].node) \subseteq NodeIdx
    BY <1>1 DEF CapIn
<1>5. SameEpochs => (IsRevoked(slots[s].node)' <=> IsRevoked(slots[s].node))
    BY <1>2, <1>4 DEF IsRevoked, SameEpochs
<1> QED BY <1>1, <1>3, <1>5 DEF Held

(* A step that fills no slot and frees those in G drops their capabilities. *)
LEMMA CapsDropped ==
    ASSUME CapInv, LineageStep, SameEpochs, NEW G \in SUBSET Held,
           \A s \in G : slots'[s].free,
           \A s \in SlotIdx \ G : slots'[s] = slots[s]
    PROVE  /\ AllCaps' = AllCaps \ {CapIn(s) : s \in G}
           /\ DeadCaps' = DeadCaps \ {CapIn(s) : s \in G}
<1>1. Held' = Held \ G
    BY DEF Held
<1>2. ASSUME NEW s \in Held \ G
      PROVE  /\ CapIn(s)' = CapIn(s)
             /\ IsRevoked(slots[s].node)' <=> IsRevoked(slots[s].node)
    <2>1. slots'[s] = slots[s]
        BY DEF Held
    <2> QED BY <2>1, CapStays
<1>3. \A s \in Held, t \in G : CapIn(s) = CapIn(t) => s = t
    BY CapsFacts
<1>4. AllCaps' = {CapIn(s) : s \in Held \ G}
    BY <1>1, <1>2 DEF AllCaps
<1>5. DeadCaps' = {CapIn(s) : s \in {t \in Held \ G : IsRevoked(slots[t].node)}}
    BY <1>1, <1>2 DEF DeadCaps
<1> QED BY <1>3, <1>4, <1>5 DEF AllCaps, DeadCaps

(* A step that also fills the slot f adds its capability, which is alive.   *)
LEMMA CapsGained ==
    ASSUME CapInv, LineageStep, SameEpochs, NEW G \in SUBSET Held,
           NEW f \in SlotIdx, f \notin Held, ~slots'[f].free,
           ~IsRevoked(slots[f].node)',
           \A s \in G : slots'[s].free,
           \A s \in SlotIdx \ G : s # f => slots'[s] = slots[s]
    PROVE  /\ AllCaps' = (AllCaps \ {CapIn(s) : s \in G}) \cup {CapIn(f)'}
           /\ DeadCaps' = DeadCaps \ {CapIn(s) : s \in G}
<1>1. Held' = (Held \ G) \cup {f}
    BY DEF Held
<1>2. ASSUME NEW s \in Held \ G
      PROVE  /\ CapIn(s)' = CapIn(s)
             /\ IsRevoked(slots[s].node)' <=> IsRevoked(slots[s].node)
    <2>1. slots'[s] = slots[s]
        BY DEF Held
    <2> QED BY <2>1, CapStays
<1>3. \A s \in Held, t \in G : CapIn(s) = CapIn(t) => s = t
    BY CapsFacts
<1>4. AllCaps' = {CapIn(s) : s \in Held \ G} \cup {CapIn(f)'}
    BY <1>1, <1>2 DEF AllCaps
<1>5. DeadCaps' = {CapIn(s) : s \in {t \in Held \ G : IsRevoked(slots[t].node)}}
    BY <1>1, <1>2 DEF DeadCaps
<1>6. {CapIn(s) : s \in Held \ G} = AllCaps \ {CapIn(s) : s \in G}
    BY <1>3 DEF AllCaps
<1>7. {CapIn(s) : s \in {t \in Held \ G : IsRevoked(slots[t].node)}}
        = DeadCaps \ {CapIn(s) : s \in G}
    BY <1>3 DEF DeadCaps
<1> QED BY <1>4, <1>5, <1>6, <1>7

(* A step on the lineage alone that bumps no epoch is invisible.            *)
LEMMA CapsQuiet ==
    ASSUME CapInv, LineageStep, SameEpochs, slots' = slots
    PROVE  UNCHANGED <<AllCaps, DeadCaps>>
<1>1. /\ AllCaps' = AllCaps \ {CapIn(s) : s \in {}}
      /\ DeadCaps' = DeadCaps \ {CapIn(s) : s \in {}}
    BY CapsDropped
<1> QED BY <1>1

(* An appended node leaves the epochs of the older ones.                    *)
LEMMA AppendKeepsEpochs ==
    ASSUME CapTypeOK, NEW x, nodes' = Append(nodes, x)
    PROVE  SameEpochs
<1>1. nodes \in Seq(CapNode)
    BY DEF CapTypeOK
<1> QED BY <1>1 DEF SameEpochs, NodeIdx

(* The capability an operation installs in a free slot is a new one: its    *)
(* lineage is its own node and the lineage of its parent, and it is alive.  *)
LEMMA NewCapability ==
    ASSUME CapInv, CapInv', LineageStep, Len(nodes) < MaxCapNodes, NEW f \in FreeSlots,
           NEW p \in 0 .. Len(nodes), p # NoNode => ~IsRevoked(p),
           Len(nodes') = Len(nodes) + 1, SameEpochs,
           nodes'[Len(nodes) + 1].parent = p, nodes'[Len(nodes) + 1].epoch = 0,
           NEW object, NEW rights, NEW lent, ~slots'[f].free,
           slots'[f].node = Len(nodes) + 1, slots'[f].object = object,
           slots'[f].rights = rights, slots'[f].lent = lent
    PROVE  /\ f \in SlotIdx \ Held
           /\ ~IsRevoked(slots[f].node)'
           /\ CapIn(f)' =
                 Authority!New(Len(nodes) + 1, object, rights, lent,
                               IF p = NoNode THEN {} ELSE Lineage(nodes, p))
<1> DEFINE L == IF p = NoNode THEN {} ELSE Lineage(nodes, p)
<1>0. CapTypeOK /\ CapTypeOK' /\ Len(nodes) \in Nat
    <2>1. CapTypeOK /\ CapTypeOK'
        BY DEF CapInv
    <2> QED BY <2>1 DEF CapTypeOK
<1>m. PICK m \in Nat \ {0} : m = Len(nodes) + 1
    BY <1>0
<1>1. f \in SlotIdx /\ f \notin Held
    BY DEF FreeSlots, Held
<1>2. slots'[f].node = m
    BY <1>m
<1>3. /\ Len(nodes) \in Nat /\ Len(nodes') = m
      /\ \A n \in NodeIdx : nodes'[n].epoch = nodes[n].epoch
    BY <1>0, <1>m DEF SameEpochs
<1>4. \A k \in 1 .. m : nodes'[k].parent \in Nat /\ nodes'[k].parent < k
    <2>1. nodes' \in Seq(CapNode) /\ \A k \in 1 .. m : nodes'[k].parent < k
        BY <1>0, <1>3 DEF CapTypeOK, NodeIdx
    <2>2. \A k \in 1 .. m : nodes'[k] \in CapNode
        BY <1>3, <2>1
    <2> QED BY <2>1, <2>2 DEF CapNode
<1>5. nodes'[m].parent = p /\ nodes'[m].epoch = 0
    BY <1>m
<1>6. Lineage(nodes', m) = L \cup {m}
    <2>1. m \in Lineage(nodes', m)
        BY <1>3, LineageSelf
    <2>2. CASE p = NoNode
        <3>1. Lineage(nodes', m) \subseteq {m}
            BY <1>3, <1>5, <2>2, LineageOfRoot
        <3> QED BY <2>1, <2>2, <3>1
    <2>3. CASE p # NoNode
        <3>1. p \in 1 .. m - 1 /\ p \in NodeIdx
            BY <1>3, <1>m, <2>3 DEF NoNode, NodeIdx
        <3>2. Lineage(nodes', m) \subseteq {m} \cup Lineage(nodes', p)
            BY <1>3, <1>4, <1>5, <3>1, LineageOfChild
        <3>3. p \in Lineage(nodes', m)
            <4>1. ParentClosed(nodes', Lineage(nodes', m))
                BY <1>3, <1>4, LineageClosed
            <4> QED BY <1>5, <2>1, <2>3, <4>1 DEF ParentClosed
        <3>4. Lineage(nodes', p) \subseteq Lineage(nodes', m)
            BY <1>3, <1>4, <3>3, LineageTransitive
        <3>5. Lineage(nodes', p) = Lineage(nodes, p)
            BY <1>0, <3>1, SameLineage
        <3> QED BY <2>1, <2>3, <3>2, <3>4, <3>5
    <2> QED BY <2>2, <2>3
<1>7. ~IsRevoked(slots[f].node)'
    <2> SUFFICES ASSUME NEW a \in Lineage(nodes', m), nodes'[a].epoch > 0
                 PROVE  FALSE
        BY <1>2 DEF IsRevoked
    <2>1. a # m
        BY <1>5
    <2>2. p # NoNode /\ a \in Lineage(nodes, p)
        BY <1>6, <2>1
    <2>3. p \in Nat /\ p <= Len(nodes)
        BY <1>3
    <2>4. a \in NodeIdx
        BY <1>3, <2>2, <2>3, LineageBound DEF NodeIdx
    <2> QED BY <1>3, <2>2, <2>4 DEF IsRevoked
<1>8. CapIn(f)' = [id |-> m, object |-> object, rights |-> rights, lent |-> lent,
                   line |-> L \cup {m}]
    BY <1>2, <1>6 DEF CapIn
<1> QED BY <1>m, <1>1, <1>7, <1>8 DEF Authority!New

(* The abstract actions, on the capabilities in the slots.                  *)
LEMMA IsCreate ==
    ASSUME NEW id \in 1 .. MaxCapNodes, NEW o \in 1 .. MaxCapObjects,
           \A c \in AllCaps : id \notin c.line /\ c.object # o,
           AllCaps' = AllCaps \cup {Authority!New(id, o, AllRights, FALSE, {})},
           DeadCaps' = DeadCaps
    PROVE  Authority!Next
<1>1. Authority!Create(id, o)
    BY DEF Authority!Create, Authority!Fresh, AllCaps, DeadCaps
<1> QED BY <1>1 DEF Authority!Next

LEMMA IsDerive ==
    ASSUME NEW p \in AllCaps, NEW id \in 1 .. MaxCapNodes, NEW lent \in BOOLEAN,
           NEW rights \in SUBSET AllRights, \A c \in AllCaps : id \notin c.line,
           p \notin DeadCaps, ~p.lent, rights \subseteq p.rights,
           AllCaps' = AllCaps \cup {Authority!New(id, p.object, rights, lent, p.line)},
           DeadCaps' = DeadCaps
    PROVE  Authority!Next
<1>1. Authority!Derive(p, id, rights, lent)
    BY DEF Authority!Derive, Authority!Fresh, AllCaps, DeadCaps
<1>2. p \in {CapIn(s) : s \in Held}
    BY DEF AllCaps
<1> QED BY <1>1, <1>2 DEF Authority!Next

LEMMA IsTransfer ==
    ASSUME NEW p \in AllCaps, NEW id \in 1 .. MaxCapNodes,
           NEW rights \in SUBSET AllRights, \A c \in AllCaps : id \notin c.line,
           p \notin DeadCaps, ~p.lent, rights \subseteq p.rights,
           AllCaps' = (AllCaps \ {p}) \cup {Authority!New(id, p.object, rights, FALSE, {})},
           DeadCaps' = DeadCaps
    PROVE  Authority!Next
<1>1. Authority!Transfer(p, id, rights)
    BY DEF Authority!Transfer, Authority!Fresh, AllCaps, DeadCaps
<1>2. p \in {CapIn(s) : s \in Held}
    BY DEF AllCaps
<1> QED BY <1>1, <1>2 DEF Authority!Next

LEMMA IsDrop ==
    ASSUME NEW c \in AllCaps, AllCaps' = AllCaps \ {c}, DeadCaps' = DeadCaps \ {c}
    PROVE  Authority!Next
<1>1. Authority!Drop(c)
    BY DEF Authority!Drop, AllCaps, DeadCaps
<1>2. c \in {CapIn(s) : s \in Held}
    BY DEF AllCaps
<1> QED BY <1>1, <1>2 DEF Authority!Next

LEMMA IsRevoke ==
    ASSUME NEW c \in AllCaps, AllCaps' = AllCaps,
           DeadCaps' = DeadCaps \cup {d \in AllCaps : c.id \in d.line}
    PROVE  Authority!Next
<1>1. Authority!Revoke(c)
    BY DEF Authority!Revoke, AllCaps, DeadCaps
<1>2. c \in {CapIn(s) : s \in Held}
    BY DEF AllCaps
<1> QED BY <1>1, <1>2 DEF Authority!Next

Simulates == Authority!Next \/ UNCHANGED <<AllCaps, DeadCaps>>

(* A live handle names a capability; it is dead exactly when is_revoked     *)
(* refuses it.                                                              *)
LEMMA LiveCap ==
    ASSUME CapInv, NEW h \in Handles, Live(h)
    PROVE  /\ h.slot \in Held /\ CapIn(h.slot) \in AllCaps
           /\ CapIn(h.slot) \in DeadCaps <=> IsRevoked(slots[h.slot].node)
           /\ CapIn(h.slot).id = slots[h.slot].node
           /\ CapIn(h.slot).object = slots[h.slot].object
           /\ CapIn(h.slot).rights = slots[h.slot].rights
           /\ CapIn(h.slot).lent = slots[h.slot].lent
           /\ CapIn(h.slot).line = Lineage(nodes, slots[h.slot].node)
<1>1. h.slot \in Held
    BY DEF Live, Handles, Held
<1>2. \A s, t \in Held : CapIn(s) = CapIn(t) => s = t
    BY CapsFacts
<1>3. CapIn(h.slot) \in AllCaps
    BY <1>1 DEF AllCaps
<1>4. CapIn(h.slot) \in DeadCaps <=> IsRevoked(slots[h.slot].node)
    BY <1>1, <1>2 DEF DeadCaps
<1> QED BY <1>1, <1>3, <1>4 DEF CapIn

(* close, and the second half of destroy_owned.                             *)
LEMMA CloseSimulates ==
    ASSUME CapInv, NEW h \in Handles, Live(h), slots' = Freed(slots, h.slot), nodes' = nodes
    PROVE  Simulates
<1>1. CapTypeOK /\ slots \in [SlotIdx -> CapSlot]
    BY DEF CapInv, CapTypeOK
<1>2. LineageStep /\ SameEpochs
    BY <1>1, SameLineageStep DEF SameEpochs
<1>3. h.slot \in Held /\ h.slot \in SlotIdx /\ CapIn(h.slot) \in AllCaps
    BY LiveCap DEF Held
<1>4. slots'[h.slot].free /\ \A s \in SlotIdx \ {h.slot} : slots'[s] = slots[s]
    BY <1>1, <1>3, FreedFacts
<1>5. /\ AllCaps' = AllCaps \ {CapIn(s) : s \in {h.slot}}
      /\ DeadCaps' = DeadCaps \ {CapIn(s) : s \in {h.slot}}
    BY <1>2, <1>3, <1>4, CapsDropped
<1>6. {CapIn(s) : s \in {h.slot}} = {CapIn(h.slot)}
    OBVIOUS
<1> QED BY <1>3, <1>5, <1>6, IsDrop DEF Simulates

(* revoke leaves the node with an epoch above zero, although it saturates,  *)
(* and every other epoch as it was.                                         *)
LEMMA BumpedEpoch ==
    ASSUME CapTypeOK, NEW n \in NodeIdx, nodes' = BumpEpoch(n)
    PROVE  /\ nodes'[n].epoch > 0
           /\ \A k \in NodeIdx : k # n => nodes'[k].epoch = nodes[k].epoch
<1>1. nodes \in Seq(CapNode) /\ nodes[n] \in CapNode /\ nodes[n].epoch \in Nat
    BY NodeFacts DEF CapTypeOK
<1>2. nodes' = [nodes EXCEPT ![n] = [nodes[n] EXCEPT !.epoch =
                   IF nodes[n].epoch < MaxEpoch THEN nodes[n].epoch + 1 ELSE nodes[n].epoch]]
    BY <1>1 DEF BumpEpoch
<1>3. nodes'[n].epoch = IF nodes[n].epoch < MaxEpoch THEN nodes[n].epoch + 1
                        ELSE nodes[n].epoch
    BY <1>1, <1>2 DEF NodeIdx, CapNode
<1>4. nodes'[n].epoch > 0
    BY <1>1, <1>3, CapAssumption
<1>5. \A k \in NodeIdx : k # n => nodes'[k] = nodes[k]
    BY <1>1, <1>2 DEF NodeIdx
<1> QED BY <1>4, <1>5

(* revoke, and the first half of destroy_owned: the epoch of one node       *)
(* refuses exactly the capabilities that have the node on their lineage.    *)
LEMMA RevokeSimulates ==
    ASSUME CapInv, NEW h \in Handles, Live(h), slots' = slots,
           nodes' = BumpEpoch(slots[h.slot].node)
    PROVE  Simulates
<1>0. PICK n \in NodeIdx : n = slots[h.slot].node
    BY LiveFacts DEF CapInv
<1>1. CapTypeOK /\ nodes' = BumpEpoch(n) /\ LineageStep
    BY <1>0, EpochLineageStep DEF CapInv
<1>2. /\ nodes'[n].epoch > 0
      /\ \A k \in NodeIdx : k # n => nodes'[k].epoch = nodes[k].epoch
    BY <1>1, BumpedEpoch
<1>3. ASSUME NEW s \in Held
      PROVE  /\ CapIn(s)' = CapIn(s)
             /\ IsRevoked(slots[s].node)' <=>
                   IsRevoked(slots[s].node) \/ n \in CapIn(s).line
    <2>1. /\ CapIn(s)' = CapIn(s) /\ CapIn(s).line \subseteq NodeIdx
          /\ slots[s].node \in NodeIdx
        BY <1>1, CapStays, CapsFacts
    <2>2. CapIn(s).line = Lineage(nodes, slots[s].node)
          /\ Lineage(nodes', slots[s].node) = Lineage(nodes, slots[s].node)
        BY <1>1, <2>1, SameLineage DEF CapIn
    <2>3. IsRevoked(slots[s].node)' <=> \E a \in CapIn(s).line : nodes'[a].epoch > 0
        BY <2>2 DEF IsRevoked
    <2>4. IsRevoked(slots[s].node) <=> \E a \in CapIn(s).line : nodes[a].epoch > 0
        BY <2>2 DEF IsRevoked
    <2> QED BY <1>2, <2>1, <2>3, <2>4
<1>4. Held' = Held
    BY DEF Held
<1>5. AllCaps' = AllCaps
    BY <1>3, <1>4 DEF AllCaps
<1>6. DeadCaps' = {CapIn(s) : s \in {t \in Held : IsRevoked(slots[t].node) \/ n \in CapIn(t).line}}
    BY <1>3, <1>4 DEF DeadCaps
<1>7. DeadCaps' = DeadCaps \cup {d \in AllCaps : n \in d.line}
    BY <1>6 DEF AllCaps, DeadCaps
<1>8. CapIn(h.slot) \in AllCaps /\ CapIn(h.slot).id = n
    BY <1>0, LiveCap
<1> QED BY <1>5, <1>7, <1>8, IsRevoke DEF Simulates

(* No capability has the node that is about to be appended on its lineage,  *)
(* nor the object that is about to be created.                              *)
LEMMA FreshIds ==
    ASSUME CapInv, NEW c \in AllCaps
    PROVE  Len(nodes) + 1 \notin c.line /\ c.object # Len(objects) + 1
<1>1. PICK s \in Held : c = CapIn(s)
    BY DEF AllCaps
<1>2. c.line \subseteq 1 .. Len(nodes) /\ c.object \in 1 .. Len(objects)
    BY <1>1, CapsFacts DEF CapIn, NodeIdx, ObjectIdx
<1>3. Len(nodes) \in Nat /\ Len(objects) \in Nat
    BY DEF CapInv, CapTypeOK
<1> QED BY <1>2, <1>3

(* The fields of a new node.                                                *)
LEMMA NodeFields ==
    ASSUME NEW p, NEW x, x = [parent |-> p, epoch |-> 0]
    PROVE  x.parent = p /\ x.epoch = 0
OBVIOUS

(* What create_object, grant, lend and transfer do to the tables, with a    *)
(* slot to spare: a new node, which is not revoked itself,                  *)
LEMMA NodeAppended ==
    ASSUME CapTypeOK, Len(nodes) < MaxCapNodes, NEW p \in 0 .. Len(nodes),
           nodes' = Append(nodes, [parent |-> p, epoch |-> 0])
    PROVE  /\ Len(nodes') = Len(nodes) + 1 /\ SameEpochs
           /\ nodes'[Len(nodes) + 1].parent = p /\ nodes'[Len(nodes) + 1].epoch = 0
<1>1. /\ Len(nodes') = Len(nodes) + 1
      /\ nodes'[Len(nodes) + 1] = [parent |-> p, epoch |-> 0]
    BY AppendNode
<1>2. SameEpochs
    BY AppendKeepsEpochs
<1>3. nodes'[Len(nodes) + 1].parent = p /\ nodes'[Len(nodes) + 1].epoch = 0
    BY <1>1, NodeFields, Zenon
<1> QED BY <1>1, <1>2, <1>3

(* and a capability on that node in a slot that was free.                   *)
LEMMA Installed ==
    ASSUME CapTypeOK, FreeSlots # {}, NEW object \in Nat, NEW rights \in SUBSET AllRights,
           NEW lent \in BOOLEAN, NEW table,
           table = Install(NewCap(Len(nodes) + 1, object, rights, lent))
    PROVE  /\ table \in [SlotIdx -> CapSlot]
           /\ \E f \in FreeSlots :
                 /\ ~table[f].free
                 /\ table[f].node = Len(nodes) + 1 /\ table[f].object = object
                 /\ table[f].rights = rights /\ table[f].lent = lent
                 /\ \A s \in SlotIdx : s # f => table[s] = slots[s]
<1>3. slots \in [SlotIdx -> CapSlot] /\ Len(nodes) + 1 \in Nat
    BY DEF CapTypeOK
<1> DEFINE c == NewCap(Len(nodes) + 1, object, rights, lent)
<1>4. /\ c \in CapSlot /\ c.node = Len(nodes) + 1 /\ c.object = object
      /\ c.rights = rights /\ c.lent = lent /\ c.free = FALSE
    <2>1. c \in CapSlot
        BY <1>3, NewCapType
    <2> QED BY <2>1 DEF NewCap
<1> HIDE DEF c
<1>5. PICK f \in FreeSlots : f = AllocateSlot
    BY AllocateSlotIsFree
<1>6. f \in SlotIdx
    BY DEF FreeSlots
<1>7. table = [slots EXCEPT ![f] = [c EXCEPT !.gen = slots[f].gen]]
    BY <1>5 DEF Install, c
<1>8. [c EXCEPT !.gen = slots[f].gen] \in CapSlot
    BY <1>3, <1>4, <1>6 DEF CapSlot
<1>9. table \in [SlotIdx -> CapSlot]
    BY <1>3, <1>6, <1>7, <1>8
<1>10. table[f] = [c EXCEPT !.gen = slots[f].gen] /\ \A s \in SlotIdx : s # f => table[s] = slots[s]
    BY <1>3, <1>6, <1>7
<1>11. /\ ~table[f].free /\ table[f].node = Len(nodes) + 1 /\ table[f].object = object
       /\ table[f].rights = rights /\ table[f].lent = lent
    BY <1>4, <1>10 DEF CapSlot
<1> QED BY <1>9, <1>10, <1>11

(* An installed capability, as the abstract specification sees it.          *)
LEMMA InstallSimulates ==
    ASSUME CapInv, CapInv', LineageStep, FreeSlots # {}, Len(nodes) < MaxCapNodes,
           NEW p \in 0 .. Len(nodes), p # NoNode => ~IsRevoked(p),
           nodes' = Append(nodes, [parent |-> p, epoch |-> 0]),
           NEW object \in Nat, NEW rights \in SUBSET AllRights, NEW lent \in BOOLEAN,
           slots' = Install(NewCap(Len(nodes) + 1, object, rights, lent))
    PROVE  /\ AllCaps' = AllCaps \cup
                 {Authority!New(Len(nodes) + 1, object, rights, lent,
                                IF p = NoNode THEN {} ELSE Lineage(nodes, p))}
           /\ DeadCaps' = DeadCaps
<1>0. CapTypeOK
    BY DEF CapInv
<1>2. /\ Len(nodes') = Len(nodes) + 1 /\ SameEpochs
      /\ nodes'[Len(nodes) + 1].parent = p /\ nodes'[Len(nodes) + 1].epoch = 0
    BY <1>0, NodeAppended
<1>3. PICK f \in FreeSlots :
            /\ ~slots'[f].free
            /\ slots'[f].node = Len(nodes) + 1 /\ slots'[f].object = object
            /\ slots'[f].rights = rights /\ slots'[f].lent = lent
            /\ \A s \in SlotIdx : s # f => slots'[s] = slots[s]
    BY <1>0, Installed
<1>4. /\ f \in SlotIdx \ Held /\ ~IsRevoked(slots[f].node)'
      /\ CapIn(f)' = Authority!New(Len(nodes) + 1, object, rights, lent,
                                   IF p = NoNode THEN {} ELSE Lineage(nodes, p))
    BY <1>2, <1>3, NewCapability
<1>5. /\ AllCaps' = (AllCaps \ {CapIn(s) : s \in {}}) \cup {CapIn(f)'}
      /\ DeadCaps' = DeadCaps \ {CapIn(s) : s \in {}}
    BY <1>2, <1>3, <1>4, CapsGained
<1> QED BY <1>4, <1>5

(* create_object: a capability with every right on an object of its own, or *)
(* nothing to see when the slot table is full.                              *)
LEMMA CreateSimulates ==
    ASSUME CapInv, CapInv', LineageStep, NEW kind \in Kinds, CreateObject(kind)
    PROVE  Simulates
<1>0. CapTypeOK /\ Len(nodes) \in Nat /\ Len(objects) \in Nat
    <2>1. CapTypeOK
        BY DEF CapInv
    <2> QED BY <2>1 DEF CapTypeOK
<1>1. /\ Len(objects) < MaxCapObjects /\ Len(nodes) < MaxCapNodes
      /\ nodes' = Append(nodes, [parent |-> NoNode, epoch |-> 0])
      /\ slots' = Install(NewCap(Len(nodes) + 1, Len(objects) + 1, AllRights, FALSE))
    BY DEF CreateObject
<1>2. CASE FreeSlots = {}
    <2>1. slots' = slots
        BY <1>1, <1>2 DEF Install
    <2>2. SameEpochs
        BY <1>0, <1>1, AppendKeepsEpochs
    <2> QED BY <2>1, <2>2, CapsQuiet DEF Simulates
<1>3. CASE FreeSlots # {}
    <2>1. NoNode \in 0 .. Len(nodes) /\ Len(objects) + 1 \in Nat /\ AllRights \in SUBSET AllRights
        BY <1>0 DEF NoNode
    <2>2. /\ AllCaps' = AllCaps \cup
                 {Authority!New(Len(nodes) + 1, Len(objects) + 1, AllRights, FALSE,
                                IF NoNode = NoNode THEN {} ELSE Lineage(nodes, NoNode))}
          /\ DeadCaps' = DeadCaps
        BY <1>1, <1>3, <2>1, InstallSimulates
    <2>3. AllCaps' = AllCaps \cup {Authority!New(Len(nodes) + 1, Len(objects) + 1,
                                                 AllRights, FALSE, {})}
        BY <2>2, Zenon
    <2>4. Len(nodes) + 1 \in 1 .. MaxCapNodes /\ Len(objects) + 1 \in 1 .. MaxCapObjects
        BY <1>0, <1>1, CapAssumption
    <2> QED BY <2>2, <2>3, <2>4, FreshIds, IsCreate DEF Simulates
<1> QED BY <1>2, <1>3

(* grant and lend: a weaker capability under a live one.                    *)
LEMMA DeriveSimulates ==
    ASSUME CapInv, CapInv', LineageStep, NEW h \in Handles, NEW req \in SUBSET AllRights,
           NEW lent \in BOOLEAN, Derive(h, req, lent)
    PROVE  Simulates
<1>0. CapTypeOK /\ Len(nodes) \in Nat /\ Len(objects) \in Nat
    <2>1. CapTypeOK
        BY DEF CapInv
    <2> QED BY <2>1 DEF CapTypeOK
<1>1. /\ Live(h) /\ ~slots[h.slot].lent /\ ~IsRevoked(slots[h.slot].node)
      /\ Len(nodes) < MaxCapNodes
      /\ nodes' = Append(nodes, [parent |-> slots[h.slot].node, epoch |-> 0])
      /\ slots' = Install(NewCap(Len(nodes) + 1, slots[h.slot].object,
                                 slots[h.slot].rights \cap req, lent))
    BY DEF Derive, MayDerive
<1>2. CASE FreeSlots = {}
    <2>1. slots' = slots
        BY <1>1, <1>2 DEF Install
    <2>2. SameEpochs
        BY <1>0, <1>1, AppendKeepsEpochs
    <2> QED BY <2>1, <2>2, CapsQuiet DEF Simulates
<1>3. CASE FreeSlots # {}
    <2>1. slots[h.slot].node \in NodeIdx /\ slots[h.slot].object \in ObjectIdx
        BY <1>0, <1>1, LiveFacts
    <2>2. /\ slots[h.slot].node \in 0 .. Len(nodes) /\ slots[h.slot].node # NoNode
          /\ slots[h.slot].object \in Nat /\ slots[h.slot].rights \cap req \in SUBSET AllRights
        BY <1>0, <2>1 DEF NodeIdx, ObjectIdx, NoNode
    <2>3. /\ AllCaps' = AllCaps \cup
                 {Authority!New(Len(nodes) + 1, slots[h.slot].object,
                                slots[h.slot].rights \cap req, lent,
                                IF slots[h.slot].node = NoNode THEN {}
                                ELSE Lineage(nodes, slots[h.slot].node))}
          /\ DeadCaps' = DeadCaps
        BY <1>1, <1>3, <2>2, InstallSimulates
    <2> DEFINE p == CapIn(h.slot)
    <2>4. /\ p \in AllCaps /\ p \notin DeadCaps /\ ~p.lent
          /\ p.object = slots[h.slot].object /\ p.rights = slots[h.slot].rights
          /\ p.line = Lineage(nodes, slots[h.slot].node)
        BY <1>1, LiveCap
    <2> HIDE DEF p
    <2>5. AllCaps' = AllCaps \cup {Authority!New(Len(nodes) + 1, p.object,
                                                 slots[h.slot].rights \cap req, lent, p.line)}
        BY <2>2, <2>3, <2>4, Zenon
    <2>6. Len(nodes) + 1 \in 1 .. MaxCapNodes /\ slots[h.slot].rights \cap req \subseteq p.rights
        BY <1>0, <1>1, <2>4, CapAssumption
    <2>7. \A c \in AllCaps : Len(nodes) + 1 \notin c.line
        BY FreshIds
    <2> QED BY <2>2, <2>3, <2>4, <2>5, <2>6, <2>7, IsDerive DEF Simulates
<1> QED BY <1>2, <1>3

(* A capability installed before another one is freed, as the abstract      *)
(* specification sees it.                                                   *)
LEMMA MoveSimulates ==
    ASSUME CapInv, CapInv', LineageStep, FreeSlots # {}, Len(nodes) < MaxCapNodes,
           nodes' = Append(nodes, [parent |-> NoNode, epoch |-> 0]),
           NEW object \in Nat, NEW rights \in SUBSET AllRights, NEW lent \in BOOLEAN,
           NEW g \in Held, NEW table, slots' = Freed(table, g),
           table = Install(NewCap(Len(nodes) + 1, object, rights, lent))
    PROVE  /\ AllCaps' = (AllCaps \ {CapIn(g)}) \cup
                 {Authority!New(Len(nodes) + 1, object, rights, lent, {})}
           /\ DeadCaps' = DeadCaps \ {CapIn(g)}
<1>0. CapTypeOK /\ Len(nodes) \in Nat
    <2>1. CapTypeOK
        BY DEF CapInv
    <2> QED BY <2>1 DEF CapTypeOK
<1>1. table \in [SlotIdx -> CapSlot]
    BY <1>0, Installed
<1>2. g \in SlotIdx /\ ~slots[g].free
    BY DEF Held
<1>3. slots'[g].free /\ \A s \in SlotIdx : s # g => slots'[s] = table[s]
    BY <1>1, <1>2, FreedFacts
<1>4. PICK f \in FreeSlots :
            /\ ~table[f].free
            /\ table[f].node = Len(nodes) + 1 /\ table[f].object = object
            /\ table[f].rights = rights /\ table[f].lent = lent
            /\ \A s \in SlotIdx : s # f => table[s] = slots[s]
    BY <1>0, Installed
<1>5. f \in SlotIdx /\ f # g
    BY <1>2, <1>4 DEF FreeSlots
<1>6. /\ ~slots'[f].free
      /\ slots'[f].node = Len(nodes) + 1 /\ slots'[f].object = object
      /\ slots'[f].rights = rights /\ slots'[f].lent = lent
      /\ \A s \in SlotIdx : s # f /\ s # g => slots'[s] = slots[s]
    BY <1>3, <1>4, <1>5
<1>7. NoNode \in 0 .. Len(nodes)
    BY <1>0 DEF NoNode
<1>8. /\ Len(nodes') = Len(nodes) + 1 /\ SameEpochs
      /\ nodes'[Len(nodes) + 1].parent = NoNode /\ nodes'[Len(nodes) + 1].epoch = 0
    BY <1>0, <1>7, NodeAppended
<1>9. /\ f \in SlotIdx \ Held /\ ~IsRevoked(slots[f].node)'
      /\ CapIn(f)' = Authority!New(Len(nodes) + 1, object, rights, lent,
                                   IF NoNode = NoNode THEN {} ELSE Lineage(nodes, NoNode))
    BY <1>4, <1>6, <1>7, <1>8, NewCapability
<1>10. CapIn(f)' = Authority!New(Len(nodes) + 1, object, rights, lent, {})
    BY <1>9, Zenon
<1>11. /\ AllCaps' = (AllCaps \ {CapIn(s) : s \in {g}}) \cup {CapIn(f)'}
       /\ DeadCaps' = DeadCaps \ {CapIn(s) : s \in {g}}
    BY <1>3, <1>6, <1>8, <1>9, CapsGained
<1>12. {CapIn(s) : s \in {g}} = {CapIn(g)}
    OBVIOUS
<1> QED BY <1>10, <1>11, <1>12

(* transfer: the new capability is a root, and takes the place of the       *)
(* source.                                                                  *)
LEMMA TransferSimulates ==
    ASSUME CapInv, CapInv', LineageStep, NEW h \in Handles, NEW req \in SUBSET AllRights,
           Transfer(h, req)
    PROVE  Simulates
<1>0. CapTypeOK /\ Len(nodes) \in Nat /\ Len(objects) \in Nat
    <2>1. CapTypeOK
        BY DEF CapInv
    <2> QED BY <2>1 DEF CapTypeOK
<1>1. /\ Live(h) /\ ~slots[h.slot].lent /\ ~IsRevoked(slots[h.slot].node)
      /\ Len(nodes) < MaxCapNodes
      /\ nodes' = Append(nodes, [parent |-> NoNode, epoch |-> 0])
    BY DEF Transfer, MayDerive
<1>2. SameEpochs
    BY <1>0, <1>1, AppendKeepsEpochs
<1>3. CASE FreeSlots = {}
    <2>1. slots' = slots
        BY <1>3 DEF Transfer
    <2> QED BY <1>2, <2>1, CapsQuiet DEF Simulates
<1>4. CASE FreeSlots # {}
    <2> DEFINE object == slots[h.slot].object
               rights == slots[h.slot].rights \cap req
               p == CapIn(h.slot)
    <2>1. object \in Nat /\ rights \in SUBSET AllRights
        BY <1>0, <1>1, LiveFacts DEF ObjectIdx
    <2>2. slots' = Freed(Install(NewCap(Len(nodes) + 1, object, rights, FALSE)), h.slot)
        BY <1>4 DEF Transfer
    <2>3. /\ h.slot \in Held /\ p \in AllCaps /\ p \notin DeadCaps /\ ~p.lent
          /\ p.object = object /\ rights \subseteq p.rights
        BY <1>1, LiveCap
    <2>4. Len(nodes) + 1 \in 1 .. MaxCapNodes
        BY <1>0, <1>1, CapAssumption
    <2> HIDE DEF object, rights
    <2>5. /\ AllCaps' = (AllCaps \ {p}) \cup
                 {Authority!New(Len(nodes) + 1, object, rights, FALSE, {})}
          /\ DeadCaps' = DeadCaps \ {p}
        BY <1>1, <1>4, <2>1, <2>2, <2>3, MoveSimulates
    <2> HIDE DEF p
    <2>6. /\ AllCaps' = (AllCaps \ {p}) \cup
                 {Authority!New(Len(nodes) + 1, p.object, rights, FALSE, {})}
          /\ DeadCaps' = DeadCaps
        BY <2>3, <2>5
    <2>7. \A c \in AllCaps : Len(nodes) + 1 \notin c.line
        BY FreshIds
    <2> QED BY <2>1, <2>3, <2>4, <2>6, <2>7, IsTransfer DEF Simulates
<1> QED BY <1>3, <1>4

(* Every step of the capability core is a step of CapAuthority or none.     *)
LEMMA StepSimulates ==
    ASSUME CapInv, CapInv', [CapNext]_capVars
    PROVE  Simulates
<1>0. CapTypeOK /\ CapTypeOK' /\ LineageStep
    BY StepShape DEF CapInv
<1>1. ASSUME slots' = slots, nodes' = nodes PROVE Simulates
    BY <1>0, <1>1, CapsQuiet DEF Simulates, SameEpochs
<1>2. ASSUME NEW s \in SlotIdx, CapStep(HandleOf(s)) PROVE Simulates
    <2>1. PICK h \in Handles : h = HandleOf(s)
        BY <1>0, HandleOfFacts
    <2>2. CapStep(h)
        BY <1>2, <2>1
    <2>3. ASSUME NEW req \in SUBSET AllRights, Grant(h, req) \/ Lend(h, req) PROVE Simulates
        BY <1>0, <2>3, DeriveSimulates DEF Grant, Lend
    <2>4. ASSUME NEW req \in SUBSET AllRights, Transfer(h, req) PROVE Simulates
        BY <1>0, <2>4, TransferSimulates
    <2>5. ASSUME NEW req \in SUBSET AllRights, NEW a \in Accessors, Deref(a, h, req) PROVE Simulates
        BY <1>1, <2>5 DEF Deref
    <2>6. CASE Close(h)
        BY <2>6, CloseSimulates DEF Close
    <2>7. CASE Revoke(h) \/ DestroyOwnedRevoke(h)
        BY <2>7, RevokeSimulates DEF Revoke, DestroyOwnedRevoke
    <2> QED BY <2>2, <2>3, <2>4, <2>5, <2>6, <2>7 DEF CapStep
<1>3. ASSUME NEW h \in destroying, DestroyOwnedClose(h) PROVE Simulates
    <2>1. h \in Handles
        BY <1>0 DEF CapTypeOK
    <2> QED BY <1>1, <1>3, <2>1, CloseSimulates DEF DestroyOwnedClose
<1>4. ASSUME NEW a \in Accessors, DropAccess(a) PROVE Simulates
    BY <1>1, <1>4 DEF DropAccess
<1>5. ASSUME NEW kind \in Kinds, CreateObject(kind) PROVE Simulates
    BY <1>0, <1>5, CreateSimulates
<1>6. CASE UNCHANGED capVars
    BY <1>1, <1>6 DEF capVars
<1> QED BY <1>2, <1>3, <1>4, <1>5, <1>6 DEF CapNext

(* The lazy epochs and generations of cap.rs implement eager revocation,    *)
(* for every size of the tables: revoking a capability kills it and all it  *)
(* was derived into at once, and a capability otherwise appears, dies or    *)
(* goes only by the operation that is meant to do so.                       *)
THEOREM AuthorityImplemented == CapSpec => ImplementsAuthority
<1>1. CapInit => Authority!Init
    <2> SUFFICES ASSUME CapInit PROVE Authority!Init
        OBVIOUS
    <2>1. Held = {}
        BY DEF CapInit, Held
    <2> QED BY <2>1 DEF Authority!Init
<1>2. CapInv /\ CapInv' /\ [CapNext]_capVars
        => [Authority!Next]_<<{CapIn(s) : s \in Held},
                              {CapIn(s) : s \in {t \in Held : IsRevoked(slots[t].node)}}>>
    BY StepSimulates DEF Simulates, AllCaps, DeadCaps
<1> QED BY <1>1, <1>2, CapInvariant, PTL DEF CapSpec, ImplementsAuthority, Authority!Spec

-----------------------------------------------------------------------------
(* Timed loans *)

(* A handle that allocate_slot has handed out: its generation is behind the *)
(* slot's, or it is live.                                                   *)
Issued(h) == h.gen < slots[h.slot].gen \/ Live(h)

Loan == [handle : Handles, expiry : Ticks]

LoansTypeOK ==
    /\ tick \in Nat /\ pendingTick \in Nat /\ pendingTick <= tick
    /\ registry \in [SlotIdx -> [gen : Nat, expiry : Nat]]
    /\ lending \subseteq Loan /\ loans \subseteq Loan
    /\ toRevoke \subseteq Handles

(* A handle is lent once, and lent before it is registered.                 *)
LoanedOnce ==
    /\ \A l \in lending \cup loans : Issued(l.handle)
    /\ \A l, k \in lending \cup loans : l.handle = k.handle => l = k
    /\ lending \cap loans = {}

(* Nobody has the handle of a loan that is not registered yet, so it is     *)
(* still in its slot.                                                       *)
LendingIsLive == \A l \in lending : Live(l.handle) /\ l.handle \notin destroying

DestroyingIsIssued == \A h \in destroying : Issued(h)

RegistryHoldsLoans ==
    \A s \in SlotIdx : registry[s] # NoEntry =>
        [handle |-> [slot |-> s, gen |-> registry[s].gen],
         expiry |-> registry[s].expiry] \in loans

LoansInv ==
    /\ CapInv
    /\ LoansTypeOK
    /\ LoanedOnce
    /\ LendingIsLive
    /\ DestroyingIsIssued
    /\ RegistryHoldsLoans
    /\ LoanIsTracked
    /\ ExpiryOnTime

(* A slot that is freed moves on by one generation: it cannot wrap, because *)
(* every use of the slot has spent a node.                                  *)
LEMMA FreedGeneration ==
    ASSUME CapInv, NEW s \in SlotIdx, SlotFreed(s)
    PROVE  slots[s].gen \in Nat /\ slots'[s].gen = slots[s].gen + 1
<1>1. slots[s] \in CapSlot /\ Len(nodes) \in Nat /\ Len(nodes) <= MaxCapNodes
    BY DEF CapInv, CapTypeOK
<1>2. slots[s].gen \in Nat
    BY <1>1, CapAssumption DEF CapSlot
<1>3. slots[s].gen <= Len(nodes)
    BY <1>1 DEF CapInv, SlotGenerations, SlotFreed
<1>4. slots[s].gen + 1 \in Nat /\ slots[s].gen + 1 < GenModulus
    BY <1>1, <1>2, <1>3, CapAssumption
<1>5. (slots[s].gen + 1) % GenModulus = slots[s].gen + 1
    BY <1>4, CapAssumption
<1> QED BY <1>2, <1>5 DEF SlotFreed

(* A handle that was handed out stays handed out, and comes alive only if   *)
(* it was alive, on the same slot content.                                  *)
LEMMA IssuedKept ==
    ASSUME CapInv, SlotStep, NEW h \in Handles, Issued(h)
    PROVE  /\ Issued(h)'
           /\ Live(h)' => Live(h) /\ slots'[h.slot] = slots[h.slot]
<1>1. /\ h.slot \in SlotIdx /\ h.gen \in Nat
      /\ slots[h.slot].gen \in Nat
    <2>1. slots[h.slot] \in CapSlot /\ h.slot \in SlotIdx
        BY DEF CapInv, CapTypeOK, Handles
    <2> QED BY <2>1, CapAssumption DEF CapSlot, Handles
<1>2. CASE SlotKept(h.slot)
    BY <1>2 DEF SlotKept, Issued, Live
<1>3. CASE SlotFilled(h.slot)
    <2>1. h.gen < slots[h.slot].gen
        BY <1>3 DEF SlotFilled, Issued, Live
    <2>2. slots'[h.slot].gen = slots[h.slot].gen
        BY <1>3 DEF SlotFilled
    <2> QED BY <1>1, <2>1, <2>2 DEF Issued, Live
<1>4. CASE SlotFreed(h.slot)
    <2>1. slots'[h.slot].gen = slots[h.slot].gen + 1
        BY <1>1, <1>4, FreedGeneration
    <2>2. h.gen <= slots[h.slot].gen
        BY <1>1 DEF Issued, Live
    <2>3. h.gen < slots'[h.slot].gen
        BY <1>1, <2>1, <2>2
    <2> QED BY <1>4, <2>3 DEF Issued, Live, SlotFreed
<1> QED BY <1>1, <1>2, <1>3, <1>4 DEF SlotStep

(* A loan that conveys authority after a step conveyed it before.           *)
LEMMA OutstandingBefore ==
    ASSUME CapInv, CapInv', SlotStep, LineageStep, NEW l \in Loan, Issued(l.handle),
           Outstanding(l)'
    PROVE  Outstanding(l)
<1>1. l.handle \in Handles
    BY DEF Loan
<1>2. Live(l.handle) /\ slots'[l.handle.slot] = slots[l.handle.slot]
    BY <1>1, IssuedKept DEF Outstanding
<1>3. slots[l.handle.slot].node \in NodeIdx
    BY <1>1, <1>2, LiveFacts DEF CapInv
<1>4. ASSUME NEW a \in Lineage(nodes, slots[l.handle.slot].node), nodes[a].epoch > 0
      PROVE  FALSE
    <2>1. /\ a \in Lineage(nodes', slots[l.handle.slot].node)
          /\ nodes'[a].epoch > 0
        BY <1>3, <1>4, RevokedStaysRevoked DEF CapInv
    <2> QED BY <1>2, <2>1 DEF Outstanding, IsRevoked
<1> QED BY <1>2, <1>4 DEF Outstanding, IsRevoked

(* A live handle is the handle of its slot.                                 *)
LEMMA LiveHandle ==
    ASSUME NEW h \in Handles, Live(h)
    PROVE  h = HandleOf(h.slot) /\ h.slot \in SlotIdx
BY DEF Handles, Live, HandleOf

(* An operation on a handle touches no other slot in use.                   *)
LEMMA OthersKept ==
    ASSUME CapTypeOK, NEW h \in Handles, CapStep(h)
    PROVE  /\ \A t \in SlotIdx : ~slots[t].free /\ t # h.slot => slots'[t] = slots[t]
           /\ destroying' = destroying \/ (destroying' = destroying \cup {h} /\ Live(h))
<1> DEFINE Kept ==
        /\ \A t \in SlotIdx : ~slots[t].free /\ t # h.slot => slots'[t] = slots[t]
        /\ destroying' = destroying \/ (destroying' = destroying \cup {h} /\ Live(h))
<1>1. slots \in [SlotIdx -> CapSlot] /\ h.slot \in SlotIdx
    BY DEF CapTypeOK, Handles
<1>2. ASSUME NEW req \in SUBSET AllRights, NEW lent \in BOOLEAN, Derive(h, req, lent)
      PROVE  \A t \in SlotIdx : ~slots[t].free => slots'[t] = slots[t]
    <2>1. NewCap(Len(nodes) + 1, slots[h.slot].object, slots[h.slot].rights \cap req, lent) \in CapSlot
        <3>1. slots[h.slot].object \in ObjectIdx /\ Len(nodes) \in Nat /\ Len(objects) \in Nat
              /\ slots[h.slot].rights \in SUBSET AllRights
            BY <1>2, LiveFacts DEF Derive, MayDerive, CapTypeOK
        <3>2. /\ Len(nodes) + 1 \in Nat /\ slots[h.slot].object \in Nat
              /\ slots[h.slot].rights \cap req \in SUBSET AllRights
            BY <3>1 DEF ObjectIdx
        <3> QED BY <3>2, NewCapType
    <2> QED BY <1>1, <1>2, <2>1, InstallFacts DEF Derive
<1>3. ASSUME NEW req \in SUBSET AllRights, Transfer(h, req)
      PROVE  \A t \in SlotIdx : ~slots[t].free /\ t # h.slot => slots'[t] = slots[t]
    <2> DEFINE c == NewCap(Len(nodes) + 1, slots[h.slot].object, slots[h.slot].rights \cap req, FALSE)
    <2>1. c \in CapSlot
        <3>1. slots[h.slot].object \in ObjectIdx /\ Len(nodes) \in Nat /\ Len(objects) \in Nat
              /\ slots[h.slot].rights \in SUBSET AllRights
            BY <1>3, LiveFacts DEF Transfer, MayDerive, CapTypeOK
        <3>2. /\ Len(nodes) + 1 \in Nat /\ slots[h.slot].object \in Nat
              /\ slots[h.slot].rights \cap req \in SUBSET AllRights
            BY <3>1 DEF ObjectIdx
        <3> QED BY <3>2, NewCapType
    <2>2. CASE FreeSlots = {}
        BY <1>3, <2>2 DEF Transfer
    <2>3. CASE FreeSlots # {}
        <3>1. slots' = Freed(Install(c), h.slot)
            BY <1>3, <2>3 DEF Transfer
        <3> HIDE DEF c
        <3>2. /\ Install(c) \in [SlotIdx -> CapSlot]
              /\ \A t \in SlotIdx : ~slots[t].free => Install(c)[t] = slots[t]
            BY <1>1, <2>1, InstallFacts
        <3>3. \A t \in SlotIdx : t # h.slot => slots'[t] = Install(c)[t]
            BY <1>1, <3>1, <3>2, FreedFacts
        <3> QED BY <3>2, <3>3
    <2> QED BY <2>2, <2>3
<1>4. ASSUME Close(h) PROVE Kept
    <2>1. \A t \in SlotIdx : t # h.slot => slots'[t] = slots[t]
        BY <1>1, <1>4, FreedFacts DEF Close
    <2> QED BY <1>4, <2>1 DEF Close
<1>5. ASSUME Revoke(h) \/ DestroyOwnedRevoke(h) PROVE Kept
    BY <1>5 DEF Revoke, DestroyOwnedRevoke
<1>6. ASSUME NEW req \in SUBSET AllRights, NEW a \in Accessors, Deref(a, h, req)
      PROVE  Kept
    <2>1. slots' = slots /\ destroying' = destroying
        BY <1>6, Zenon DEF Deref
    <2> QED BY <2>1
<1>7. ASSUME NEW req \in SUBSET AllRights, Grant(h, req) \/ Lend(h, req) \/ Transfer(h, req)
      PROVE  Kept
    <2>1. destroying' = destroying
        BY <1>7 DEF Grant, Lend, Derive, Transfer
    <2>2. Grant(h, req) \/ Lend(h, req) =>
             \A t \in SlotIdx : ~slots[t].free => slots'[t] = slots[t]
        BY <1>2, Zenon DEF Grant, Lend
    <2> QED BY <1>3, <1>7, <2>1, <2>2
<1>8. Kept
    <2> HIDE DEF Kept
    <2> QED BY <1>4, <1>5, <1>6, <1>7 DEF CapStep
<1> QED BY <1>8

(* The parts of the invariant that speak of loans, over a step that leaves  *)
(* the registry, the revoke loop and the loans alone.                       *)
LEMMA LoansCarried ==
    ASSUME LoansInv, CapInv', SlotStep, LineageStep, tick' \in Nat, tick' >= tick,
           UNCHANGED <<registry, toRevoke, loans>>
    PROVE  RegistryHoldsLoans' /\ LoanIsTracked' /\ ExpiryOnTime'
<1>1. RegistryHoldsLoans'
    BY DEF LoansInv, RegistryHoldsLoans
<1>2. LoanIsTracked'
    <2> SUFFICES ASSUME NEW l \in loans, Outstanding(l)'
                 PROVE  \/ registry[l.handle.slot] =
                              [gen |-> l.handle.gen, expiry |-> l.expiry]
                        \/ l.handle \in toRevoke
        BY DEF LoanIsTracked
    <2>1. CapInv /\ l \in Loan /\ Issued(l.handle)
        BY DEF LoansInv, LoansTypeOK, LoanedOnce
    <2>2. Outstanding(l)
        BY <2>1, OutstandingBefore
    <2> QED BY <2>2 DEF LoansInv, LoanIsTracked
<1>3. ExpiryOnTime'
    <2>1. \A l \in loans : l.expiry \in Nat
        BY MaxTickAssumption DEF LoansInv, LoansTypeOK, Loan, Ticks
    <2>2. tick \in Nat
        BY DEF LoansInv, LoansTypeOK
    <2> QED BY <2>1, <2>2 DEF LoansInv, ExpiryOnTime
<1> QED BY <1>1, <1>2, <1>3

(* The handles handed out, over any step that lends nothing new.            *)
LEMMA HandlesCarried ==
    ASSUME LoansInv, SlotStep, (lending \cup loans)' = lending \cup loans,
           lending' \cap loans' = {}
    PROVE  LoanedOnce'
<1>1. \A l \in lending \cup loans : l.handle \in Handles /\ Issued(l.handle)
    BY DEF LoansInv, LoansTypeOK, Loan, LoanedOnce
<1>2. \A l \in lending \cup loans : Issued(l.handle)'
    BY <1>1, IssuedKept DEF LoansInv
<1>3. \A l, k \in lending \cup loans : l.handle = k.handle => l = k
    BY DEF LoansInv, LoanedOnce
<1> QED BY <1>2, <1>3 DEF LoanedOnce

(* Every step of the timed loans is a step of the capability core.          *)
LEMMA LoanStepIsCap ==
    ASSUME LoansInv, [Next]_vars
    PROVE  [CapNext]_capVars
<1>1. toRevoke \subseteq Handles
    BY DEF LoansInv, LoansTypeOK
<1>2. CASE TimerTick \/ PollPending \/ \E loan \in lending : RegisterLoan(loan)
    BY <1>2 DEF TimerTick, PollPending, RegisterLoan
<1>3. ASSUME NEW s \in SlotIdx, NEW req \in SUBSET AllRights, NEW expiry \in Ticks,
             LendForTime(HandleOf(s), req, expiry)
      PROVE  CapNext
    BY <1>3 DEF LendForTime, CapNext, CapStep
<1>4. ASSUME NEW h \in toRevoke, RevokeExpired(h)
      PROVE  [CapNext]_capVars
    <2>1. CASE Revoke(h)
        <3>1. h = HandleOf(h.slot) /\ h.slot \in SlotIdx
            BY <1>1, <2>1, LiveHandle DEF Revoke
        <3>2. CapStep(HandleOf(h.slot))
            BY <2>1, <3>1 DEF CapStep
        <3> QED BY <3>1, <3>2 DEF CapNext
    <2>2. CASE UNCHANGED capVars
        BY <2>2
    <2> QED BY <1>4, <2>1, <2>2 DEF RevokeExpired
<1>5. CASE OtherOperation
    BY <1>5 DEF OtherOperation, CapNext
<1>6. CASE UNCHANGED vars
    BY <1>6 DEF vars
<1> QED BY <1>2, <1>3, <1>4, <1>5, <1>6 DEF Next

(* The timer and the registration of a loan.                                *)
LEMMA TickKeepsLoans ==
    ASSUME LoansInv, CapInv', SlotStep, LineageStep, TimerTick
    PROVE  LoansInv'
<1>1. /\ UNCHANGED <<slots, nodes, objects, access, destroying, retired>>
      /\ UNCHANGED <<registry, lending, toRevoke, loans>>
    BY DEF TimerTick, capVars
<1>2. tick' \in Nat /\ tick' >= tick /\ pendingTick' = tick'
    BY DEF TimerTick, LoansInv, LoansTypeOK
<1>3. RegistryHoldsLoans' /\ LoanIsTracked' /\ ExpiryOnTime'
    BY <1>1, <1>2, LoansCarried
<1>4. LoansTypeOK'
    BY <1>1, <1>2 DEF LoansInv, LoansTypeOK
<1>5. LoanedOnce'
    BY <1>1, HandlesCarried DEF LoansInv, LoanedOnce
<1>6. LendingIsLive' /\ DestroyingIsIssued'
    BY <1>1 DEF LoansInv, LendingIsLive, DestroyingIsIssued, Live, Issued
<1> QED BY <1>3, <1>4, <1>5, <1>6 DEF LoansInv

LEMMA RegisterKeepsLoans ==
    ASSUME LoansInv, CapInv', SlotStep, LineageStep, NEW loan \in lending, RegisterLoan(loan)
    PROVE  LoansInv'
<1>0. /\ lending \subseteq Loan /\ loans \subseteq Loan /\ loan \in Loan
      /\ registry \in [SlotIdx -> [gen : Nat, expiry : Nat]]
      /\ lending' = lending \ {loan} /\ loans' = loans \cup {loan}
      /\ registry' = [registry EXCEPT ![loan.handle.slot] =
                         [gen |-> loan.handle.gen, expiry |-> loan.expiry]]
      /\ UNCHANGED <<slots, nodes, objects, access, destroying, retired>>
      /\ UNCHANGED <<tick, pendingTick, toRevoke>>
    BY DEF RegisterLoan, capVars, LoansInv, LoansTypeOK
<1>1. /\ loan.handle \in Handles /\ loan.handle.slot \in SlotIdx /\ loan.handle.gen \in Nat
      /\ loan.expiry \in Nat \ {0} /\ loan.expiry \in Ticks
    BY <1>0, CapAssumption, MaxTickAssumption DEF Loan, Handles, Ticks
<1>2. Live(loan.handle)
    BY DEF LoansInv, LendingIsLive
<1>3. LoansTypeOK'
    BY <1>0, <1>1 DEF LoansInv, LoansTypeOK
<1>4. LoanedOnce'
    <2>1. (lending \cup loans)' = lending \cup loans /\ lending' \cap loans' = {}
        BY <1>0 DEF LoansInv, LoanedOnce
    <2> QED BY <2>1, HandlesCarried
<1>5. LendingIsLive' /\ DestroyingIsIssued'
    BY <1>0 DEF LoansInv, LendingIsLive, DestroyingIsIssued, Live, Issued
<1>6. RegistryHoldsLoans'
    <2> SUFFICES ASSUME NEW s \in SlotIdx, registry'[s] # NoEntry
                 PROVE  [handle |-> [slot |-> s, gen |-> registry'[s].gen],
                         expiry |-> registry'[s].expiry] \in loans'
        BY DEF RegistryHoldsLoans
    <2>1. CASE s = loan.handle.slot
        <3>1. registry'[s].gen = loan.handle.gen /\ registry'[s].expiry = loan.expiry
            BY <1>0, <1>1, <2>1
        <3>2. loan = [handle |-> [slot |-> s, gen |-> loan.handle.gen], expiry |-> loan.expiry]
            BY <1>0, <2>1 DEF Loan, Handles
        <3> QED BY <1>0, <3>1, <3>2
    <2>2. CASE s # loan.handle.slot
        <3>1. registry'[s] = registry[s]
            BY <1>0, <1>1, <2>2
        <3> QED BY <1>0, <3>1 DEF LoansInv, RegistryHoldsLoans
    <2> QED BY <2>1, <2>2
<1>7. LoanIsTracked'
    <2> SUFFICES ASSUME NEW l \in loans', Outstanding(l)'
                 PROVE  \/ registry'[l.handle.slot] =
                              [gen |-> l.handle.gen, expiry |-> l.expiry]
                        \/ l.handle \in toRevoke
        BY <1>0 DEF LoanIsTracked
    <2>0. Outstanding(l) /\ l \in Loan /\ l.handle \in Handles /\ l.handle.slot \in SlotIdx
        BY <1>0 DEF Outstanding, Live, IsRevoked, Loan, Handles
    <2>1. CASE l = loan
        BY <1>0, <1>1, <2>1
    <2>2. CASE l # loan /\ l.handle.slot = loan.handle.slot
        <3>1. Live(l.handle)
            BY <2>0 DEF Outstanding
        <3>2. l.handle = loan.handle
            BY <1>1, <1>2, <2>0, <2>2, <3>1, LiveHandle DEF HandleOf
        <3>3. l \in lending \cup loans
            BY <1>0
        <3> QED BY <2>2, <3>2, <3>3 DEF LoansInv, LoanedOnce
    <2>3. CASE l # loan /\ l.handle.slot # loan.handle.slot
        <3>1. registry'[l.handle.slot] = registry[l.handle.slot] /\ l \in loans
            BY <1>0, <1>1, <2>0, <2>3
        <3> QED BY <2>0, <3>1 DEF LoansInv, LoanIsTracked
    <2> QED BY <2>1, <2>2, <2>3
<1>8. ExpiryOnTime'
    BY <1>0 DEF LoansInv, ExpiryOnTime
<1> QED BY <1>3, <1>4, <1>5, <1>6, <1>7, <1>8 DEF LoansInv

(* schedule() takes the expired entries out of the registry.                *)
LEMMA PollKeepsLoans ==
    ASSUME LoansInv, CapInv', SlotStep, LineageStep, PollPending
    PROVE  LoansInv'
<1> DEFINE X == ExpiredSlots(pendingTick)
<1>0. /\ lending \subseteq Loan /\ loans \subseteq Loan /\ toRevoke \subseteq Handles
      /\ registry \in [SlotIdx -> [gen : Nat, expiry : Nat]]
      /\ tick \in Nat /\ pendingTick \in Nat /\ pendingTick <= tick
    BY DEF LoansInv, LoansTypeOK
<1>1. /\ UNCHANGED <<slots, nodes, objects, access, destroying, retired>>
      /\ UNCHANGED <<tick, lending, loans>> /\ pendingTick' = 0
      /\ registry' = [s \in SlotIdx |-> IF s \in X THEN NoEntry ELSE registry[s]]
      /\ toRevoke' = toRevoke \cup {[slot |-> s, gen |-> registry[s].gen] : s \in X}
    BY DEF PollPending, capVars
<1>2. \A s \in X : /\ s \in SlotIdx /\ registry[s] # NoEntry
                   /\ registry[s].expiry <= pendingTick
    BY DEF ExpiredSlots
<1>3. \A s \in X : [handle |-> [slot |-> s, gen |-> registry[s].gen],
                    expiry |-> registry[s].expiry] \in loans
    BY <1>2 DEF LoansInv, RegistryHoldsLoans
<1> HIDE DEF X
<1>4. LoansTypeOK'
    <2>1. \A s \in X : [slot |-> s, gen |-> registry[s].gen] \in Handles
        BY <1>0, <1>3 DEF Loan
    <2>2. NoEntry \in [gen : Nat, expiry : Nat]
        BY DEF NoEntry
    <2>3. registry' \in [SlotIdx -> [gen : Nat, expiry : Nat]]
        BY <1>0, <1>1, <2>2
    <2> QED BY <1>0, <1>1, <2>1, <2>3 DEF LoansTypeOK
<1>5. LoanedOnce'
    BY <1>1, HandlesCarried DEF LoansInv, LoanedOnce
<1>6. LendingIsLive' /\ DestroyingIsIssued'
    BY <1>1 DEF LoansInv, LendingIsLive, DestroyingIsIssued, Live, Issued
<1>7. RegistryHoldsLoans'
    <2> SUFFICES ASSUME NEW s \in SlotIdx, registry'[s] # NoEntry
                 PROVE  [handle |-> [slot |-> s, gen |-> registry'[s].gen],
                         expiry |-> registry'[s].expiry] \in loans'
        BY DEF RegistryHoldsLoans
    <2>1. registry'[s] = registry[s]
        BY <1>1
    <2> QED BY <1>1, <2>1 DEF LoansInv, RegistryHoldsLoans
<1>8. LoanIsTracked'
    <2> SUFFICES ASSUME NEW l \in loans, Outstanding(l)
                 PROVE  \/ registry'[l.handle.slot] =
                              [gen |-> l.handle.gen, expiry |-> l.expiry]
                        \/ l.handle \in toRevoke'
        BY <1>1 DEF LoanIsTracked, Outstanding, Live, IsRevoked
    <2>0. l \in Loan /\ l.handle \in Handles /\ l.handle.slot \in SlotIdx
        BY <1>0 DEF Loan, Handles
    <2>1. \/ registry[l.handle.slot] = [gen |-> l.handle.gen, expiry |-> l.expiry]
          \/ l.handle \in toRevoke
        BY DEF LoansInv, LoanIsTracked
    <2>2. CASE l.handle \in toRevoke
        BY <1>1, <2>2
    <2>3. CASE registry[l.handle.slot] = [gen |-> l.handle.gen, expiry |-> l.expiry]
        <3>1. CASE l.handle.slot \in X
            <4>1. l.handle = [slot |-> l.handle.slot, gen |-> l.handle.gen]
                BY <2>0 DEF Handles
            <4>2. l.handle = [slot |-> l.handle.slot, gen |-> registry[l.handle.slot].gen]
                BY <2>3, <4>1
            <4> QED BY <1>1, <3>1, <4>2
        <3>2. CASE l.handle.slot \notin X
            BY <1>1, <2>0, <2>3, <3>2
        <3> QED BY <3>1, <3>2
    <2> QED BY <2>1, <2>2, <2>3
<1>9. ExpiryOnTime'
    <2> SUFFICES ASSUME NEW h \in toRevoke'
                 PROVE  \E l \in loans : l.handle = h /\ l.expiry <= tick
        BY <1>1 DEF ExpiryOnTime
    <2>1. CASE h \in toRevoke
        BY <2>1 DEF LoansInv, ExpiryOnTime
    <2>2. ASSUME NEW s \in X, h = [slot |-> s, gen |-> registry[s].gen]
          PROVE  \E l \in loans : l.handle = h /\ l.expiry <= tick
        <3>1. s \in SlotIdx /\ registry[s].expiry \in Nat /\ registry[s].expiry <= pendingTick
            BY <1>0, <1>2
        <3>2. registry[s].expiry <= tick
            BY <1>0, <3>1
        <3>3. PICK l \in loans : l = [handle |-> h, expiry |-> registry[s].expiry]
            BY <1>3, <2>2
        <3> QED BY <3>2, <3>3
    <2> QED BY <1>1, <2>1, <2>2
<1> QED BY <1>4, <1>5, <1>6, <1>7, <1>8, <1>9 DEF LoansInv

(* The revoke loop: the handle it drops is dead, or the loan has ended.     *)
LEMMA ExpireKeepsLoans ==
    ASSUME LoansInv, CapInv', SlotStep, LineageStep, NEW h \in toRevoke, RevokeExpired(h)
    PROVE  LoansInv'
<1>0. /\ lending \subseteq Loan /\ loans \subseteq Loan /\ h \in Handles /\ CapInv
      /\ LoansTypeOK /\ LoanedOnce
    BY DEF LoansInv, LoansTypeOK
<1>1. /\ UNCHANGED <<slots, destroying, tick, pendingTick, registry, lending, loans>>
      /\ toRevoke' = toRevoke \ {h}
      /\ \/ Live(h) /\ nodes' = BumpEpoch(slots[h.slot].node)
         \/ ~Live(h)
    BY DEF RevokeExpired, capVars, Revoke
<1>2. LoansTypeOK'
    BY <1>0, <1>1 DEF LoansTypeOK
<1>3. LoanedOnce'
    BY <1>0, <1>1, HandlesCarried DEF LoanedOnce
<1>4. LendingIsLive' /\ DestroyingIsIssued'
    BY <1>1 DEF LoansInv, LendingIsLive, DestroyingIsIssued, Live, Issued
<1>5. RegistryHoldsLoans'
    BY <1>1 DEF LoansInv, RegistryHoldsLoans
<1>6. ExpiryOnTime'
    BY <1>1 DEF LoansInv, ExpiryOnTime
<1>7. LoanIsTracked'
    <2> SUFFICES ASSUME NEW l \in loans, Outstanding(l)'
                 PROVE  \/ registry[l.handle.slot] =
                              [gen |-> l.handle.gen, expiry |-> l.expiry]
                        \/ l.handle \in toRevoke'
        BY <1>1 DEF LoanIsTracked
    <2>1. l \in Loan /\ Issued(l.handle)
        BY <1>0 DEF LoanedOnce
    <2>2. Outstanding(l)
        BY <1>0, <2>1, OutstandingBefore
    <2>3. l.handle # h
        <3> SUFFICES ASSUME l.handle = h PROVE FALSE
            OBVIOUS
        <3>1. Live(h) /\ nodes' = BumpEpoch(slots[h.slot].node)
            BY <1>1, <2>2 DEF Outstanding
        <3>2. PICK n \in NodeIdx : n = slots[h.slot].node
            BY <1>0, <3>1, LiveFacts DEF CapInv
        <3>3. nodes'[n].epoch > 0
            BY <1>0, <3>1, <3>2, BumpedEpoch DEF CapInv
        <3>4. n \in Lineage(nodes', n)
            BY LineageSelf DEF NodeIdx
        <3> QED BY <1>1, <3>2, <3>3, <3>4 DEF Outstanding, IsRevoked
    <2> QED BY <1>1, <2>2, <2>3 DEF LoansInv, LoanIsTracked
<1> QED BY <1>2, <1>3, <1>4, <1>5, <1>6, <1>7 DEF LoansInv

(* lend_with_expiry hands out a handle nobody has had.                      *)
LEMMA LendKeepsLoans ==
    ASSUME LoansInv, CapInv', SlotStep, LineageStep, NEW r \in SlotIdx,
           NEW req \in SUBSET AllRights, NEW expiry \in Ticks,
           LendForTime(HandleOf(r), req, expiry)
    PROVE  LoansInv'
<1>0. /\ lending \subseteq Loan /\ loans \subseteq Loan /\ CapInv /\ CapTypeOK
      /\ LoansTypeOK /\ LoanedOnce /\ LendingIsLive /\ DestroyingIsIssued
      /\ tick \in Nat /\ destroying \subseteq Handles
    BY DEF LoansInv, LoansTypeOK, CapInv, CapTypeOK
<1>1. /\ UNCHANGED <<destroying, tick, pendingTick, registry, toRevoke, loans>>
      /\ Derive(HandleOf(r), req, TRUE)
    BY DEF LendForTime, Lend, Derive
<1>2. RegistryHoldsLoans' /\ LoanIsTracked' /\ ExpiryOnTime'
    BY <1>0, <1>1, LoansCarried
<1>3. \A t \in SlotIdx : ~slots[t].free => slots'[t] = slots[t]
    <2>1. HandleOf(r) \in Handles /\ HandleOf(r).slot = r
        BY <1>0, HandleOfFacts
    <2>2. ~slots[r].free
        BY <1>1, <2>1 DEF Derive, MayDerive, Live
    <2>3. \A t \in SlotIdx : SlotKept(t) \/ SlotFilled(t) \/ SlotFreed(t)
        BY DEF SlotStep
    <2>4. slots \in [SlotIdx -> CapSlot] /\ slots[r].object \in Nat /\ Len(nodes) + 1 \in Nat
          /\ slots[r].rights \cap req \in SUBSET AllRights
        BY <1>0 DEF CapTypeOK, CapSlot
    <2>5. NewCap(Len(nodes) + 1, slots[r].object, slots[r].rights \cap req, TRUE) \in CapSlot
        BY <2>4, NewCapType
    <2>6. slots' = Install(NewCap(Len(nodes) + 1, slots[r].object, slots[r].rights \cap req, TRUE))
        BY <1>1, <2>1 DEF Derive
    <2> QED BY <2>4, <2>5, <2>6, InstallFacts
<1>4. \A l \in lending : Live(l.handle)' /\ l.handle \notin destroying
    <2>1. \A l \in lending : l.handle \in Handles /\ l.handle.slot \in SlotIdx
        BY <1>0 DEF Loan, Handles
    <2> QED BY <1>0, <1>3, <2>1 DEF LendingIsLive, Live
<1>5. DestroyingIsIssued'
    BY <1>0, <1>1, IssuedKept DEF DestroyingIsIssued
<1>6. CASE FreeSlots = {}
    <2>1. lending' = lending
        BY <1>6 DEF LendForTime
    <2>2. LoansTypeOK' /\ LendingIsLive'
        BY <1>0, <1>1, <1>4, <2>1 DEF LoansTypeOK, LendingIsLive
    <2>3. LoanedOnce'
        BY <1>0, <1>1, <2>1, HandlesCarried DEF LoanedOnce
    <2> QED BY <1>2, <1>5, <2>2, <2>3 DEF LoansInv
<1>7. CASE FreeSlots # {}
    <2>1. PICK f \in FreeSlots : f = AllocateSlot
        BY <1>7, AllocateSlotIsFree
    <2>2. f \in SlotIdx /\ slots[f].free
        BY DEF FreeSlots
    <2>3. PICK h \in Handles : h = HandleOf(f)
        BY <1>0, <2>2, HandleOfFacts
    <2>4. /\ h.slot = f /\ h.gen = slots[f].gen /\ ~Issued(h)
        <3>1. h.slot = f /\ h.gen = slots[f].gen
            BY <2>3 DEF HandleOf
        <3>2. slots[f].gen \in Nat
            BY <1>0, <2>2, CapAssumption DEF CapTypeOK, CapSlot
        <3> QED BY <2>2, <3>1, <3>2 DEF Issued, Live
    <2>5. PICK new \in Loan : new = [handle |-> h, expiry |-> expiry]
        BY DEF Loan
    <2>6. lending' = lending \cup {new}
        BY <1>7, <2>1, <2>3, <2>5 DEF LendForTime
    <2>7. new.handle = h
        BY <2>5
    <2>8. Live(h)'
        <3>1. ~slots'[f].free /\ slots'[f].gen = slots[f].gen
            <4>1. slots[r].object \in Nat /\ slots[r].rights \cap req \in SUBSET AllRights
                  /\ slots \in [SlotIdx -> CapSlot]
                BY <1>0 DEF CapTypeOK, CapSlot
            <4>2. HandleOf(r).slot = r
                BY DEF HandleOf
            <4>3. slots'[f] = [NewCap(Len(nodes) + 1, slots[r].object, slots[r].rights \cap req, TRUE)
                                  EXCEPT !.gen = slots[f].gen]
                BY <1>1, <1>7, <2>1, <2>2, <4>1, <4>2 DEF Derive, Install
            <4> QED BY <4>3 DEF NewCap
        <3> QED BY <2>4, <3>1 DEF Live
    <2>9. /\ h \notin destroying
          /\ \A l \in lending \cup loans : l.handle # h
        BY <1>0, <2>4 DEF DestroyingIsIssued, LoanedOnce
    <2>10. LoansTypeOK' /\ LendingIsLive'
        BY <1>0, <1>1, <1>4, <2>6, <2>7, <2>8, <2>9 DEF LoansTypeOK, LendingIsLive
    <2>11. LoanedOnce'
        <3>1. \A l \in lending \cup loans : l.handle \in Handles /\ Issued(l.handle)
            BY <1>0 DEF Loan, LoanedOnce
        <3>2. \A l \in lending \cup loans : Issued(l.handle)'
            BY <1>0, <3>1, IssuedKept
        <3>3. Issued(h)'
            BY <2>8 DEF Issued
        <3>4. (lending \cup loans)' = lending \cup loans \cup {new}
            BY <1>1, <2>6
        <3>5. \A l, k \in lending \cup loans : l.handle = k.handle => l = k
            BY <1>0 DEF LoanedOnce
        <3>6. lending' \cap loans' = {}
            BY <1>0, <1>1, <2>6, <2>7, <2>9 DEF LoanedOnce
        <3>7. \A l \in lending' \cup loans' : Issued(l.handle)'
            BY <2>7, <3>2, <3>3, <3>4
        <3>8. \A l, k \in lending' \cup loans' : l.handle = k.handle => l = k
            BY <2>7, <2>9, <3>4, <3>5
        <3> QED BY <3>6, <3>7, <3>8 DEF LoanedOnce
    <2> QED BY <1>2, <1>5, <2>10, <2>11 DEF LoansInv
<1> QED BY <1>6, <1>7

(* Every other operation works on handles its callers were given, so a loan *)
(* that is not registered yet stays in its slot.                            *)
LEMMA OtherKeepsLoans ==
    ASSUME LoansInv, CapInv', SlotStep, LineageStep, OtherOperation
    PROVE  LoansInv'
<1>0. /\ lending \subseteq Loan /\ loans \subseteq Loan /\ CapInv /\ CapTypeOK
      /\ LoansTypeOK /\ LoanedOnce /\ LendingIsLive /\ DestroyingIsIssued
      /\ tick \in Nat /\ destroying \subseteq Handles /\ slots \in [SlotIdx -> CapSlot]
    BY DEF LoansInv, LoansTypeOK, CapInv, CapTypeOK
<1>1. UNCHANGED <<tick, pendingTick, registry, lending, toRevoke, loans>>
    BY DEF OtherOperation, expiryVars
<1>2. RegistryHoldsLoans' /\ LoanIsTracked' /\ ExpiryOnTime'
    BY <1>0, <1>1, LoansCarried
<1>3. LoansTypeOK'
    BY <1>0, <1>1 DEF LoansTypeOK
<1>4. LoanedOnce'
    BY <1>0, <1>1, HandlesCarried DEF LoanedOnce
<1>5. \A l \in lending : /\ l.handle \in Handles /\ Live(l.handle)
                         /\ l.handle = HandleOf(l.handle.slot)
                         /\ l.handle.slot \in SlotIdx /\ ~slots[l.handle.slot].free
                         /\ l.handle \notin destroying
    BY <1>0, LiveHandle DEF Loan, LendingIsLive, Live
<1> DEFINE Safe == /\ \A l \in lending : /\ slots'[l.handle.slot] = slots[l.handle.slot]
                                         /\ l.handle \notin destroying'
                   /\ \A h \in destroying' : h \in Handles /\ Issued(h)
<1>6. ASSUME NEW kind \in Kinds, CreateObject(kind) PROVE Safe
    <2> DEFINE c == NewCap(Len(nodes) + 1, Len(objects) + 1, AllRights, FALSE)
    <2>1. c \in CapSlot
        BY <1>0, CapAssumption DEF NewCap, CapSlot, CapTypeOK
    <2>2. slots' = Install(c) /\ destroying' = destroying
        BY <1>6 DEF CreateObject
    <2> HIDE DEF c
    <2>3. \A t \in SlotIdx : ~slots[t].free => slots'[t] = slots[t]
        BY <1>0, <2>1, <2>2, InstallFacts
    <2> QED BY <1>0, <1>5, <2>2, <2>3 DEF DestroyingIsIssued
<1>7. ASSUME NEW s \in SlotIdx, Returned(HandleOf(s)), CapStep(HandleOf(s)) PROVE Safe
    <2>1. PICK h \in Handles : h = HandleOf(s) /\ h.slot = s
        BY <1>0, HandleOfFacts
    <2>2. /\ \A t \in SlotIdx : ~slots[t].free /\ t # h.slot => slots'[t] = slots[t]
          /\ destroying' = destroying \/ (destroying' = destroying \cup {h} /\ Live(h))
        BY <1>0, <1>7, <2>1, OthersKept
    <2>3. \A l \in lending : l.handle # h
        BY <1>7, <2>1 DEF Returned
    <2>4. \A l \in lending : l.handle.slot # h.slot
        BY <1>5, <2>1, <2>3
    <2>5. Live(h) => Issued(h)
        BY DEF Issued
    <2> QED BY <1>0, <1>5, <2>2, <2>3, <2>4, <2>5 DEF DestroyingIsIssued
<1>8. ASSUME NEW h \in destroying, DestroyOwnedClose(h) PROVE Safe
    <2>1. h \in Handles /\ h.slot \in SlotIdx /\ destroying' = destroying \ {h}
        BY <1>0, <1>8 DEF DestroyOwnedClose, Handles
    <2>2. CASE ~Live(h)
        BY <1>0, <1>5, <1>8, <2>1, <2>2 DEF DestroyOwnedClose, DestroyingIsIssued
    <2>3. CASE Live(h)
        <3>1. \A t \in SlotIdx : t # h.slot => slots'[t] = slots[t]
            BY <1>0, <1>8, <2>1, <2>3, FreedFacts DEF DestroyOwnedClose
        <3>2. h = HandleOf(h.slot)
            BY <2>1, <2>3, LiveHandle
        <3>3. \A l \in lending : l.handle.slot # h.slot
            BY <1>5, <1>8, <3>2
        <3> QED BY <1>0, <1>5, <2>1, <3>1, <3>3 DEF DestroyingIsIssued
    <2> QED BY <2>2, <2>3
<1>9. ASSUME NEW a \in Accessors, DropAccess(a) PROVE Safe
    BY <1>0, <1>5, <1>9 DEF DropAccess, DestroyingIsIssued
<1>10. Safe
    <2> HIDE DEF Safe
    <2> QED BY <1>6, <1>7, <1>8, <1>9 DEF OtherOperation
<1>11. LendingIsLive'
    BY <1>1, <1>5, <1>10 DEF LendingIsLive, Live
<1>12. DestroyingIsIssued'
    BY <1>0, <1>10, IssuedKept DEF DestroyingIsIssued
<1> QED BY <1>2, <1>3, <1>4, <1>11, <1>12 DEF LoansInv

(* The invariant of the timed loans is inductive.                           *)
LEMMA LoansInvariance == Spec => []LoansInv
<1>1. Init => LoansInv
    <2> SUFFICES ASSUME Init PROVE LoansInv
        OBVIOUS
    <2>1. /\ CapInit /\ tick = 0 /\ pendingTick = 0 /\ lending = {} /\ toRevoke = {}
          /\ loans = {} /\ registry = [s \in SlotIdx |-> NoEntry] /\ destroying = {}
        BY DEF Init, CapInit
    <2>2. CapInv
        BY <2>1, InvInit
    <2>3. LoansTypeOK
        BY <2>1 DEF LoansTypeOK, NoEntry
    <2>4. RegistryHoldsLoans
        BY <2>1 DEF RegistryHoldsLoans
    <2> QED BY <2>1, <2>2, <2>3, <2>4 DEF LoansInv, LoanedOnce, LendingIsLive, DestroyingIsIssued,
            LoanIsTracked, ExpiryOnTime
<1>2. LoansInv /\ [Next]_vars => LoansInv'
    <2> SUFFICES ASSUME LoansInv, [Next]_vars PROVE LoansInv'
        OBVIOUS
    <2>1. [CapNext]_capVars
        BY LoanStepIsCap
    <2>2. CapInv /\ CapTypeOK
        BY DEF LoansInv, CapInv
    <2>3. CapInv'
        BY <2>1, <2>2, InvNext
    <2>4. SlotStep /\ LineageStep
        BY <2>1, <2>2, StepShape
    <2>5. CASE UNCHANGED vars
        BY <2>3, <2>5 DEF vars, capVars, expiryVars, LoansInv, LoansTypeOK, LoanedOnce, LendingIsLive,
           DestroyingIsIssued, RegistryHoldsLoans, LoanIsTracked, ExpiryOnTime, Issued, Live,
           Outstanding, IsRevoked
    <2>6. ASSUME NEW s \in SlotIdx, NEW req \in SUBSET AllRights, NEW expiry \in Ticks,
                 LendForTime(HandleOf(s), req, expiry)
          PROVE  LoansInv'
        BY <2>3, <2>4, <2>6, LendKeepsLoans
    <2>7. CASE TimerTick
        BY <2>3, <2>4, <2>7, TickKeepsLoans
    <2>8. CASE PollPending
        BY <2>3, <2>4, <2>8, PollKeepsLoans
    <2>9. CASE OtherOperation
        BY <2>3, <2>4, <2>9, OtherKeepsLoans
    <2>10. ASSUME NEW loan \in lending, RegisterLoan(loan) PROVE LoansInv'
        BY <2>3, <2>4, <2>10, RegisterKeepsLoans
    <2>11. ASSUME NEW h \in toRevoke, RevokeExpired(h) PROVE LoansInv'
        BY <2>3, <2>4, <2>11, ExpireKeepsLoans
    <2> QED BY <2>5, <2>6, <2>7, <2>8, <2>9, <2>10, <2>11 DEF Next
<1> QED BY <1>1, <1>2, PTL DEF Spec

(* No loan is forgotten and none ends early, for every size of the tables   *)
(* and any timing: as long as a loan conveys authority the registry holds   *)
(* its deadline or the revoke loop its handle, and the loop holds only      *)
(* loans whose deadline has come (cap.rs: lend_with_expiry,                 *)
(* poll_pending_lend_expiries, expire_lent_capabilities).                   *)
THEOREM LoansAreSound == Spec => []LoansSound
<1>1. LoansInv => LoansSound
    BY DEF LoansInv, LoansSound
<1> QED BY <1>1, LoansInvariance, PTL
=============================================================================
