-------------------------------- MODULE Cap --------------------------------
(***************************************************************************)
(* The capability core of the kernel (kernel/src/cap.rs): the table of     *)
(* slots that handles name, the append-only lineage of nodes through which *)
(* revocation reaches derived capabilities, and the objects that accesses  *)
(* keep alive.  Every public function of cap.rs takes the one lock STATE   *)
(* for its whole body, so every function is one action; destroy_owned      *)
(* takes the lock twice and is two.                                        *)
(*                                                                         *)
(* A call that returns an error without having changed the tables is a     *)
(* stuttering step and has no action; a call that fails after it has       *)
(* pushed a node or an object is an action (the leak is part of the code). *)
(***************************************************************************)
EXTENDS Integers, Sequences, FiniteSets

LOCAL INSTANCE TLC

CONSTANTS
    MaxCapSlots,    \* MAX_CAP_SLOTS
    MaxCapNodes,    \* MAX_CAP_NODES
    MaxCapObjects,  \* MAX_CAP_OBJECTS
    AllRights,      \* the bits of Rights::all()
    Kinds,          \* ObjectKind
    MaxEpoch,       \* u64::MAX, where saturating_add stops
    GenModulus,     \* 2^32, the width of CapSlot.generation
    Accessors       \* kernel threads that hold a CapAccess guard

ASSUME CapAssumption ==
    /\ MaxCapSlots \in Nat \ {0}
    /\ MaxCapNodes \in Nat
    /\ MaxCapObjects \in Nat
    /\ MaxEpoch \in Nat \ {0}
    /\ GenModulus \in Nat
    /\ MaxCapNodes + 1 < GenModulus
    /\ IsFiniteSet(Accessors)

VARIABLES
    slots,       \* CoreState.slots; a slot not pushed yet is a free one
    nodes,       \* CoreState.nodes, append-only
    objects,     \* CoreState.objects, append-only
    access,      \* the object each accessor's CapAccess guard refers to
    destroying,  \* handles between the two halves of destroy_owned
    retired      \* history: every handle that was closed or transferred away

capVars == <<slots, nodes, objects, access, destroying, retired>>

SlotIdx == 0 .. MaxCapSlots - 1
NodeIdx == 1 .. Len(nodes)
ObjectIdx == 1 .. Len(objects)
NoNode == 0
NoObject == 0

(* CapHandle *)
Handles == [slot : SlotIdx, gen : 0 .. GenModulus - 1]

(* CapSlot, CapNode and CapObject; the object's own generation is written  *)
(* but never read, so it is left out.                                      *)
CapSlot == [node : Nat, object : Nat, rights : SUBSET AllRights,
            gen : 0 .. GenModulus - 1, free : BOOLEAN, lent : BOOLEAN]
CapNode == [parent : Nat, epoch : 0 .. MaxEpoch]
CapObject == [kind : Kinds, refcount : Nat, valid : BOOLEAN]

-----------------------------------------------------------------------------
(* Lookups *)

HandleOf(s) == [slot |-> s, gen |-> slots[s].gen]

(* The first test of every operation: the slot is in use and the handle's   *)
(* generation is the slot's.                                                *)
Live(h) == ~slots[h.slot].free /\ slots[h.slot].gen = h.gen

ParentClosed(ns, L) ==
    \A n \in L : ns[n].parent # NoNode => ns[n].parent \in L

(* The nodes is_revoked visits from n: n, its parent, and so on to a root,  *)
(* which is the least parent-closed set that holds n.  A parent is older    *)
(* than its children, so nodes younger than n are not on the way.           *)
Lineage(ns, n) ==
    LET closed == {L \in SUBSET (1 .. n) : n \in L /\ ParentClosed(ns, L)}
    IN  {a \in 1 .. n : \A L \in closed : a \in L}

IsRevoked(n) == \E a \in Lineage(nodes, n) : nodes[a].epoch > 0

(* check_rights: live, entitled, not revoked, and the object still valid.   *)
CheckRights(h, needed) ==
    /\ Live(h)
    /\ needed \subseteq slots[h.slot].rights
    /\ ~IsRevoked(slots[h.slot].node)
    /\ objects[slots[h.slot].object].valid

(* Mutant: a revoked capability can still be derived from.                 *)
MayDeriveFromRevoked(h, req) ==
    /\ Live(h)
    /\ req \subseteq slots[h.slot].rights
    /\ ~slots[h.slot].lent

(* The checks grant, transfer and lend share before they derive.            *)
MayDerive(h, req) ==
    /\ Live(h)
    /\ req \subseteq slots[h.slot].rights
    /\ ~slots[h.slot].lent
    /\ ~IsRevoked(slots[h.slot].node)

-----------------------------------------------------------------------------
(* Slot table *)

FreeSlots == {s \in SlotIdx : slots[s].free}

(* allocate_slot takes the first free slot; a slot pushed at the end of the *)
(* vector starts at generation 1, as every slot does here.                  *)
AllocateSlot == CHOOSE s \in FreeSlots : \A t \in FreeSlots : s <= t

(* The CapSlot an operation writes; its generation is the slot's.           *)
NewCap(node, object, rights, lent) ==
    [node |-> node, object |-> object, rights |-> rights, gen |-> 0,
     free |-> FALSE, lent |-> lent]

(* The table after allocate_slot and the assignment of the new CapSlot; it  *)
(* is unchanged when allocate_slot returns Exhausted.                       *)
Install(c) ==
    IF FreeSlots = {} THEN slots
    ELSE [slots EXCEPT ![AllocateSlot] =
            [c EXCEPT !.gen = slots[AllocateSlot].gen]]

(* Mutant: the generation stays.                                            *)
FreedKeepsGeneration(table, s) == [table EXCEPT ![s].free = TRUE]

(* Freeing a slot bumps its generation, which outdates the handle.          *)
Freed(table, s) ==
    [table EXCEPT ![s].free = TRUE,
                  ![s].gen = (table[s].gen + 1) % GenModulus]

-----------------------------------------------------------------------------
(* Operations *)

CapInit ==
    /\ slots = [s \in SlotIdx |->
                  [node |-> NoNode, object |-> NoObject, rights |-> {},
                   gen |-> 1, free |-> TRUE, lent |-> FALSE]]
    /\ nodes = <<>>
    /\ objects = <<>>
    /\ access = [a \in Accessors |-> NoObject]
    /\ destroying = {}
    /\ retired = {}

(* create_object: the object and its root node are pushed before the slot   *)
(* is allocated, and stay when there is no slot.                            *)
CreateObject(kind) ==
    /\ Len(objects) < MaxCapObjects
    /\ Len(nodes) < MaxCapNodes
    /\ objects' = Append(objects, [kind |-> kind, refcount |-> 0, valid |-> TRUE])
    /\ nodes' = Append(nodes, [parent |-> NoNode, epoch |-> 0])
    /\ slots' = Install(NewCap(Len(nodes) + 1, Len(objects) + 1, AllRights, FALSE))
    /\ UNCHANGED <<access, destroying, retired>>

(* The common body of grant and lend: a child node, then a slot.            *)
Derive(h, req, lent) ==
    /\ MayDerive(h, req)
    /\ Len(nodes) < MaxCapNodes
    /\ nodes' = Append(nodes, [parent |-> slots[h.slot].node, epoch |-> 0])
    /\ slots' = Install(NewCap(Len(nodes) + 1, slots[h.slot].object,
                               slots[h.slot].rights \cap req, lent))
    /\ UNCHANGED <<objects, access, destroying, retired>>

Grant(h, req) == Derive(h, req, FALSE)

Lend(h, req) == Derive(h, req, TRUE)

(* transfer: a new root, and the source handle is closed; the new slot is   *)
(* allocated before the source's is freed, so a full table leaves the       *)
(* source as it was (and leaks the node).                                   *)
Transfer(h, req) ==
    /\ MayDerive(h, req)
    /\ Len(nodes) < MaxCapNodes
    /\ nodes' = Append(nodes, [parent |-> NoNode, epoch |-> 0])
    /\ IF FreeSlots = {}
       THEN UNCHANGED <<slots, retired>>
       ELSE /\ slots' = Freed(
                  Install(NewCap(Len(nodes) + 1, slots[h.slot].object,
                                 slots[h.slot].rights \cap req, FALSE)),
                  h.slot)
            /\ retired' = retired \cup {h}
    /\ UNCHANGED <<objects, access, destroying>>

Close(h) ==
    /\ Live(h)
    /\ slots' = Freed(slots, h.slot)
    /\ retired' = retired \cup {h}
    /\ UNCHANGED <<nodes, objects, access, destroying>>

(* Mutant: the epoch wraps around instead of saturating.                    *)
BumpEpochWrapping(n) ==
    [nodes EXCEPT ![n].epoch = (@ + 1) % (MaxEpoch + 1)]

BumpEpoch(n) ==
    [nodes EXCEPT ![n].epoch = IF @ < MaxEpoch THEN @ + 1 ELSE @]

(* revoke, and reclaim, which is the same call.                             *)
Revoke(h) ==
    /\ Live(h)
    /\ nodes' = BumpEpoch(slots[h.slot].node)
    /\ UNCHANGED <<slots, objects, access, destroying, retired>>

(* destroy_owned, first half: revoke(cap).                                  *)
DestroyOwnedRevoke(h) ==
    /\ Live(h)
    /\ h \notin destroying
    /\ nodes' = BumpEpoch(slots[h.slot].node)
    /\ destroying' = destroying \cup {h}
    /\ UNCHANGED <<slots, objects, access, retired>>

(* destroy_owned, second half: close(cap), which fails if somebody else     *)
(* closed the handle in between.                                            *)
DestroyOwnedClose(h) ==
    /\ h \in destroying
    /\ destroying' = destroying \ {h}
    /\ \/ /\ Live(h)
          /\ slots' = Freed(slots, h.slot)
          /\ retired' = retired \cup {h}
       \/ /\ ~Live(h)
          /\ UNCHANGED <<slots, retired>>
    /\ UNCHANGED <<nodes, objects, access>>

(* deref: the checks of check_rights and the claim, in one critical section.*)
Deref(a, h, flags) ==
    /\ access[a] = NoObject
    /\ CheckRights(h, flags)
    /\ objects' = [objects EXCEPT ![slots[h.slot].object].refcount = @ + 1]
    /\ access' = [access EXCEPT ![a] = slots[h.slot].object]
    /\ UNCHANGED <<slots, nodes, destroying, retired>>

(* Mutant: the first guard dropped frees the object.                        *)
ReleasedEagerly(o) ==
    IF o.valid /\ o.refcount > 0
    THEN [o EXCEPT !.refcount = @ - 1, !.valid = FALSE]
    ELSE o

(* The object after one CapAccess guard on it is dropped.                   *)
Released(o) ==
    IF o.valid /\ o.refcount > 0
    THEN [o EXCEPT !.refcount = @ - 1, !.valid = o.refcount # 1]
    ELSE o

(* CapAccess::drop *)
DropAccess(a) ==
    /\ access[a] # NoObject
    /\ objects' = [objects EXCEPT ![access[a]] = Released(@)]
    /\ access' = [access EXCEPT ![a] = NoObject]
    /\ UNCHANGED <<slots, nodes, destroying, retired>>

CapStep(h) ==
    \/ \E req \in SUBSET AllRights :
          \/ Grant(h, req)
          \/ Lend(h, req)
          \/ Transfer(h, req)
          \/ \E a \in Accessors : Deref(a, h, req)
    \/ Close(h)
    \/ Revoke(h)
    \/ DestroyOwnedRevoke(h)

CapNext ==
    \/ \E kind \in Kinds : CreateObject(kind)
    \/ \E s \in SlotIdx : CapStep(HandleOf(s))
    \/ \E h \in destroying : DestroyOwnedClose(h)
    \/ \E a \in Accessors : DropAccess(a)

CapSpec == CapInit /\ [][CapNext]_capVars

-----------------------------------------------------------------------------
(* Properties *)

Usable(h) == CheckRights(h, {})

(* Types of the tables, with the links between them that no operation may   *)
(* break: a parent node is older than its child, and a slot in use names a  *)
(* node and an object that exist.                                           *)
CapTypeOK ==
    /\ slots \in [SlotIdx -> CapSlot]
    /\ nodes \in Seq(CapNode)
    /\ Len(nodes) <= MaxCapNodes
    /\ objects \in Seq(CapObject)
    /\ access \in [Accessors -> Nat]
    /\ destroying \subseteq Handles
    /\ retired \subseteq Handles
    /\ \A n \in NodeIdx : nodes[n].parent < n
    /\ \A s \in SlotIdx : ~slots[s].free =>
          slots[s].node \in NodeIdx /\ slots[s].object \in ObjectIdx
    /\ \A a \in Accessors : access[a] # NoObject => access[a] \in ObjectIdx

(* A handle that was closed or transferred away is never accepted again,    *)
(* however often its slot is reused: the generation cannot come back,       *)
(* because every reuse of a slot consumes a node and nodes run out before   *)
(* the u32 generation does.                                                 *)
StaleHandlesStayDead == \A h \in retired : ~Live(h)

(* Every use of a slot consumed a node, so the generation of a slot stays   *)
(* below the width of the field, and a retired handle is older than its     *)
(* slot.                                                                    *)
SlotGenerations ==
    \A s \in SlotIdx :
        /\ slots[s].gen >= 1
        /\ slots[s].gen <= Len(nodes) + (IF slots[s].free THEN 1 ELSE 0)

RetiredIsOlder == \A h \in retired : h.gen < slots[h.slot].gen

(* No two capabilities share a node.                                        *)
NodesDistinct ==
    \A s, t \in SlotIdx :
        ~slots[s].free /\ ~slots[t].free /\ slots[s].node = slots[t].node
            => s = t

(* INV-9 across any number of derivations: a capability never carries more  *)
(* rights than a live capability it descends from, and always names the     *)
(* same object, even when the capabilities between them were closed.        *)
Attenuation ==
    \A s, t \in SlotIdx :
        /\ ~slots[s].free /\ ~slots[t].free
        /\ slots[t].node \in Lineage(nodes, slots[s].node)
        => /\ slots[s].rights \subseteq slots[t].rights
           /\ slots[s].object = slots[t].object

(* Lending is one level deep: nothing is ever derived from a lent           *)
(* capability, so its lender is the only one who can have to reclaim it.    *)
LentIsLeaf ==
    \A s \in SlotIdx : ~slots[s].free /\ slots[s].lent =>
        \A n \in NodeIdx : nodes[n].parent # slots[s].node

(* The invariant the proofs carry through every step.                       *)
CapInv ==
    /\ CapTypeOK
    /\ SlotGenerations
    /\ RetiredIsOlder
    /\ NodesDistinct
    /\ LentIsLeaf
    /\ Attenuation

(* The refcount that deref and CapAccess::drop keep is the number of guards *)
(* outstanding, and an object is never freed under a guard.                 *)
AccessKeepsObject ==
    \A o \in ObjectIdx :
        LET holders == {a \in Accessors : access[a] = o}
        IN  /\ objects[o].refcount = Cardinality(holders)
            /\ holders # {} => objects[o].valid

(* Revocation is final and closed under derivation: a handle that is live   *)
(* and not usable never passes check_rights again.                          *)
RevocationIsFinal ==
    [][\A h \in Handles : Live(h) /\ ~Usable(h) => ~Usable(h)']_capVars

(* The loop of is_revoked: test the node, then move to its parent.          *)
WalkRevoked[curr \in NodeIdx] ==
    \/ nodes[curr].epoch > 0
    \/ /\ nodes[curr].parent # NoNode
       /\ WalkRevoked[nodes[curr].parent]

(* The walk of is_revoked finds a bumped epoch exactly when one lies on the *)
(* lineage of the node.                                                     *)
WalkDecidesRevocation == \A n \in NodeIdx : WalkRevoked[n] <=> IsRevoked(n)

(* The counts and flags kept in the tables say what they stand for: the walk *)
(* of is_revoked finds a bumped epoch exactly when one lies on the lineage,  *)
(* and the refcount of an object is the number of guards on it, which is     *)
(* never freed under them (cap.rs: is_revoked, deref, CapAccess::drop).      *)
TablesAgree == WalkDecidesRevocation /\ AccessKeepsObject

(* RESOURCE_LIFETIME.md counts every slot as a reference that keeps the     *)
(* resource alive.  The code counts CapAccess guards only.                  *)
CapabilityKeepsObject ==
    \A s \in SlotIdx : ~slots[s].free => objects[slots[s].object].valid

-----------------------------------------------------------------------------
(* Refinement: the capabilities in the slots, and the ones that is_revoked  *)
(* refuses.                                                                 *)
Held == {s \in SlotIdx : ~slots[s].free}

CapIn(s) ==
    [id |-> slots[s].node, object |-> slots[s].object,
     rights |-> slots[s].rights, lent |-> slots[s].lent,
     line |-> Lineage(nodes, slots[s].node)]

Authority == INSTANCE CapAuthority WITH
    caps <- {CapIn(s) : s \in Held},
    dead <- {CapIn(s) : s \in {t \in Held : IsRevoked(slots[t].node)}},
    Ids <- 1 .. MaxCapNodes, Objects <- 1 .. MaxCapObjects

(* The lazy epochs and generations of cap.rs implement eager revocation:    *)
(* revoking kills a capability with everything derived from it at once, and *)
(* nothing else dies or disappears except by its holder's hand.             *)
ImplementsAuthority == Authority!Spec

(* The accessors are interchangeable.                                       *)
AccessorSymmetry == Permutations(Accessors)
=============================================================================
