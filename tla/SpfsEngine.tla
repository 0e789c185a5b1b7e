----------------------------- MODULE SpfsEngine -----------------------------
(***************************************************************************)
(* The block engine of kernel/src/fs.rs: BlockAllocator, the inodes of     *)
(* SpfsV2Engine with direct blocks and an indirect table, and the write-   *)
(* ahead log SpfsJournal.  Only the kernel's regression tests and the host *)
(* tests drive it yet.  Blocks carry no data: what matters is who points   *)
(* to them.                                                                *)
(***************************************************************************)
EXTENDS Integers, Sequences, FiniteSets, FiniteSetsExt, SequencesExt

CONSTANTS
    Inodes,
    TotalBlocks,    \* block 0 is the superblock and the null pointer
    DirectBlocks,   \* pointers in an inode
    PtrsPerBlock,   \* pointers in an indirect table
    WalRecords,     \* records that fit the log's sector
    MaxSteps        \* bound on the operations

ASSUME SpfsAssumption ==
    {TotalBlocks, DirectBlocks, PtrsPerBlock, WalRecords, MaxSteps} \subseteq Nat \ {0}

VARIABLES
    bitmap,         \* the allocated blocks
    freeBlocks,     \* BlockAllocator::free_blocks
    inode,          \* direct pointers and the indirect pointer of each inode
    tables,         \* the indirect tables by block, 0 where no block is
    journal,        \* SpfsJournal
    wal,            \* the log sector on the drive
    pending,        \* history: blocks allocated since the last commit
    reloaded,       \* history: the journal was read back from the drive
    client,         \* who uses the allocator: the engine or the journal's caller
    steps

engineVars == <<bitmap, freeBlocks, inode, tables>>
journalVars == <<journal, wal, pending, reloaded>>
spfsVars == <<engineVars, journalVars, client, steps>>

Blocks == 0 .. TotalBlocks - 1
NewJournal == [records |-> <<>>, next |-> 1, committed |-> 0]
NoTable == [i \in 1 .. PtrsPerBlock |-> 0]
EmptyInode == [direct |-> [i \in 1 .. DirectBlocks |-> 0], indirect |-> 0]

SpfsInit ==
    /\ bitmap = {0} /\ freeBlocks = TotalBlocks - 1
    /\ inode = [n \in Inodes |-> EmptyInode]
    /\ tables = [b \in Blocks |-> NoTable]
    /\ journal = NewJournal /\ wal = NewJournal
    /\ pending = {} /\ reloaded = FALSE /\ steps = 0
    /\ client \in {"engine", "journal"}

Step == steps < MaxSteps /\ steps' = steps + 1 /\ UNCHANGED client

-----------------------------------------------------------------------------
(* BlockAllocator *)

(* A set of numbers in increasing order: the i-th has i - 1 below it.       *)
Nth(S, i) == CHOOSE b \in S : Cardinality({x \in S : x < b}) = i - 1
InOrder(S) == [i \in 1 .. Cardinality(S) |-> Nth(S, i)]

(* The n lowest clear bits, or all of them.                                 *)
AllocateBlocks(n, used) ==
    LET clear == InOrder(Blocks \ used)
    IN  SubSeq(clear, 1, Min({n, Len(clear)}))

(* A bit that is clear already is not counted a second time.                *)
FreeBlock(freed) ==
    /\ bitmap' = bitmap \ freed
    /\ freeBlocks' = freeBlocks + Cardinality(freed \cap bitmap)

-----------------------------------------------------------------------------
(* SpfsV2Engine *)

(* write_file_transactional reserves every data block, then allocates the   *)
(* indirect table when the first pointer needs it.  Without a block for the *)
(* table the data blocks beyond the direct ones stay allocated and nothing  *)
(* points to them.  Pointers of an earlier, longer write are left in place. *)
WriteFileTransactional(n, needed) ==
    LET data == AllocateBlocks(needed, bitmap)
        direct == [i \in 1 .. DirectBlocks |->
                     IF i <= needed THEN data[i] ELSE inode[n].direct[i]]
        wantsTable == needed > DirectBlocks /\ inode[n].indirect = 0
        table == IF wantsTable THEN AllocateBlocks(1, bitmap \cup ToSet(data)) ELSE <<>>
        at == IF table = <<>> THEN inode[n].indirect ELSE table[1]
        entries == [i \in 1 .. PtrsPerBlock |->
                      IF DirectBlocks + i <= needed THEN data[DirectBlocks + i]
                      ELSE IF table = <<>> THEN tables[at][i] ELSE 0]
        taken == ToSet(data) \cup ToSet(table)
    IN  /\ Step
        /\ Len(data) = needed
        /\ bitmap' = bitmap \cup taken
        /\ freeBlocks' = freeBlocks - Cardinality(taken)
        /\ inode' = [inode EXCEPT ![n] = [direct |-> direct, indirect |-> at]]
        /\ tables' = IF at # 0 /\ needed > DirectBlocks
                     THEN [tables EXCEPT ![at] = entries] ELSE tables
        /\ UNCHANGED journalVars

(* ENOSPC: the staged blocks are given back.                                *)
Rollback(n, needed) ==
    LET data == AllocateBlocks(needed, bitmap)
    IN  /\ Step
        /\ Len(data) < needed
        /\ UNCHANGED <<engineVars, journalVars>>

Pointers(n) ==
    (ToSet(inode[n].direct) \cup {inode[n].indirect}
        \cup (IF inode[n].indirect # 0 THEN ToSet(tables[inode[n].indirect]) ELSE {})) \ {0}

(* Mutant: the inode keeps its pointer to the table.                        *)
ClearedKeepsTable(n) ==
    [inode EXCEPT ![n].direct = EmptyInode.direct]

Cleared(n) == [inode EXCEPT ![n] = EmptyInode]

TruncateAndReclaim(n) ==
    /\ Step
    /\ inode' = Cleared(n)
    /\ FreeBlock(Pointers(n))
    /\ tables' = IF inode[n].indirect = 0 THEN tables
                 ELSE [tables EXCEPT ![inode[n].indirect] = NoTable]
    /\ UNCHANGED journalVars

-----------------------------------------------------------------------------
(* SpfsJournal.  The caller that logs an allocation has made it.  The engine *)
(* itself does not log: no code uses it and the journal on one allocator.    *)

Logged(op, b) ==
    [journal EXCEPT !.records = Append(@, [op |-> op, block |-> b, seq |-> journal.next]),
                    !.next = @ + 1]

LogAllocBlock ==
    LET b == AllocateBlocks(1, bitmap)
    IN  /\ Step /\ b # <<>>
        /\ bitmap' = bitmap \cup ToSet(b) /\ freeBlocks' = freeBlocks - 1
        /\ journal' = Logged("alloc", b[1])
        /\ pending' = pending \cup ToSet(b)
        /\ UNCHANGED <<inode, tables, wal, reloaded>>

LogFreeBlock(b) ==
    /\ Step /\ b \in bitmap \ {0}
    /\ FreeBlock({b})
    /\ journal' = Logged("free", b)
    /\ pending' = pending \ {b}
    /\ UNCHANGED <<inode, tables, wal, reloaded>>

LogWriteInode ==
    /\ Step
    /\ journal' = Logged("inode", 0)
    /\ UNCHANGED <<engineVars, wal, pending, reloaded>>

(* commit of the latest sequence number, which must be a new one.           *)
Commit ==
    LET seq == journal.next - 1
    IN  /\ Step /\ seq > journal.committed
        /\ journal' = [journal EXCEPT
              !.committed = seq,
              !.records = Append(@, [op |-> "commit", block |-> 0, seq |-> seq])]
        /\ pending' = {}
        /\ UNCHANGED <<engineVars, wal, reloaded>>

Uncommitted(j) ==
    {r.block : r \in {x \in ToSet(j.records) : x.op = "alloc" /\ x.seq > j.committed}}

(* The records that retain keeps, in their order. *)
Retained(j) ==
    LET kept == InOrder({i \in DOMAIN j.records : j.records[i].seq <= j.committed})
    IN  [i \in 1 .. Len(kept) |-> j.records[kept[i]]]

RecoverAndRollback ==
    /\ Step
    /\ FreeBlock(Uncommitted(journal))
    /\ journal' = [journal EXCEPT !.records = Retained(journal)]
    /\ pending' = {}
    /\ UNCHANGED <<inode, tables, wal, reloaded>>

(* flush_to_disk writes the first records that fit the sector.              *)
FlushToDisk ==
    /\ Step
    /\ wal' = [journal EXCEPT !.records = SubSeq(@, 1, Min({Len(@), WalRecords}))]
    /\ UNCHANGED <<engineVars, journal, pending, reloaded>>

(* recover_from_disk into a new journal, whose numbering starts at 1.       *)
RecoverFromDisk ==
    /\ Step
    /\ journal' = [wal EXCEPT !.next = 1]
    /\ reloaded' = TRUE
    /\ UNCHANGED <<engineVars, wal, pending>>

EngineNext ==
    \E n \in Inodes :
       \/ TruncateAndReclaim(n)
       \/ \E k \in 1 .. DirectBlocks + PtrsPerBlock :
             WriteFileTransactional(n, k) \/ Rollback(n, k)

JournalNext ==
    \/ LogAllocBlock \/ LogWriteInode \/ Commit
    \/ \E b \in Blocks : LogFreeBlock(b)
    \/ RecoverAndRollback \/ FlushToDisk \/ RecoverFromDisk

SpfsNext ==
    \/ client = "engine" /\ EngineNext
    \/ client = "journal" /\ JournalNext
SpfsSpec == SpfsInit /\ [][SpfsNext]_spfsVars

-----------------------------------------------------------------------------
(* Properties *)

(* The counter that allocate_block trusts is the number of clear bits, in   *)
(* every order of writes, truncations, failures and rollbacks.              *)
SpfsTypeOK ==
    /\ bitmap \subseteq Blocks /\ 0 \in bitmap
    /\ freeBlocks = Cardinality(Blocks \ bitmap)
    /\ \A b \in Blocks : ToSet(tables[b]) \subseteq Blocks

(* No two inodes share a block, and a block that an inode points to is      *)
(* allocated: no later write can be given it.                               *)
BlocksHaveOneOwner ==
    /\ \A n \in Inodes : Pointers(n) \subseteq bitmap
    /\ \A m, n \in Inodes : m # n => Pointers(m) \cap Pointers(n) = {}

(* Recovery gives back exactly the blocks that were allocated and not freed *)
(* since the last commit, and no committed one -- as long as the journal    *)
(* was not itself read from the drive: its numbering then starts below the  *)
(* committed sequence and new records count as committed.                   *)
RollbackIsExact ==
    [][Len(journal'.records) < Len(journal.records) /\ ~reloaded'
          => bitmap \ bitmap' = pending]_spfsVars

(* The bitmap, its count of free blocks and the inodes agree: a block in use *)
(* is marked and has one owner, through writes that fail half way, removals, *)
(* journalled changes and recovery (fs.rs).                                  *)
EngineSound == SpfsTypeOK /\ BlocksHaveOneOwner
=============================================================================
