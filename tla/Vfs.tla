-------------------------------- MODULE Vfs --------------------------------
(***************************************************************************)
(* The file system tree of kernel/src/fs.rs, its image on the data drive,  *)
(* the descriptor table of kernel/src/fd.rs and the storage calls of       *)
(* kernel/src/syscall_storage.rs.  A path is the sequence of its parts.    *)
(* The tree is changed under the VFS lock, serialized under the lock taken *)
(* once more, and written under the drive's lock; vfsPc says between which *)
(* two of these a caller is.  Callers are preempted between them.          *)
(***************************************************************************)
EXTENDS Integers, Sequences, SequencesExt, FiniteSetsExt, Functions

CONSTANTS
    FileUsers,      \* processes and kernel tasks that use files
    Maker,          \* the process that has an IPC endpoint in its table
    EndpointFd,     \* ... under this number
    Nobody, Torn,
    Ending,         \* the processes that may exit
    Modes,          \* ways of opening: "r", "w" or "rw"
    UserPaths,      \* the paths that callers name
    Chunk,          \* what a write puts into a file
    MaxFds,         \* descriptors are 0 .. MaxFds - 1
    MaxImage,       \* the largest image that load_from_disk accepts
    MaxOffset,      \* bound on the offsets callers seek to
    MaxCalls,       \* bound on the calls that open or change a file
    MaxCrashes

ASSUME VfsAssumption ==
    /\ Maker \in FileUsers /\ EndpointFd \in 3 .. MaxFds
    /\ {MaxFds, MaxImage, MaxOffset, MaxCalls, MaxCrashes} \subseteq Nat
    /\ Nobody \notin FileUsers
    /\ \A path \in UserPaths : path \in Seq(STRING)

VARIABLES
    tree,       \* VFS: the nodes below the root
    disk,       \* the image on the drive, or Torn
    drive,      \* who holds DATA_DRIVE
    fdTable,    \* the entries of FD_TABLE that are in use, with their opener
    fdLock,     \* who holds FD_TABLE's lock
    table,      \* the descriptors each process has a capability for
    opened,     \* history: those of them that sys_open gave it
    crossed,    \* history: SYS_CLOSE of an endpoint closed a file
    vfsPc,      \* where each caller is
    touched,    \* history: paths changed since the boot
    risk,       \* history: two syncs raced or the drive failed
    calls, crashes

vfsVars == <<tree, disk, drive, fdTable, fdLock, table, opened, crossed, vfsPc, touched,
          risk, calls, crashes>>
fdVars == <<fdTable, fdLock, table, opened, crossed>>

Fds == 0 .. MaxFds - 1
Stdio == {0, 1, 2}
Idle == [at |-> "idle"]

Directory == [dir |-> TRUE, content |-> <<>>]
File(c) == [dir |-> FALSE, content |-> c]

IsDir(t, path) == path = <<>> \/ (path \in DOMAIN t /\ t[path].dir)
IsFile(t, path) == path \in DOMAIN t /\ ~t[path].dir
Put(t, key, node) == [q \in DOMAIN t \cup {key} |-> IF q = key THEN node ELSE t[q]]
ParentFound(t, path) == IsDir(t, Front(path))

Descriptor(p, path, mode) == [path |-> path, offset |-> 0, mode |-> mode, by |-> p]

-----------------------------------------------------------------------------
(* The image and the boot *)

Synthetic == {"proc", "dev"}

(* What serialize writes: of the root's children neither of these two, and  *)
(* no child of any directory with one of these names, at whatever depth.    *)
Persistent(path) ==
    \A i \in 1 .. Len(path) : path[i] \in Synthetic => i = Len(path) /\ i # 1

(* Mutant: files without content are not written.                           *)
SerializeNonEmpty(t) ==
    Restrict(t, {q \in DOMAIN t : Persistent(q) /\ (t[q].dir \/ t[q].content # <<>>)})

Serialize(t) == Restrict(t, {q \in DOMAIN t : Persistent(q)})

DefaultDirs == {<<d>> : d \in {"bin", "etc", "home", "sys", "proc", "dev"}}
SeededBinary == <<"bin", "hello">>
SeededText == <<"etc", "hostname">>

WriteFileQuiet(t, path, c) ==
    IF ParentFound(t, path) /\ ~IsDir(t, path) THEN Put(t, path, File(c)) ELSE t

(* Mutant: the text files are written at every boot.                        *)
SeedDefaultFilesAlways(t) ==
    WriteFileQuiet(WriteFileQuiet(t, SeededBinary, <<>>), SeededText, <<>>)

(* seed_default_files: the binaries' placeholders are written at each boot, *)
(* the text files only when they cannot be read.                            *)
SeedDefaultFiles(t) ==
    LET bins == WriteFileQuiet(t, SeededBinary, <<>>)
    IN  IF IsFile(bins, SeededText) THEN bins
        ELSE WriteFileQuiet(bins, SeededText, <<>>)

(* init_default_fs for a drive without an image: the directories are synced *)
(* as they are made, the seeds are not.                                     *)
InitDefaultFs == [d \in DefaultDirs |-> Directory]

(* seed_new_process gives the standard descriptors.                         *)
SeededTable ==
    [p \in FileUsers |-> Stdio \cup (IF p = Maker THEN {EndpointFd} ELSE {})]

(* FD_TABLE may already hold descriptors that processes left when they      *)
(* ended, for a file that has been removed since.                           *)
Stale == <<"home", "g">>

VfsInit ==
    /\ tree = SeedDefaultFiles(InitDefaultFs)
    /\ disk = Serialize(InitDefaultFs)
    /\ fdTable = [f \in Fds \cap Stdio |-> Descriptor(Nobody, Stale, "r")]
    /\ table = SeededTable /\ opened = [p \in FileUsers |-> {}]
    /\ vfsPc = [p \in FileUsers |-> Idle]
    /\ fdLock = Nobody /\ drive = Nobody
    /\ touched = {} /\ crossed = FALSE /\ risk = FALSE
    /\ calls = 0 /\ crashes = 0

ImageSize(t) == Cardinality(DOMAIN t) + MapThenSumSet(LAMBDA q : Len(t[q].content), DOMAIN t)

(* The size in the header is looked at before the image: one that is too    *)
(* large is given up and the default directories take its place.            *)
TooLarge(t) == ImageSize(t) > MaxImage
Accepted(t) == IF TooLarge(t) THEN InitDefaultFs ELSE t

(* A power failure and load_from_disk at the next boot.  What the loader    *)
(* makes of a half-written image is not modelled.                           *)
LoadFromDisk ==
    /\ crashes < MaxCrashes
    /\ drive = Nobody /\ disk # Torn
    /\ tree' = SeedDefaultFiles(Accepted(disk))
    /\ disk' = IF TooLarge(disk) THEN Serialize(InitDefaultFs) ELSE disk
    /\ fdTable' = <<>>
    /\ table' = SeededTable /\ opened' = [p \in FileUsers |-> {}]
    /\ vfsPc' = [p \in FileUsers |-> Idle]
    /\ fdLock' = Nobody /\ drive' = Nobody
    /\ touched' = {}
    /\ crashes' = crashes + 1
    /\ UNCHANGED <<crossed, risk, calls>>

(* ... also while a sync is writing, which leaves part of an image.         *)
CrashInWrite ==
    /\ crashes < MaxCrashes /\ drive # Nobody
    /\ disk' = Torn
    /\ crashes' = MaxCrashes /\ calls' = MaxCalls
    /\ vfsPc' = [p \in FileUsers |-> Idle]
    /\ drive' = Nobody /\ fdLock' = Nobody
    /\ risk' = TRUE
    /\ UNCHANGED <<tree, fdTable, table, opened, crossed, touched>>

-----------------------------------------------------------------------------
(* sync_to_disk *)

(* A call has changed the tree to t at the path and goes on to sync.        *)
Changed(p, t, path, then) ==
    /\ calls < MaxCalls /\ calls' = calls + 1
    /\ tree' = t
    /\ touched' = touched \cup {path}
    /\ vfsPc' = [vfsPc EXCEPT ![p] = [at |-> "sync", path |-> path, then |-> then]]
    /\ UNCHANGED <<disk, drive, risk, crashes>>

TakeSnapshot(p) ==
    /\ vfsPc[p].at = "sync"
    /\ vfsPc' = [vfsPc EXCEPT ![p] = [at |-> "snap", path |-> @.path, then |-> @.then,
                                image |-> Serialize(tree)]]
    /\ UNCHANGED <<tree, disk, drive, fdVars, touched, risk, calls, crashes>>

(* The drive is locked for all sectors.  A snapshot taken before somebody   *)
(* else's may be written after it, which is what risk records.              *)
LockDrive(p) ==
    /\ vfsPc[p].at = "snap" /\ drive = Nobody
    /\ drive' = p
    /\ risk' = (risk \/ \E q \in FileUsers \ {p} : vfsPc[q].at = "snap")
    /\ vfsPc' = [vfsPc EXCEPT ![p] = [at |-> "write", path |-> @.path, then |-> @.then,
                                image |-> @.image]]
    /\ UNCHANGED <<tree, disk, fdVars, touched, calls, crashes>>

ReleaseDrive(ok) == Nobody

SyncEnds(p, ok) ==
    /\ vfsPc[p].at = "write" /\ drive = p
    /\ drive' = ReleaseDrive(ok)
    /\ vfsPc' = [vfsPc EXCEPT ![p] =
                    IF @.then = Idle THEN Idle
                    ELSE [at |-> "synced", path |-> @.path, then |-> @.then]]
    /\ UNCHANGED <<tree, fdVars, touched, calls, crashes>>

SyncSucceeds(p) ==
    /\ SyncEnds(p, TRUE)
    /\ disk' = vfsPc[p].image
    /\ UNCHANGED risk

(* write_sector fails on the header or later; the caller sees Ok.           *)
SyncFails(p) ==
    /\ SyncEnds(p, FALSE)
    /\ disk' \in {disk, Torn}
    /\ risk' = TRUE

-----------------------------------------------------------------------------
(* Operations on the tree *)

Ready(p) == vfsPc[p] = Idle

Mkdir(p, path) ==
    /\ Ready(p)
    /\ ParentFound(tree, path) /\ path \notin DOMAIN tree
    /\ Changed(p, Put(tree, path, Directory), path, Idle)
    /\ UNCHANGED fdVars

WriteFileBytes(p, path, c) ==
    /\ Ready(p)
    /\ ParentFound(tree, path) /\ ~IsDir(tree, path)
    /\ Changed(p, Put(tree, path, File(c)), path, Idle)
    /\ UNCHANGED fdVars

Without(t, path) == Restrict(t, {q \in DOMAIN t : ~IsPrefix(path, q)})

RemoveNode(p, path) ==
    /\ Ready(p) /\ path \in DOMAIN tree
    /\ Changed(p, Without(tree, path), path, Idle)
    /\ UNCHANGED fdVars

(* dispatch_fs_request: FS_OP_OPEN with O_CREAT empties an existing file,   *)
(* FS_OP_WRITE replaces the content, whatever the offset.                   *)
DispatchFsRequest(p, path) ==
    \/ WriteFileBytes(p, path, <<>>)
    \/ WriteFileBytes(p, path, Chunk)
    \/ Mkdir(p, path)
    \/ RemoveNode(p, path)

-----------------------------------------------------------------------------
(* Descriptors *)

ReadFileFromPath(path) == path = SeededBinary
FileExists(path) == ReadFileFromPath(path) \/ path \in DOMAIN tree

FreeFd == Fds \ DOMAIN fdTable

(* add_fd_to_current fails, unnoticed, for a number that is taken.          *)
Provision(p, f) ==
    /\ table' = [table EXCEPT ![p] = @ \cup {f}]
    /\ opened' = IF f \in table[p] THEN opened
                 ELSE [opened EXCEPT ![p] = @ \cup {f}]

(* FdTable::open of a file that exists: the lowest free descriptor.         *)
SysOpen(p, path, mode) ==
    /\ Ready(p) /\ fdLock = Nobody /\ FreeFd # {}
    /\ FileExists(path)
    /\ calls < MaxCalls /\ calls' = calls + 1
    /\ fdTable' = Put(fdTable, Min(FreeFd), Descriptor(p, path, mode))
    /\ Provision(p, Min(FreeFd))
    /\ UNCHANGED <<tree, disk, drive, fdLock, crossed, vfsPc, touched, risk, crashes>>

(* With O_CREAT the file is written first, with FD_TABLE locked.            *)
SysOpenCreate(p, path, mode) ==
    /\ Ready(p) /\ fdLock = Nobody /\ FreeFd # {}
    /\ ~FileExists(path) /\ ParentFound(tree, path)
    /\ Changed(p, Put(tree, path, File(<<>>)), path, [call |-> "open", mode |-> mode])
    /\ fdLock' = p
    /\ UNCHANGED <<fdTable, table, opened, crossed>>

SysOpenReturns(p) ==
    /\ vfsPc[p].at = "synced" /\ vfsPc[p].then.call = "open"
    /\ fdTable' = Put(fdTable, Min(FreeFd), Descriptor(p, vfsPc[p].path, vfsPc[p].then.mode))
    /\ Provision(p, Min(FreeFd))
    /\ fdLock' = Nobody
    /\ vfsPc' = [vfsPc EXCEPT ![p] = Idle]
    /\ UNCHANGED <<tree, disk, drive, crossed, touched, risk, calls, crashes>>

MayUse(p, f) == Ready(p) /\ fdLock = Nobody /\ f \in table[p] \cap DOMAIN fdTable

(* FdTable::read of one byte: nothing at the end of the file.  A seeded     *)
(* binary is read from its own store, which nothing changes.                *)
SysRead(p, f) ==
    /\ MayUse(p, f) /\ fdTable[f].mode # "w"
    /\ IsFile(tree, fdTable[f].path) /\ fdTable[f].offset < Len(tree[fdTable[f].path].content)
    /\ fdTable' = [fdTable EXCEPT ![f].offset = @ + 1]
    /\ UNCHANGED <<tree, disk, drive, fdLock, table, opened, crossed, vfsPc, touched,
                   risk, calls, crashes>>

(* write_file_chunk: a hole before the offset is filled with zeros.         *)
Overwritten(c, offset, buf) ==
    [i \in 1 .. Max({Len(c), offset + Len(buf)}) |->
        CASE i \in offset + 1 .. offset + Len(buf) -> buf[i - offset]
          [] i \in 1 .. Len(c) -> c[i]
          [] OTHER -> 0]

WriteFileChunk(t, path, offset, buf) ==
    Put(t, path, File(Overwritten(IF IsFile(t, path) THEN t[path].content ELSE <<>>,
                                  offset, buf)))

(* Writes to 1 and 2 go to the terminal; a removed file comes back.         *)
SysWrite(p, f) ==
    /\ MayUse(p, f) /\ f \notin {1, 2} /\ fdTable[f].mode # "r"
    /\ fdTable[f].offset + Len(Chunk) <= MaxOffset
    /\ ParentFound(tree, fdTable[f].path) /\ ~IsDir(tree, fdTable[f].path)
    /\ Changed(p, WriteFileChunk(tree, fdTable[f].path, fdTable[f].offset, Chunk),
               fdTable[f].path, [call |-> "write", fd |-> f])
    /\ fdLock' = p
    /\ UNCHANGED <<fdTable, table, opened, crossed>>

SysWriteReturns(p) ==
    /\ vfsPc[p].at = "synced" /\ vfsPc[p].then.call = "write"
    /\ fdTable' = [fdTable EXCEPT ![vfsPc[p].then.fd].offset = @ + Len(Chunk)]
    /\ fdLock' = Nobody
    /\ vfsPc' = [vfsPc EXCEPT ![p] = Idle]
    /\ UNCHANGED <<tree, disk, drive, table, opened, crossed, touched, risk, calls,
                   crashes>>

SysLseek(p, f, offset) ==
    /\ MayUse(p, f) /\ IsFile(tree, fdTable[f].path)
    /\ fdTable' = [fdTable EXCEPT ![f].offset = offset]
    /\ UNCHANGED <<tree, disk, drive, fdLock, table, opened, crossed, vfsPc, touched,
                   risk, calls, crashes>>

(* Only an endpoint's maker has the right DESTROY that SYS_CLOSE asks for;  *)
(* the number is then closed in the global table as well.                   *)
SysClose(p) ==
    /\ Ready(p) /\ fdLock = Nobody
    /\ p = Maker /\ EndpointFd \in table[p] /\ EndpointFd \notin opened[p]
    /\ table' = [table EXCEPT ![p] = @ \ {EndpointFd}]
    /\ crossed' = (crossed \/ EndpointFd \in DOMAIN fdTable)
    /\ fdTable' = Restrict(fdTable, DOMAIN fdTable \ {EndpointFd})
    /\ UNCHANGED <<tree, disk, drive, fdLock, opened, vfsPc, touched, risk, calls, crashes>>

(* The end of a process takes its capabilities and leaves FD_TABLE alone.   *)
Exit(p) ==
    /\ Ready(p) /\ p \in Ending
    /\ table' = [table EXCEPT ![p] = {}]
    /\ opened' = [opened EXCEPT ![p] = {}]
    /\ vfsPc' = [vfsPc EXCEPT ![p] = [at |-> "exited"]]
    /\ UNCHANGED <<tree, disk, drive, fdTable, fdLock, crossed, touched, risk, calls,
                   crashes>>

-----------------------------------------------------------------------------
Returns(p) == SysOpenReturns(p) \/ SysWriteReturns(p)

VfsContinue(p) ==
    \/ TakeSnapshot(p) \/ LockDrive(p) \/ SyncSucceeds(p) \/ SyncFails(p)
    \/ Returns(p)

VfsCall(p) ==
    \/ Exit(p) \/ SysClose(p)
    \/ \E path \in UserPaths :
          \/ DispatchFsRequest(p, path)
          \/ \E mode \in Modes : SysOpen(p, path, mode) \/ SysOpenCreate(p, path, mode)
    \/ \E f \in Fds :
          \/ SysRead(p, f) \/ SysWrite(p, f)
          \/ SysLseek(p, f, MaxOffset - 1)

VfsNext ==
    \/ LoadFromDisk \/ CrashInWrite
    \/ \E p \in FileUsers : VfsCall(p) \/ VfsContinue(p)

VfsSpec == VfsInit /\ [][VfsNext]_vfsVars

-----------------------------------------------------------------------------
(* Properties *)

(* Every node has its parent: concurrent changes, removal of directories    *)
(* and reloading never leave a node that no path leads to.                  *)
TreeOK(t) == \A path \in DOMAIN t : ParentFound(t, path)

VfsTypeOK ==
    /\ TreeOK(tree) /\ (disk # Torn => TreeOK(disk))
    /\ DOMAIN fdTable \subseteq Fds /\ drive \in FileUsers \cup {Nobody}
    /\ fdLock \in FileUsers \cup {Nobody}
    /\ table \in [FileUsers -> SUBSET (0 .. MaxFds)]

(* The two trees have the same at the path.                                 *)
Agree(t, u, path) ==
    /\ path \in DOMAIN t <=> path \in DOMAIN u
    /\ path \in DOMAIN t => t[path] = u[path]

(* The paths of calls that have not returned yet, and the paths that none   *)
(* of them can change; below a directory called proc or dev nothing is.     *)
InProgress == {vfsPc[p].path : p \in {q \in FileUsers : vfsPc[q].at \in {"sync", "snap", "write"}}}
Settled == {path \in touched :
              Persistent(path) /\ \A q \in InProgress : ~IsPrefix(q, path) /\ ~IsPrefix(path, q)}

(* What a call has changed is still there after a power failure and a boot, *)
(* unless two syncs raced, the drive failed or the image has grown too      *)
(* large: the image has it and seeding leaves it.  Exceptions: what is      *)
(* below a directory called proc or dev, wherever that directory is, the    *)
(* placeholders of seeded binaries, and seeded text that was removed, which *)
(* comes back.                                                              *)
ChangesSurvive ==
    [][crashes' # crashes /\ ~risk /\ disk' # Torn /\ ~TooLarge(disk) =>
          \A path \in Settled \ {SeededBinary} :
              \/ Agree(tree, tree', path)
              \/ path = SeededText /\ path \notin DOMAIN tree]_vfsVars

(* While no sync is under way the drive has one whole tree on it, which is  *)
(* that of memory but for seeds, for races and for what is below a          *)
(* directory called proc or dev.                                            *)
ImageIsCurrent ==
    (/\ \A p \in FileUsers : vfsPc[p].at \in {"idle", "synced", "exited"}
     /\ ~risk /\ disk # Torn)
    => \A path \in touched : Persistent(path) => Agree(disk, tree, path)

(* A descriptor that open gave a process refers to the file that process    *)
(* opened, for as long as it lives: FD_TABLE is shared by all processes and *)
(* only the capability keeps them apart.                                    *)
OwnDescriptor ==
    \A p \in FileUsers : \A f \in opened[p] :
        crossed \/ (f \in DOMAIN fdTable /\ fdTable[f].by = p)

(* Every storage call returns, whoever holds the two locks.                 *)
CallsReturn == \A p \in FileUsers : []<>(vfsPc[p].at \in {"idle", "exited"})

(* What fs.rs and fd.rs keep: the trees in memory and on the drive are      *)
(* whole, the second is the first up to the exceptions of ImageIsCurrent,   *)
(* and a descriptor stays its opener's.                                     *)
FilesSound == VfsTypeOK /\ ImageIsCurrent /\ OwnDescriptor
=============================================================================
