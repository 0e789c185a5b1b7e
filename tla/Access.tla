------------------------------- MODULE Access -------------------------------
(* Who may do what: accounts and sessions (auth.rs), the two checks of file  *)
(* modes (auth.rs, security.rs), and the check of the memory a system call   *)
(* is given (sec_mem.rs).                                                    *)
EXTENDS Integers, Sequences, FiniteSets

CONSTANTS Users, MaxSessions, MaxWrong   \* wrong passwords that lock (3)

VARIABLES shadow,     \* user -> failed attempts and lock
          sessions,   \* open sessions: id and user
          nextSession,
          wrong       \* user -> wrong passwords since the last right one or registration
authVars == <<shadow, sessions, nextSession, wrong>>

Fresh == [failed |-> 0, locked |-> FALSE]
AuthInit ==
    /\ shadow = [u \in Users |-> Fresh] /\ sessions = {} /\ nextSession = 1
    /\ wrong = [u \in Users |-> 0]

(* A user that is added again has its old lock lifted. *)
AddUser(u) ==
    /\ shadow' = [shadow EXCEPT ![u] = Fresh] /\ wrong' = [wrong EXCEPT ![u] = 0]
    /\ UNCHANGED <<sessions, nextSession>>
(* One attempt more. *)
Failed(s) == [failed |-> s.failed + 1, locked |-> s.failed + 1 >= MaxWrong]
WrongPassword(u) ==
    /\ ~shadow[u].locked
    /\ shadow' = [shadow EXCEPT ![u] = Failed(@)] /\ wrong' = [wrong EXCEPT ![u] = @ + 1]
    /\ UNCHANGED <<sessions, nextSession>>
RightPassword(u) ==
    /\ ~shadow[u].locked /\ nextSession <= MaxSessions
    /\ shadow' = [shadow EXCEPT ![u].failed = 0] /\ wrong' = [wrong EXCEPT ![u] = 0]
    /\ sessions' = sessions \cup {[id |-> nextSession, user |-> u]}
    /\ nextSession' = nextSession + 1
(* Mutant: a session that ends forgives what its user got wrong since. *)
LogoutForgiving(s) ==
    /\ s \in sessions /\ sessions' = sessions \ {s}
    /\ shadow' = [shadow EXCEPT ![s.user].failed = 0]
    /\ UNCHANGED <<nextSession, wrong>>
Logout(s) ==
    /\ s \in sessions /\ sessions' = sessions \ {s}
    /\ UNCHANGED <<shadow, nextSession, wrong>>
AuthNext ==
    \/ \E u \in Users : AddUser(u) \/ WrongPassword(u) \/ RightPassword(u)
    \/ \E s \in sessions : Logout(s)

(* Three wrong passwords with no right one between them lock the account,    *)
(* whatever sessions of the user open and end meanwhile.                     *)
ThreeStrikes == \A u \in Users : shadow[u].locked <=> wrong[u] >= MaxWrong
-----------------------------------------------------------------------------
(* One request for a file: who asks, whose the file is, its mode as the      *)
(* rights of owner, group and others, and the right.  One range for a system *)
(* call: address and length, and the entries on the way to each page: of the *)
(* table of level 4, of levels 3 and 2 as one, and of level 1.               *)
CONSTANTS Uids, Gids, FileRights,
          PageBytes, UserBase, UserLimit, Top   \* USER_ADDR_BASE, USER_ADDR_LIMIT, u64::MAX

VARIABLES req, walk
accessVars == <<req, walk>>
Root == 0
Level == [user : BOOLEAN, writable : BOOLEAN, present : BOOLEAN, huge : {FALSE}]
Middle == [user : BOOLEAN, writable : BOOLEAN, present : BOOLEAN, huge : BOOLEAN]
PageOf(a) == a \div PageBytes
Pages == PageOf(UserBase)..PageOf(UserLimit - 1)
ModeInit ==
    req \in [uid : Uids, gid : Gids, groups : SUBSET Gids, fuid : Uids, fgid : Gids,
            owner : SUBSET FileRights, group : SUBSET FileRights, others : SUBSET FileRights, right : FileRights]

(* Every range over pages the process may write or only read, and every path *)
(* to the first page for a range that begins there.                          *)
Entry(u, w) == [user |-> u, writable |-> w, present |-> TRUE, huge |-> FALSE]
Open == <<Entry(TRUE, TRUE), Entry(TRUE, TRUE), Entry(TRUE, TRUE)>>
Shut == {[Open EXCEPT ![3] = Entry(TRUE, FALSE)], [Open EXCEPT ![3] = Entry(FALSE, TRUE)], [Open EXCEPT ![2].huge = TRUE]}
WalkInit ==
    walk \in [table : [Pages -> Shut \cup {Open}], ptr : 0..Top, len : 0..Top]
        \cup [table : {[[p \in Pages |-> Open] EXCEPT ![PageOf(UserBase)] = e] : e \in Level \X Middle \X Level},
              ptr : {UserBase}, len : 0..UserLimit]

(* check_posix_permission: the bits of one class, the first that fits. *)
PosixShift(r) == IF r.uid = r.fuid THEN r.owner ELSE IF r.gid = r.fgid THEN r.group ELSE r.others
CheckPosix(r) == r.uid = Root \/ r.right \in PosixShift(r)
(* check_file_mode, which knows the further groups of a user. *)
InGroup(r) == r.gid = r.fgid \/ r.fgid \in r.groups
CheckFileMode(r) ==
    \/ r.uid = Root
    \/ r.uid = r.fuid /\ r.right \in r.owner
    \/ r.uid # r.fuid /\ InGroup(r) /\ r.right \in r.group
    \/ r.uid # r.fuid /\ ~InGroup(r) /\ r.right \in r.others

(* walk_page: the flags of the last table, less WRITABLE where a table above *)
(* lacks it, and nothing where one above lacks PRESENT or USER_ACCESSIBLE or *)
(* is a huge page.                                                           *)
Seen(e) == (\A l \in 1..2 : e[l].present /\ e[l].user) /\ ~e[2].huge /\ e[3].present
UserAccessible(e) == Seen(e) /\ e[3].user
UserWritable(e) == Seen(e) /\ e[3].user /\ e[3].writable /\ e[1].writable /\ e[2].writable

(* check_user_range, of a length that is not 0. *)
PagesOf(w) == PageOf(w.ptr)..PageOf(w.ptr + w.len - 1)
CheckUserRange(w) ==
    /\ w.ptr # 0 /\ w.ptr >= UserBase /\ w.ptr < UserLimit
    /\ w.ptr + w.len <= Top /\ w.ptr + w.len <= UserLimit
    /\ \A p \in PagesOf(w) : UserAccessible(w.table[p])
(* validate_user_ptr_mut: an empty slice for a length of 0, whatever the address. *)
ValidateMut(w) == w.len = 0 \/ (CheckUserRange(w) /\ \A p \in PagesOf(w) : UserWritable(w.table[p]))

(* The two checks of a file's mode, of the account service and of the        *)
(* security manager, agree on every request of one right, unless the file    *)
(* belongs to a further group of the user's, which the first does not know.  *)
ChecksAgree == (InGroup(req) => req.gid = req.fgid) => (CheckPosix(req) <=> CheckFileMode(req))

(* The bytes a system call may write are bytes of user space that the        *)
(* processor would let the process write itself: every table on the way to   *)
(* every one of them allows it.  Where it does, with small pages and up to   *)
(* the limit of user space, the call is let through.                         *)
ProcessorWrites(e) ==
    /\ \A l \in 1..2 : e[l].present /\ e[l].user /\ e[l].writable
    /\ e[2].huge \/ (e[3].present /\ e[3].user /\ e[3].writable)
Bytes(w) == w.ptr..w.ptr + w.len - 1
KernelWritesAsUser ==
    /\ ValidateMut(walk) =>
          \A a \in Bytes(walk) : a \in UserBase..UserLimit - 1 /\ ProcessorWrites(walk.table[PageOf(a)])
    /\ (\A a \in Bytes(walk) : /\ a \in UserBase..UserLimit - 1
                               /\ ProcessorWrites(walk.table[PageOf(a)]) /\ ~walk.table[PageOf(a)][2].huge)
       => ValidateMut(walk)
=============================================================================
