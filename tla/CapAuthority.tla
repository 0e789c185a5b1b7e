---------------------------- MODULE CapAuthority ----------------------------
(***************************************************************************)
(* What the capability core promises, without slots, generations, epochs   *)
(* or limits: a set of capabilities, each with the identities it descends  *)
(* from (its own included).  Revoking a capability kills it and every      *)
(* capability derived from it at once; a transferred capability starts a   *)
(* lineage of its own.                                                     *)
(***************************************************************************)
CONSTANTS Ids, Objects, AllRights

VARIABLES
    caps,   \* the capabilities somebody holds
    dead    \* the ones among them that were revoked

Caps == [id : Ids, object : Objects, rights : SUBSET AllRights,
         lent : BOOLEAN, line : SUBSET Ids]

Fresh(id) == \A c \in caps : id \notin c.line

New(id, object, rights, lent, line) ==
    [id |-> id, object |-> object, rights |-> rights, lent |-> lent,
     line |-> line \cup {id}]

Init == caps = {} /\ dead = {}

(* A new object, whose creator holds every right.                           *)
Create(id, o) ==
    /\ Fresh(id)
    /\ \A c \in caps : c.object # o
    /\ caps' = caps \cup {New(id, o, AllRights, FALSE, {})}
    /\ UNCHANGED dead

(* Granting or lending adds a weaker capability under the parent.           *)
Derive(p, id, rights, lent) ==
    /\ Fresh(id)
    /\ p \notin dead
    /\ ~p.lent
    /\ rights \subseteq p.rights
    /\ caps' = caps \cup {New(id, p.object, rights, lent, p.line)}
    /\ UNCHANGED dead

(* Transferring replaces a capability by one nobody else can revoke.        *)
Transfer(p, id, rights) ==
    /\ Fresh(id)
    /\ p \notin dead
    /\ ~p.lent
    /\ rights \subseteq p.rights
    /\ caps' = (caps \ {p}) \cup {New(id, p.object, rights, FALSE, {})}
    /\ UNCHANGED dead

(* Closing a handle gives up the capability, not those derived from it.     *)
Drop(c) ==
    /\ caps' = caps \ {c}
    /\ dead' = dead \ {c}

(* Revoking kills the capability and its descendants, and nothing else.     *)
Revoke(c) ==
    /\ dead' = dead \cup {d \in caps : c.id \in d.line}
    /\ UNCHANGED caps

Next ==
    \/ \E id \in Ids, o \in Objects : Create(id, o)
    \/ \E c \in caps :
          \/ \E id \in Ids, rights \in SUBSET AllRights :
                \/ \E lent \in BOOLEAN : Derive(c, id, rights, lent)
                \/ Transfer(c, id, rights)
          \/ Drop(c)
          \/ Revoke(c)

Spec == Init /\ [][Next]_<<caps, dead>>
=============================================================================
