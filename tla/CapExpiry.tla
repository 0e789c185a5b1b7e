----------------------------- MODULE CapExpiry -----------------------------
(***************************************************************************)
(* Timed lending (kernel/src/cap.rs, "Lend Expiry Registry").              *)
(* lend_with_expiry lends under the lock of the capability tables and then *)
(* registers the deadline under another lock; the timer interrupt only     *)
(* stores its tick in an atomic; schedule() picks the tick up, removes the *)
(* expired entries from the registry and then revokes them one at a time.  *)
(* Every gap between two of these steps is open to every other operation   *)
(* on the capability tables.                                               *)
(***************************************************************************)
EXTENDS Cap

CONSTANT MaxTick    \* bound on the timer; the last tick repeats forever

ASSUME MaxTickAssumption == MaxTick \in Nat \ {0}

VARIABLES
    tick,           \* interrupts::TICK
    pendingTick,    \* LEND_EXPIRY_PENDING, 0 when there is nothing to do
    registry,       \* LEND_EXPIRIES: slot -> (generation, expiry)
    lending,        \* lend_with_expiry calls that have lent, not registered
    toRevoke,       \* handles taken out of the registry, not revoked yet
    loans           \* history: every loan returned to a caller

expiryVars == <<tick, pendingTick, registry, lending, toRevoke, loans>>
vars == <<capVars, expiryVars>>

Ticks == 1 .. MaxTick
NoEntry == [gen |-> 0, expiry |-> 0]

Init ==
    /\ CapInit
    /\ tick = 0
    /\ pendingTick = 0
    /\ registry = [s \in SlotIdx |-> NoEntry]
    /\ lending = {}
    /\ toRevoke = {}
    /\ loans = {}

(* The timer interrupt: TICK advances and mark_lend_expiry_pending stores   *)
(* it, without a lock.                                                      *)
TimerTick ==
    /\ tick' = IF tick < MaxTick THEN tick + 1 ELSE tick
    /\ pendingTick' = tick'
    /\ UNCHANGED <<capVars, registry, lending, toRevoke, loans>>

(* lend_with_expiry, first half: lend().  A full slot table is an error and *)
(* the call ends there.                                                     *)
LendForTime(h, req, expiry) ==
    /\ Lend(h, req)
    /\ lending' = IF FreeSlots = {} THEN lending
                  ELSE lending \cup {[handle |-> HandleOf(AllocateSlot),
                                      expiry |-> expiry]}
    /\ UNCHANGED <<tick, pendingTick, registry, toRevoke, loans>>

(* Mutant: an entry that is there is kept.                                  *)
RegisterLoanOnce(loan) ==
    /\ loan \in lending
    /\ lending' = lending \ {loan}
    /\ registry' = [registry EXCEPT ![loan.handle.slot] =
                       IF @ = NoEntry
                       THEN [gen |-> loan.handle.gen, expiry |-> loan.expiry]
                       ELSE @]
    /\ loans' = loans \cup {loan}
    /\ UNCHANGED <<capVars, tick, pendingTick, toRevoke>>

(* lend_with_expiry, second half: the registry entry, keyed by the slot     *)
(* alone; then the handle is returned to the caller.                        *)
RegisterLoan(loan) ==
    /\ loan \in lending
    /\ lending' = lending \ {loan}
    /\ registry' = [registry EXCEPT ![loan.handle.slot] =
                       [gen |-> loan.handle.gen, expiry |-> loan.expiry]]
    /\ loans' = loans \cup {loan}
    /\ UNCHANGED <<capVars, tick, pendingTick, toRevoke>>

(* Mutant: the deadline itself does not count.                             *)
ExpiredSlotsLate(now) ==
    {s \in SlotIdx : registry[s] # NoEntry /\ registry[s].expiry < now}

ExpiredSlots(now) ==
    {s \in SlotIdx : registry[s] # NoEntry /\ registry[s].expiry <= now}

(* poll_pending_lend_expiries as schedule() calls it: take the tick, and    *)
(* the part of expire_lent_capabilities that runs under the registry lock.  *)
PollPending ==
    /\ pendingTick # 0
    /\ pendingTick' = 0
    /\ registry' = [s \in SlotIdx |->
                      IF s \in ExpiredSlots(pendingTick) THEN NoEntry
                      ELSE registry[s]]
    /\ toRevoke' = toRevoke \cup
                     {[slot |-> s, gen |-> registry[s].gen] :
                         s \in ExpiredSlots(pendingTick)}
    /\ UNCHANGED <<capVars, tick, lending, loans>>

(* The loop of expire_lent_capabilities: revoke(handle), whose error (the   *)
(* handle was closed meanwhile) is ignored.                                 *)
RevokeExpired(h) ==
    /\ h \in toRevoke
    /\ toRevoke' = toRevoke \ {h}
    /\ \/ Revoke(h)
       \/ ~Live(h) /\ UNCHANGED capVars
    /\ UNCHANGED <<tick, pendingTick, registry, lending, loans>>

(* Any other operation, on any handle its callers have been given.          *)
Returned(h) == \A loan \in lending : loan.handle # h

OtherOperation ==
    /\ \/ \E kind \in Kinds : CreateObject(kind)
       \/ \E s \in SlotIdx : Returned(HandleOf(s)) /\ CapStep(HandleOf(s))
       \/ \E h \in destroying : DestroyOwnedClose(h)
       \/ \E a \in Accessors : DropAccess(a)
    /\ UNCHANGED expiryVars

Next ==
    \/ TimerTick
    \/ \E s \in SlotIdx, req \in SUBSET AllRights, expiry \in Ticks :
          Returned(HandleOf(s)) /\ LendForTime(HandleOf(s), req, expiry)
    \/ \E loan \in lending : RegisterLoan(loan)
    \/ PollPending
    \/ \E h \in toRevoke : RevokeExpired(h)
    \/ OtherOperation

(* The timer keeps firing, some thread keeps calling schedule(), and a      *)
(* thread in the middle of lend_with_expiry or of the revoke loop runs on.  *)
Fairness ==
    /\ WF_vars(TimerTick)
    /\ WF_vars(PollPending)
    /\ WF_vars(\E loan \in lending : RegisterLoan(loan))
    /\ WF_vars(\E h \in toRevoke : RevokeExpired(h))

Spec == Init /\ [][Next]_vars /\ Fairness

-----------------------------------------------------------------------------
(* Properties *)

Outstanding(loan) ==
    Live(loan.handle) /\ ~IsRevoked(slots[loan.handle.slot].node)

(* No loan is forgotten: as long as a loan conveys authority, the registry  *)
(* holds its deadline or the revoke loop holds its handle, whatever was     *)
(* lent, closed, reused or expired in between on the same slot.             *)
LoanIsTracked ==
    \A loan \in loans : Outstanding(loan) =>
        \/ registry[loan.handle.slot] =
              [gen |-> loan.handle.gen, expiry |-> loan.expiry]
        \/ loan.handle \in toRevoke

(* Expiry is never early and never hits another capability: every handle    *)
(* the revoke loop holds is a loan whose deadline the timer has reached.    *)
ExpiryOnTime ==
    \A h \in toRevoke : \E loan \in loans :
        loan.handle = h /\ loan.expiry <= tick

(* A loan ends: once its deadline has passed, its handle stops conveying    *)
(* authority.                                                               *)
LoansEnd ==
    \A s \in SlotIdx, g \in 1 .. MaxCapNodes, e \in Ticks :
        LET loan == [handle |-> [slot |-> s, gen |-> g], expiry |-> e]
        IN  (loan \in loans /\ tick >= e) ~> ~Outstanding(loan)

(* No loan is forgotten although its slot is closed, reused and lent again   *)
(* before the deadline, and none ends before it (cap.rs: lend_with_expiry,   *)
(* poll_pending_lend_expiries).                                              *)
LoansSound == LoanIsTracked /\ ExpiryOnTime
=============================================================================
