------------------------------ MODULE Services ------------------------------
(* The service manager (service.rs): services with restart policies and      *)
(* generations, the requests of services and clients, the exits it is told   *)
(* of, and the order in which services boot.                                 *)
EXTENDS Integers, Sequences, FiniteSets, SequencesExt

CONSTANTS Names,        \* names of services
          Policy,       \* name -> "always", "onfailure" or "never"
          MaxRetries, MaxPid, Clients, NBoot

VARIABLES svc,          \* the services, in the order they were registered
          started, reaped, \* pids that exist or did, pids whose exit was handled
          held,         \* client -> what lookup or reconnect last told it
          registered,       \* pid -> names it registered
          over,         \* names registered again while their process lived
          late          \* names last registered by a process whose exit was handled before
serviceVars == <<svc, started, reaped, held, registered, over, late>>

NoPid == 0
Unknown == [name |-> "none", pid |-> NoPid, gen |-> 0]
ServicesInit ==
    /\ svc = <<>> /\ started = 0 /\ reaped = {}
    /\ held = [c \in Clients |-> Unknown]
    /\ registered = [p \in 1..MaxPid |-> {}] /\ over = {} /\ late = {}

Index(name) == {i \in DOMAIN svc : svc[i].name = name}
Instance(name, policy) ==
    [name |-> name, state |-> "stopped", pid |-> NoPid, restarts |-> 0, gen |-> 1, policy |-> policy]
First(S) == CHOOSE i \in S : \A j \in S : i <= j

(* register, by the one who starts the services. *)
Define(name) ==
    /\ Index(name) = {}
    /\ svc' = Append(svc, Instance(name, Policy[name]))
    /\ UNCHANGED <<started, reaped, held, registered, over, late>>
Start ==
    /\ started < MaxPid /\ started' = started + 1
    /\ UNCHANGED <<svc, reaped, held, registered, over, late>>

Running(s, pid) == [s EXCEPT !.pid = pid, !.state = "running"]
(* SVC_OP_REGISTER: a service that is not known is defined, with the policy  *)
(* of a request, and either is made ready.  The request names the process:   *)
(* nobody asks whether it still exists.                                      *)
Register(pid, name) ==
    /\ pid <= started
    /\ LET known == IF Index(name) = {} THEN Append(svc, Instance(name, "always")) ELSE svc
           i == First({k \in DOMAIN known : known[k].name = name})
       IN /\ svc' = [known EXCEPT ![i] = Running(@, pid)]
          /\ over' = IF known[i].pid \notin {NoPid, pid} THEN over \cup {name} ELSE over
    /\ registered' = [registered EXCEPT ![pid] = @ \cup {name}]
    /\ late' = IF pid \in reaped THEN late \cup {name} ELSE late \ {name}
    /\ UNCHANGED <<started, reaped, held>>
(* SVC_OP_READY carries no name: the service is the first of the process. *)
Ready(pid) ==
    /\ \E i \in DOMAIN svc : svc[i].pid = pid
    /\ svc' = [svc EXCEPT ![First({i \in DOMAIN svc : svc[i].pid = pid})].state = "running"]
    /\ UNCHANGED <<started, reaped, held, registered, over, late>>

(* handle_process_exit: the first service of the process, and no other. *)
Restarted(s) == [s EXCEPT !.restarts = @ + 1, !.state = "restarting"]
AfterExit(s, failed) ==
    IF s.restarts >= MaxRetries THEN [s EXCEPT !.state = "failed"]
    ELSE IF s.policy = "always" \/ (s.policy = "onfailure" /\ failed) THEN Restarted(s)
    ELSE [s EXCEPT !.state = "stopped"]
(* Mutant: the generation moves on, the process stays. *)
LeftBehind(s) == [s EXCEPT !.gen = @ + 1]
Left(s) == [s EXCEPT !.pid = NoPid, !.gen = @ + 1]
Exit(pid, failed) ==
    /\ pid <= started /\ pid \notin reaped
    /\ reaped' = reaped \cup {pid}
    /\ LET mine == {i \in DOMAIN svc : svc[i].pid = pid}
       IN svc' = IF mine = {} THEN svc ELSE [svc EXCEPT ![First(mine)] = AfterExit(Left(@), failed)]
    /\ UNCHANGED <<started, held, registered, over, late>>

(* SVC_OP_LOOKUP and SVC_OP_RECONNECT: a service that runs. *)
Find(c, name) ==
    /\ \E i \in Index(name) : svc[i].state = "running" /\ svc[i].pid # NoPid
    /\ LET s == svc[First(Index(name))]
       IN held' = [held EXCEPT ![c] = [name |-> name, pid |-> s.pid, gen |-> s.gen]]
    /\ UNCHANGED <<svc, started, reaped, registered, over, late>>

ServicesNext ==
    \/ \E name \in Names : Define(name)
    \/ Start
    \/ \E pid \in 1..MaxPid : Ready(pid) \/ \E f \in BOOLEAN : Exit(pid, f)
    \/ \E pid \in 1..MaxPid, name \in Names : Register(pid, name)
    \/ \E c \in Clients, name \in Names : Find(c, name)
-----------------------------------------------------------------------------
(* The process a lookup names has not been reaped, unless it had registered  *)
(* a second service, since handle_process_exit takes down the first it       *)
(* finds, or its request was handled after its exit.                         *)
FoundIsAlive ==
    \A i \in DOMAIN svc : svc[i].state = "running" /\ svc[i].pid \in reaped
                          => Cardinality(registered[svc[i].pid]) > 1 \/ svc[i].name \in late

(* A client that holds the service's generation holds its process, or there  *)
(* is none, unless a second process registered the name over the first one's *)
(* head: the generation moves only when an exit is handled.                  *)
GenerationTells ==
    \A c \in Clients, i \in DOMAIN svc :
       held[c].name = svc[i].name /\ held[c].gen = svc[i].gen /\ svc[i].pid # NoPid
       => held[c].pid = svc[i].pid \/ svc[i].name \in over

(* A service is restarted a bounded number of times in its life, whatever    *)
(* registers or is declared ready in between.                                *)
RestartsBounded == \A i \in DOMAIN svc : svc[i].restarts <= MaxRetries
-----------------------------------------------------------------------------
(* The boot order: has_cycle and get_boot_order, over every graph of NBoot   *)
(* services.  depends[i] are the services that i names.                      *)
VARIABLE depends
Boot == 1..NBoot
BootInit == depends \in [Boot -> SUBSET Boot]

RECURSIVE Visit(_, _), VisitDeps(_, _, _)
Visit(i, st) ==
    IF i \in st.seen THEN st
    ELSE LET d == VisitDeps(i, 1, [st EXCEPT !.seen = @ \cup {i}]) IN [d EXCEPT !.order = Append(@, i)]
VisitDeps(i, j, st) ==
    IF j > NBoot THEN st ELSE VisitDeps(i, j + 1, IF j \in depends[i] THEN Visit(j, st) ELSE st)
RECURSIVE VisitFrom(_, _)
VisitFrom(i, st) == IF i > NBoot THEN st ELSE VisitFrom(i + 1, Visit(i, st))
BootOrder == VisitFrom(1, [seen |-> {}, order |-> <<>>]).order

(* dfs: a service that is being visited is met again. *)
RECURSIVE Dfs(_, _), DfsDeps(_, _, _)
Met(j, st) == j \in st.path
Dfs(i, st) ==
    LET d == DfsDeps(i, 1, [st EXCEPT !.path = @ \cup {i}])
    IN IF d.cycle THEN d ELSE [d EXCEPT !.path = @ \ {i}, !.done = @ \cup {i}]
DfsDeps(i, j, st) ==
    IF j > NBoot \/ st.cycle THEN st
    ELSE DfsDeps(i, j + 1, IF j \notin depends[i] THEN st
                           ELSE IF Met(j, st) THEN [st EXCEPT !.cycle = TRUE]
                           ELSE IF j \in st.done THEN st ELSE Dfs(j, st))
RECURSIVE DfsFrom(_, _)
DfsFrom(i, st) ==
    IF i > NBoot \/ st.cycle THEN st ELSE DfsFrom(i + 1, IF i \in st.done THEN st ELSE Dfs(i, st))
HasCycle == DfsFrom(1, [path |-> {}, done |-> {}, cycle |-> FALSE]).cycle

Suits(order) == \A i, j \in Boot : order[i] \in depends[order[j]] => i < j
Orders == {o \in [Boot -> Boot] : \A i, j \in Boot : i # j => o[i] # o[j]}

(* A cycle is reported exactly when no order of the services suits all       *)
(* dependencies; the boot order of an acyclic graph has every service once   *)
(* and each behind the services it names.                                    *)
BootIsOrdered ==
    /\ HasCycle <=> ~\E order \in Orders : Suits(order)
    /\ ~HasCycle => /\ Len(BootOrder) = NBoot /\ ToSet(BootOrder) = Boot
                    /\ Suits(BootOrder)
=============================================================================
