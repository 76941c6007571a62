----------------------------- MODULE AgentCache -----------------------------
(* The cache of ACP Agents and the subprocesses behind them                  *)
(* (services/agent/internal/sessioncache, services/agent/acp/manager.go,     *)
(* pkg/acp/conn.go, pool.go, maintenance.go).                                *)
(*                                                                           *)
(* Callers lease the Agent of a session.  A miss builds one in a flight that *)
(* all callers of the session share; eviction and deletion detach an Agent   *)
(* and leave its Close to whoever sees it without a lease.  Each Agent owns  *)
(* a subprocess, which the idle reaper, a maintenance of its runtime and the *)
(* shutdown close behind its back, and which the next Run replaces.  Every   *)
(* step below is one critical section, one atomic operation or one RPC.      *)
EXTENDS Naturals, Sequences, FiniteSets

CONSTANTS
    Callers,        \* goroutines that lease an Agent
    Keys,           \* sessions, the keys of the cache
    Types,          \* runtimes an Agent may be of; a session can change its own
    Capacity,       \* of the cache
    MaxAgents,      \* bound: Agents built in a behaviour
    MaxConns,       \* bound: subprocesses started in a behaviour
    MaxAsks,        \* bound: leases asked for
    MaxFaults,      \* bound: callers that give up, failing starts and sessions, ends of a subprocess
    MaxEvents       \* bound: deletions, reaps, maintenances and shutdowns

VARIABLES
    agents,         \* the Agents built so far; agents[a].cached: it is in the map
    conns,          \* the subprocesses started so far
    actor,          \* the callers, and the flight of each session
    dropping,       \* Agents that a deletion has detached and not looked at again
    maint,          \* per runtime: its credentials are being replaced
    poolClosing,    \* CloseAllConns has begun
    acSeen          \* history: leases asked for, faults and events, for the bounds

acVars == <<agents, conns, actor, dropping, maint, poolClosing, acSeen>>

Happens == acSeen.events < MaxEvents /\ acSeen' = [acSeen EXCEPT !.events = @ + 1]
Fault == acSeen.faults < MaxFaults /\ acSeen' = [acSeen EXCEPT !.faults = @ + 1]

Actors == Callers \cup Keys

Free == [pc |-> "idle", key |-> 0, type |-> 0, agent |-> 0, new |-> 0, conn |-> 0,
         round |-> 0, waiters |-> {}]

Init ==
    /\ agents = <<>>
    /\ conns = <<>>
    /\ actor = [o \in Actors |-> Free]
    /\ dropping = {}
    /\ maint = [t \in Types |-> "none"]
    /\ poolClosing = FALSE
    /\ acSeen = [asks |-> 0, events |-> 0, faults |-> 0]

At(o, pc) == actor[o].pc = pc
To(o, pc) == actor' = [actor EXCEPT ![o].pc = pc]

Box(k) == {a \in DOMAIN agents : agents[a].cached /\ agents[a].key = k}

Ref(a) == agents' = [agents EXCEPT ![a].refs = @ + 1]

Shut(as) == [a \in DOMAIN agents |->
                IF a \in as THEN [agents[a] EXCEPT !.closed = TRUE] ELSE agents[a]]

Running(a) == agents[a].running > 0
Mismatch(c) == agents[actor[c].agent].type # actor[c].type          \* RequiresRebuild

Usable(n) == conns[n].alive /\ ~conns[n].marked                     \* IsAlive

-----------------------------------------------------------------------------
(* Leasing: acpService.GetOrCreate around the cache's Get and GetOrCreate.   *)

(* Get: a hit takes its reference under the map's lock.                      *)
Ask(c, k, t) ==
    /\ acSeen.asks < MaxAsks /\ acSeen' = [acSeen EXCEPT !.asks = @ + 1]
    /\ At(c, "idle")
    /\ \/ \E a \in Box(k) :
             /\ Ref(a)
             /\ actor' = [actor EXCEPT ![c] = [Free EXCEPT !.pc = "check", !.key = k, !.type = t, !.agent = a]]
       \/ /\ Box(k) = {}
          /\ actor' = [actor EXCEPT ![c] = [Free EXCEPT !.pc = "create", !.key = k, !.type = t, !.round = 1]]
          /\ UNCHANGED agents
    /\ UNCHANGED <<conns, dropping, maint, poolClosing>>

(* An Agent of another runtime is dropped, unless it is in a Run.            *)
Check(c) ==
    /\ At(c, "check")
    /\ To(c, IF ~Mismatch(c) THEN "leased"
             ELSE IF Running(actor[c].agent) THEN "release" ELSE "rebuild")
    /\ UNCHANGED <<agents, conns, dropping, maint, poolClosing, acSeen>>

(* The cache's own look before the flight, then singleflight.                *)
CreateHit(c) ==
    /\ At(c, "create")
    /\ \E a \in Box(actor[c].key) :
          /\ Ref(a)
          /\ actor' = [actor EXCEPT ![c].pc = "check", ![c].agent = a]
    /\ UNCHANGED <<conns, dropping, maint, poolClosing, acSeen>>

CreateMiss(c) ==
    /\ At(c, "create") /\ Box(actor[c].key) = {}
    /\ To(c, "do")
    /\ UNCHANGED <<agents, conns, dropping, maint, poolClosing, acSeen>>

(* The first caller's type is what the flight builds.                        *)
Do(c) ==
    /\ At(c, "do")
    /\ LET k == actor[c].key
           flight == IF At(k, "idle")
                     THEN [Free EXCEPT !.pc = "recheck", !.key = k, !.type = actor[c].type]
                     ELSE actor[k]
       IN actor' = [actor EXCEPT ![c].pc = "wait",
                        ![k] = [flight EXCEPT !.waiters = @ \cup {c}]]
    /\ UNCHANGED <<agents, conns, dropping, maint, poolClosing, acSeen>>

(* The caller's context ends; the flight goes on.                            *)
Abandon(c) ==
    /\ Fault
    /\ At(c, "wait")
    /\ actor' = [actor EXCEPT ![c] = Free, ![actor[c].key].waiters = @ \ {c}]
    /\ UNCHANGED <<agents, conns, dropping, maint, poolClosing>>

(* Each waiter takes its own reference, or finds the Agent detached since.   *)
Take(c) ==
    /\ At(c, "take")
    /\ \/ /\ agents[actor[c].agent].cached
          /\ Ref(actor[c].agent)
          /\ To(c, "check")
       \/ /\ ~agents[actor[c].agent].cached
          /\ actor' = [actor EXCEPT ![c] = Free]
          /\ UNCHANGED agents
    /\ UNCHANGED <<conns, dropping, maint, poolClosing, acSeen>>

(* Release: decrement, then the detached flag if it was the last.            *)
Release(c) ==
    /\ actor[c].pc \in {"release", "rebuild"}
    /\ LET a == actor[c].agent
           next == IF At(c, "rebuild") THEN "delete" ELSE "idle"
       IN /\ agents' = [agents EXCEPT ![a].refs = @ - 1]
          /\ To(c, IF agents[a].refs = 1
                   THEN IF next = "idle" THEN "last" ELSE "rebuild-last" ELSE next)
    /\ UNCHANGED <<conns, dropping, maint, poolClosing, acSeen>>

ReleaseLast(c) ==
    /\ actor[c].pc \in {"last", "rebuild-last"}
    /\ agents' = IF agents[actor[c].agent].cached THEN agents ELSE Shut({actor[c].agent})
    /\ To(c, IF At(c, "last") THEN "idle" ELSE "delete")
    /\ UNCHANGED <<conns, dropping, maint, poolClosing, acSeen>>

(* Delete(key), whichever Agent is there by now; two rebuilds in a row fail. *)
AfterDelete(c) == IF actor[c].round = 2 THEN Free
                  ELSE [actor[c] EXCEPT !.pc = "create", !.agent = 0, !.round = @ + 1]

DeleteStale(c) ==
    /\ At(c, "delete")
    /\ \/ \E a \in Box(actor[c].key) :
             /\ agents' = [agents EXCEPT ![a].cached = FALSE]
             /\ actor' = [actor EXCEPT ![c].pc = "deleted", ![c].agent = a]
       \/ /\ Box(actor[c].key) = {}
          /\ actor' = [actor EXCEPT ![c] = AfterDelete(c)]
          /\ UNCHANGED agents
    /\ UNCHANGED <<conns, dropping, maint, poolClosing, acSeen>>

DeletedStale(c) ==
    /\ At(c, "deleted")
    /\ agents' = IF agents[actor[c].agent].refs = 0 THEN Shut({actor[c].agent}) ELSE agents
    /\ actor' = [actor EXCEPT ![c] = AfterDelete(c)]
    /\ UNCHANGED <<conns, dropping, maint, poolClosing, acSeen>>

Leasing(c) ==
    \/ \E k \in Keys, t \in Types : Ask(c, k, t)
    \/ Check(c) \/ CreateHit(c) \/ CreateMiss(c) \/ Do(c) \/ Abandon(c) \/ Take(c)
    \/ Release(c) \/ ReleaseLast(c) \/ DeleteStale(c) \/ DeletedStale(c)

-----------------------------------------------------------------------------
(* A subprocess, started by a flight or by a Run that found its own dead:    *)
(* NewTrackedConn, then session/new or session/resume.                       *)

Open(o) ==
    /\ At(o, "open")
    /\ LET t == actor[o].type
           refused == poolClosing \/ maint[t] # "none"
       IN \/ /\ ~refused /\ Len(conns) < MaxConns
             /\ conns' = Append(conns, [type |-> t, state |-> "starting", alive |-> TRUE,
                                        marked |-> FALSE, doomed |-> FALSE, uses |-> 0, tracked |-> FALSE])
             /\ actor' = [actor EXCEPT ![o].pc = "starting", ![o].conn = Len(conns) + 1]
          \/ /\ refused
             /\ To(o, "failed")
             /\ UNCHANGED conns
    /\ UNCHANGED <<agents, dropping, maint, poolClosing, acSeen>>

(* The handshake.  Its end registers the subprocess with the maintenance and *)
(* only then gives the creation back.                                        *)
Started(o) ==
    /\ At(o, "starting")
    /\ \/ /\ conns' = [conns EXCEPT ![actor[o].conn].state = "up"]
          /\ To(o, "track")
          /\ UNCHANGED acSeen
       \/ /\ conns' = [conns EXCEPT ![actor[o].conn].state = "up", ![actor[o].conn].alive = FALSE]
          /\ To(o, "failed")
          /\ Fault
    /\ UNCHANGED <<agents, dropping, maint, poolClosing>>

(* Mutant: the pool is only asked before the subprocess is started.          *)
TrackAlways(o) ==
    /\ At(o, "track")
    /\ conns' = [conns EXCEPT ![actor[o].conn].tracked = TRUE]
    /\ To(o, "session")
    /\ UNCHANGED <<agents, dropping, maint, poolClosing, acSeen>>

(* A shutdown that came first closes it here.                                *)
Track(o) ==
    /\ At(o, "track")
    /\ conns' = [conns EXCEPT ![actor[o].conn].tracked = ~poolClosing,
                              ![actor[o].conn].alive = @ /\ ~poolClosing]
    /\ To(o, IF poolClosing THEN "failed" ELSE "session")
    /\ UNCHANGED <<agents, dropping, maint, poolClosing, acSeen>>

Session(o) ==
    /\ At(o, "session")
    /\ \/ /\ conns[actor[o].conn].alive
          /\ To(o, "made")
          /\ UNCHANGED <<conns, acSeen>>
       \/ /\ conns' = [conns EXCEPT ![actor[o].conn].alive = FALSE]
          /\ To(o, "failed")
          /\ IF conns[actor[o].conn].alive THEN Fault ELSE UNCHANGED acSeen
    /\ UNCHANGED <<agents, dropping, maint, poolClosing>>

Opening(o) == Open(o) \/ Started(o) \/ Track(o) \/ Session(o)

-----------------------------------------------------------------------------
(* The flight of a session.                                                  *)

Land(k, a) ==
    actor' = [o \in Actors |->
        IF o = k THEN Free
        ELSE IF o \in actor[k].waiters
             THEN IF a = 0 THEN Free ELSE [actor[o] EXCEPT !.pc = "take", !.agent = a]
             ELSE actor[o]]

Recheck(k) ==
    /\ At(k, "recheck")
    /\ \/ \E a \in Box(k) : Land(k, a)
       \/ Box(k) = {} /\ To(k, "open")
    /\ UNCHANGED <<agents, conns, dropping, maint, poolClosing, acSeen>>

Idlers == {a \in DOMAIN agents : agents[a].cached /\ ~Running(a) /\ agents[a].refs = 0}

Full == Cardinality({a \in DOMAIN agents : agents[a].cached}) >= Capacity

New(k, cached) == [key |-> k, type |-> actor[k].type, conn |-> actor[k].conn, cached |-> cached,
                   closed |-> ~cached, refs |-> 0, running |-> 0, runner |-> 0]

(* Mutant: an Agent under a lease that has not entered its Run is evicted.   *)
EvictLeased(k) ==
    /\ At(k, "made") /\ Len(agents) < MaxAgents
    /\ Full
    /\ \E v \in {a \in DOMAIN agents : agents[a].cached /\ ~Running(a)} :
          /\ agents' = Append([agents EXCEPT ![v].cached = FALSE], New(k, TRUE))
          /\ actor' = [actor EXCEPT ![k].pc = "evict", ![k].agent = v, ![k].new = Len(agents) + 1]
    /\ UNCHANGED <<conns, dropping, maint, poolClosing, acSeen>>

(* Under the map's lock: an idle Agent without a lease makes room (which one *)
(* is left open: the least recently used).  Singleflight and the look before *)
(* it keep another Agent of the same session from being there.               *)
Evict(k) ==
    /\ At(k, "made") /\ Len(agents) < MaxAgents
    /\ Full
    /\ \E v \in Idlers :
          /\ agents' = Append([agents EXCEPT ![v].cached = FALSE], New(k, TRUE))
          /\ actor' = [actor EXCEPT ![k].pc = "evict", ![k].agent = v, ![k].new = Len(agents) + 1]
    /\ UNCHANGED <<conns, dropping, maint, poolClosing, acSeen>>

Insert(k) ==
    /\ At(k, "made") /\ Len(agents) < MaxAgents
    /\ ~Full
    /\ agents' = Append(agents, New(k, TRUE))
    /\ Land(k, Len(agents) + 1)
    /\ UNCHANGED <<conns, dropping, maint, poolClosing, acSeen>>

(* No room: the Agent is closed, its subprocess left to the reaper.          *)
NoRoom(k) ==
    /\ At(k, "made") /\ Len(agents) < MaxAgents
    /\ Full /\ Idlers = {}
    /\ agents' = Append(agents, New(k, FALSE))
    /\ Land(k, 0)
    /\ UNCHANGED <<conns, dropping, maint, poolClosing, acSeen>>

CloseEvicted(k) ==
    /\ At(k, "evict")
    /\ agents' = Shut({actor[k].agent})
    /\ Land(k, actor[k].new)
    /\ UNCHANGED <<conns, dropping, maint, poolClosing, acSeen>>

FlightFails(k) ==
    /\ At(k, "failed")
    /\ Land(k, 0)
    /\ UNCHANGED <<agents, conns, dropping, maint, poolClosing, acSeen>>

Flight(k) == Recheck(k) \/ Evict(k) \/ Insert(k) \/ NoRoom(k) \/ CloseEvicted(k) \/ FlightFails(k)

-----------------------------------------------------------------------------
(* A Run under a lease, or a call that needs none (SetModel).                *)

Enter(c) ==
    /\ At(c, "leased")
    /\ \/ /\ agents' = [agents EXCEPT ![actor[c].agent].running = @ + 1]
          /\ To(c, "slot")
       \/ /\ To(c, "release")
          /\ UNCHANGED agents
    /\ UNCHANGED <<conns, dropping, maint, poolClosing, acSeen>>

Leave(c, b) == [b EXCEPT !.running = @ - 1, !.runner = IF @ = c THEN 0 ELSE @]

(* runSem, or the end of the caller's context.                               *)
Slot(c) ==
    /\ At(c, "slot")
    /\ \/ /\ agents[actor[c].agent].runner = 0
          /\ agents' = [agents EXCEPT ![actor[c].agent].runner = c]
          /\ actor' = [actor EXCEPT ![c].pc = "conn", ![c].round = 1]
       \/ /\ agents' = [agents EXCEPT ![actor[c].agent] = Leave(c, @)]
          /\ To(c, "release")
    /\ UNCHANGED <<conns, dropping, maint, poolClosing, acSeen>>

(* reconnectIfNeeded.                                                        *)
Reconnect(c) ==
    /\ At(c, "conn")
    /\ To(c, IF Usable(agents[actor[c].agent].conn) THEN "acquire" ELSE "open")
    /\ UNCHANGED <<agents, conns, dropping, maint, poolClosing, acSeen>>

Reconnected(c) ==
    /\ At(c, "made")
    /\ agents' = [agents EXCEPT ![actor[c].agent].conn = actor[c].conn]
    /\ To(c, "acquire")
    /\ UNCHANGED <<conns, dropping, maint, poolClosing, acSeen>>

(* Mutant: the flag the closers set is not looked at.                        *)
AcquireMarked(c) ==
    /\ At(c, "acquire")
    /\ conns[agents[actor[c].agent].conn].alive
    /\ conns' = [conns EXCEPT ![agents[actor[c].agent].conn].uses = @ + 1]
    /\ actor' = [actor EXCEPT ![c].pc = "use", ![c].conn = agents[actor[c].agent].conn]
    /\ UNCHANGED <<agents, dropping, maint, poolClosing, acSeen>>

(* TryAcquireUse.                                                            *)
Acquire(c) ==
    /\ At(c, "acquire")
    /\ LET n == agents[actor[c].agent].conn
       IN /\ Usable(n) /\ maint[conns[n].type] = "none"
          /\ conns' = [conns EXCEPT ![n].uses = @ + 1]
          /\ actor' = [actor EXCEPT ![c].pc = "use", ![c].conn = n]
    /\ UNCHANGED <<agents, dropping, maint, poolClosing, acSeen>>

(* It fails: reconnect and try once more.                                    *)
AcquireFails(c) ==
    /\ At(c, "acquire")
    /\ LET n == agents[actor[c].agent].conn
       IN ~Usable(n) \/ maint[conns[n].type] # "none"
    /\ actor' = [actor EXCEPT ![c].pc = IF actor[c].round = 1 THEN "conn" ELSE "failed",
                              ![c].round = 2]
    /\ UNCHANGED <<agents, conns, dropping, maint, poolClosing, acSeen>>

RunEnds(c) ==
    /\ actor[c].pc \in {"use", "failed"}
    /\ conns' = IF At(c, "use") THEN [conns EXCEPT ![actor[c].conn].uses = @ - 1] ELSE conns
    /\ agents' = [agents EXCEPT ![actor[c].agent] = Leave(c, @)]
    /\ actor' = [actor EXCEPT ![c].pc = "release", ![c].conn = 0]
    /\ UNCHANGED <<dropping, maint, poolClosing, acSeen>>

Run(c) ==
    \/ Enter(c) \/ Slot(c) \/ Reconnect(c) \/ Reconnected(c)
    \/ Acquire(c) \/ AcquireFails(c) \/ RunEnds(c)

-----------------------------------------------------------------------------
(* Deletions from outside: a session's Agent, or every Agent of a runtime.   *)

Detach(as) ==
    /\ Happens
    /\ as # {}
    /\ agents' = [a \in DOMAIN agents |->
                    IF a \in as THEN [agents[a] EXCEPT !.cached = FALSE] ELSE agents[a]]
    /\ dropping' = dropping \cup as
    /\ UNCHANGED <<conns, actor, maint, poolClosing>>

(* Delete: what has left the map is closed here, or by its last Release.     *)
Delete(k) == Detach(Box(k))
DeleteByAgentIdentifiers(t) == Detach({a \in DOMAIN agents : agents[a].cached /\ agents[a].type = t})

CloseDropped(a) ==
    /\ a \in dropping
    /\ agents' = IF agents[a].refs = 0 THEN Shut({a}) ELSE agents
    /\ dropping' = dropping \ {a}
    /\ UNCHANGED <<conns, actor, maint, poolClosing, acSeen>>

-----------------------------------------------------------------------------
(* Those who close subprocesses.                                             *)

(* tryBeginIdleReap: unused for half an hour, so no actor is just opening it.*)
Reap(n) ==
    /\ Happens
    /\ conns[n].tracked
    /\ conns[n].uses = 0 /\ ~conns[n].marked
    /\ ~ \E o \in Actors : actor[o].conn = n
    /\ conns' = [conns EXCEPT ![n].tracked = FALSE, ![n].marked = conns[n].alive,
                              ![n].doomed = conns[n].alive]
    /\ UNCHANGED <<agents, actor, dropping, maint, poolClosing>>

(* BeginRuntimeMaintenance: refused while a subprocess of the runtime starts *)
(* or is in use; blocks the runtime and closes the idle ones.                *)
BeginMaintenance(t) ==
    /\ Happens
    /\ maint[t] = "none"
    /\ \A n \in DOMAIN conns : conns[n].type = t =>
          conns[n].state = "up" /\ (conns[n].alive => conns[n].uses = 0)
    /\ maint' = [maint EXCEPT ![t] = "closing"]
    /\ conns' = [n \in DOMAIN conns |->
                    IF conns[n].type = t /\ conns[n].alive
                    THEN [conns[n] EXCEPT !.marked = TRUE, !.doomed = TRUE] ELSE conns[n]]
    /\ UNCHANGED <<agents, actor, dropping, poolClosing>>

MaintenanceBegun(t) ==
    /\ maint[t] = "closing"
    /\ \A n \in DOMAIN conns : conns[n].type = t => ~(conns[n].marked /\ conns[n].alive)
    /\ maint' = [maint EXCEPT ![t] = "exclusive"]
    /\ UNCHANGED <<agents, conns, actor, dropping, poolClosing, acSeen>>

EndMaintenance(t) ==
    /\ maint[t] = "exclusive"
    /\ maint' = [maint EXCEPT ![t] = "none"]
    /\ UNCHANGED <<agents, conns, actor, dropping, poolClosing, acSeen>>

CloseAllConns ==
    /\ Happens
    /\ ~poolClosing
    /\ poolClosing' = TRUE
    /\ conns' = [n \in DOMAIN conns |->
                    IF conns[n].tracked
                    THEN [conns[n] EXCEPT !.tracked = FALSE, !.doomed = conns[n].alive] ELSE conns[n]]
    /\ UNCHANGED <<agents, actor, dropping, maint>>

(* Close, by whoever marked it or took it off the list.                      *)
CloseConn(n) ==
    /\ conns[n].doomed
    /\ conns' = [conns EXCEPT ![n].alive = FALSE, ![n].doomed = FALSE]
    /\ UNCHANGED <<agents, actor, dropping, maint, poolClosing, acSeen>>

(* A subprocess ends by itself.                                              *)
Dies(n) ==
    /\ Fault
    /\ conns[n].alive /\ conns[n].state = "up"
    /\ conns' = [conns EXCEPT ![n].alive = FALSE, ![n].doomed = FALSE]
    /\ UNCHANGED <<agents, actor, dropping, maint, poolClosing>>

Closing ==
    \/ \E n \in DOMAIN conns : Reap(n) \/ CloseConn(n) \/ Dies(n)
    \/ \E t \in Types : BeginMaintenance(t) \/ MaintenanceBegun(t) \/ EndMaintenance(t)
    \/ CloseAllConns

Next ==
    \/ \E c \in Callers : Leasing(c) \/ Run(c)
    \/ \E k \in Keys : Flight(k) \/ Delete(k)
    \/ \E o \in Actors : Opening(o)
    \/ \E t \in Types : DeleteByAgentIdentifiers(t)
    \/ \E a \in DOMAIN agents : CloseDropped(a)
    \/ Closing

Spec == Init /\ [][Next]_acVars

-----------------------------------------------------------------------------
HoldsLease(c) == actor[c].pc \in {"check", "leased", "slot", "conn", "open", "starting", "track",
                                  "session", "made", "acquire", "use", "failed", "release", "rebuild"}

(* The cache's contract (cache.go, Leases): while a lease is out its Agent is*)
(* not closed.  The code does not have it: a Release that was the last looks *)
(* at the detached flag after its decrement, and closes the Agent although a *)
(* lease and a deletion came in between.                                     *)
LeasedStaysOpen == \A c \in Callers : HoldsLease(c) => ~agents[actor[c].agent].closed

LateRelease(a) ==
    \E c \in Callers : actor[c].agent = a /\ actor[c].pc \in {"last", "rebuild-last"}
                                         /\ actor'[c].pc # actor[c].pc

(* What it does have: no eviction, no deletion and no flight closes an Agent *)
(* while a lease is out; only such a late Release can.                       *)
ClosesUnleased ==
    \A a \in DOMAIN agents :
       agents'[a].closed /\ ~agents[a].closed /\ ~LateRelease(a) =>
           ~ \E c \in Callers : HoldsLease(c) /\ actor[c].agent = a
ClosedUnleased == [][ClosesUnleased]_acVars

(* An Agent that has left the cache and that nobody leases is closed or about*)
(* to be: by the deletion, the eviction or the release that saw it last.     *)
(* A subprocess that lives is on the list of the reaper, which nobody reads  *)
(* once the shutdown has, or somebody is about to put it there or to close it*)
NothingLeaks ==
    /\ \A a \in DOMAIN agents :
          \/ agents[a].cached \/ agents[a].refs > 0 \/ agents[a].closed
          \/ a \in dropping
          \/ \E o \in Actors : actor[o].agent = a /\ actor[o].pc \in {"last", "rebuild-last", "deleted", "evict"}
    /\ \A n \in DOMAIN conns : conns[n].alive =>
          \/ conns[n].tracked /\ ~poolClosing
          \/ conns[n].doomed
          \/ \E o \in Actors : actor[o].conn = n /\ actor[o].pc \in {"starting", "track"}

(* A Run uses a subprocess of the runtime its caller asked for, whoever built*)
(* the Agent; nobody but the shutdown closes it in use; and while credentials*)
(* of a runtime are replaced no subprocess of it lives.                      *)
UseUndisturbed ==
    /\ \A c \in Callers : At(c, "use") => conns[actor[c].conn].type = actor[c].type
    /\ \A n \in DOMAIN conns : conns[n].uses > 0 => ~conns[n].marked
    /\ \A t \in Types : maint[t] = "exclusive" =>
          \A n \in DOMAIN conns : conns[n].type = t => ~conns[n].alive
=============================================================================
