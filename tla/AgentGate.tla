------------------------------ MODULE AgentGate ------------------------------
(* One custom Agent: the gate its executions pass                             *)
(* (cmd/web/handler/agent_execution_gate.go), its deletion, restoration and   *)
(* update (agent_custom.go), and those who use it: chat turns, graph runs,    *)
(* edits of a graph run and writers of its settings.                          *)
(*                                                                            *)
(* The lifecycle and the settings are on disk, the gate and the reservation   *)
(* in memory.  The definitions of the Agent, its revisions and their          *)
(* validation are left out: a request they refuse has no effect.              *)
EXTENDS FiniteSets

CONSTANTS
    Users,      \* slots of jobs and requests that use the Agent
    Managers    \* requests that manage it

VARIABLES
    agLife,     \* lifecycle and DeleteCleanupStarted in the catalog
    agOwned,    \* what settings, workspace defaults and probe cache hold for it
    agClosed,   \* the gate's deleting
    agUse,      \* each user's step; the edit of a run's version is .edited
    agReserved, \* who has reserved the Agent
    agMgr,      \* each managing request's step; what it found; whether its endDelete
                \* counts, and keeps the gate closed; the jobs it still has to stop
    agSeen      \* history: restarts (bound: one) and failures that leave a trace

agVars == <<agLife, agOwned, agClosed, agUse, agReserved, agMgr, agSeen>>

Kinds == {"settings", "defaults", "cache"}      \* in the order they are cleared
IdleUse == [pc |-> "idle", kind |-> "none", edited |-> FALSE]
IdleMgr == [pc |-> "idle", op |-> "none", found |-> [state |-> "active", cleanup |-> FALSE],
            token |-> FALSE, keep |-> FALSE, list |-> {}]

UsePc(u) == agUse[u].pc
Leased(u) == UsePc(u) \in {"opened", "running", "resolved", "bound", "leaving", "entering", "turn", "writing"}
\* A pending or running job whose sessions or snapshots name the Agent.
Live(u) == UsePc(u) \in {"begun", "opened", "running", "bound", "graph", "entering", "turn"}

Init ==
    /\ agLife = [state |-> "active", cleanup |-> FALSE]
    /\ agOwned = Kinds
    /\ agClosed = FALSE
    /\ agUse = [u \in Users |-> IdleUse]
    /\ agReserved = "none"
    /\ agMgr = [m \in Managers |-> IdleMgr]
    /\ agSeen = [restarted |-> FALSE, unregistered |-> FALSE, unrolled |-> FALSE]

---------------------------------------------------------------------------
(* Users                                                                    *)

UseGoto(u, pc) == agUse' = [agUse EXCEPT ![u].pc = pc]
UserKeeps == UNCHANGED <<agLife, agOwned, agClosed, agReserved, agMgr, agSeen>>

\* acquireExecution, refused while the Agent is being deleted.
AcquireExecution(u, pc) == IF agClosed THEN agUse' = [agUse EXCEPT ![u] = IdleUse] ELSE UseGoto(u, pc)

\* A message sets its job running before the turn asks for the Agent.
TurnBegins(u) == UsePc(u) = "idle" /\ UseGoto(u, "begun") /\ UserKeeps
TurnAcquires(u) == UsePc(u) = "begun" /\ AcquireExecution(u, "opened") /\ UserKeeps

\* ensureSessionAgentBinding, under the lease.
TurnRuns(u) ==
    /\ UsePc(u) = "opened"
    /\ IF agLife.state = "active" THEN UseGoto(u, "running") ELSE agUse' = [agUse EXCEPT ![u] = IdleUse]
    /\ UserKeeps

\* Start or resumption of a graph run, or a new version of one: the lifecycle is
\* looked at before the lease is taken.
GraphChecks(u) ==
    /\ UsePc(u) = "idle" /\ agLife.state = "active"
    /\ \E edited \in BOOLEAN : agUse' = [agUse EXCEPT ![u].pc = "checked", ![u].edited = edited]
    /\ UserKeeps
GraphAcquires(u) == UsePc(u) = "checked" /\ AcquireExecution(u, "resolved") /\ UserKeeps

\* Mutant: a start lets go of the Agent before its job is bound.
EarlyResolve(u) == UseGoto(u, "prepared")
\* prepareRunVersion returns before the version is saved, StartRun and ResumeRun later.
AfterResolve(u) == UseGoto(u, IF agUse[u].edited THEN "prepared" ELSE "bound")

GraphBinds(u) == UsePc(u) = "resolved" /\ AfterResolve(u) /\ UserKeeps
GraphReleases(u) == UsePc(u) \in {"bound", "prepared"} /\ UseGoto(u, "graph") /\ UserKeeps
GraphTurn(u) == UsePc(u) = "graph" /\ ~agClosed /\ UseGoto(u, "entering") /\ UserKeeps
GraphTurnRuns(u) ==
    /\ UsePc(u) = "entering"
    /\ UseGoto(u, IF agLife.state = "active" THEN "turn" ELSE "graph")
    /\ UserKeeps
GraphTurnEnds(u) == UsePc(u) = "turn" /\ UseGoto(u, "graph") /\ UserKeeps

\* Preferences, a workspace's default Agent, a validation's result.
WriteBegins(u) ==
    /\ UsePc(u) = "idle" /\ ~agClosed
    /\ \E k \in Kinds : agUse' = [agUse EXCEPT ![u].pc = "writing", ![u].kind = k]
    /\ UserKeeps

WriteEnds(u) ==
    /\ UsePc(u) = "writing"
    /\ agOwned' = agOwned \cup {agUse[u].kind}
    /\ agUse' = [agUse EXCEPT ![u] = IdleUse]
    /\ UNCHANGED <<agLife, agClosed, agReserved, agMgr, agSeen>>

UseEnds(u) ==
    /\ UsePc(u) \in {"running", "graph", "leaving", "resolved", "prepared"}
    /\ agUse' = [agUse EXCEPT ![u] = IdleUse]
    /\ UserKeeps

---------------------------------------------------------------------------
(* Managing requests                                                        *)

Pc(m) == agMgr[m].pc
Goto(m, pc) == agMgr' = [agMgr EXCEPT ![m].pc = pc]

Reserve(m) == agReserved = "none" /\ agReserved' = m

ManageBegins(m) ==
    /\ Pc(m) = "idle"
    /\ Reserve(m)
    /\ \E op \in {"delete", "force", "update", "restore"} :
          agMgr' = [agMgr EXCEPT ![m] = [IdleMgr EXCEPT !.op = op,
                                          !.pc = IF op \in {"delete", "force"} THEN "begin" ELSE "read"]]
    /\ UNCHANGED <<agLife, agOwned, agClosed, agUse, agSeen>>

\* beginDelete: on a gate that is closed, what it returns does nothing.
BeginDelete(m) ==
    /\ Pc(m) = "begin"
    /\ agClosed' = TRUE
    /\ agMgr' = [agMgr EXCEPT ![m].pc = "find", ![m].token = ~agClosed]
    /\ UNCHANGED <<agLife, agOwned, agUse, agReserved, agSeen>>

\* customAgentByID and agentDeleteImpact, either of which may fail.
FindAgent(m) ==
    /\ Pc(m) = "find"
    /\ \/ Goto(m, "end")
       \/ \E pc \in {"mark", "end"} :
            agMgr' = [agMgr EXCEPT ![m].found = agLife,
                                   ![m].keep = agLife.cleanup \/ agLife.state = "deleted",
                                   ![m].pc = IF agLife.state = "deleted" THEN "end" ELSE pc]
    /\ UNCHANGED <<agLife, agOwned, agClosed, agUse, agReserved, agSeen>>

\* MutateCustom: the change is saved, or the request goes elsewhere.
Mutate(m, new, pc, failPc) ==
    \/ agLife' = new /\ Goto(m, pc)
    \/ UNCHANGED agLife /\ Goto(m, failPc)

MarkDeleting(m) ==
    /\ Pc(m) = "mark"
    /\ Mutate(m, [agLife EXCEPT !.state = "deleting"], "scan", "end")
    /\ UNCHANGED <<agOwned, agClosed, agUse, agReserved, agSeen>>

Blocking == {u \in Users : Live(u)}

\* A forced deletion stops the jobs it found and looks again; the others give up.
Look(m, forced, next, stopping) ==
    /\ \/ Goto(m, "restore")
       \/ Blocking = {} /\ Goto(m, next)
       \/ /\ Blocking # {} /\ forced
          /\ agMgr' = [agMgr EXCEPT ![m].list = Blocking, ![m].pc = stopping]
    /\ UNCHANGED <<agLife, agOwned, agClosed, agUse, agReserved, agSeen>>

\* blockingJobsForAgent before the leases have drained, and after.
Scan(m) ==
    \/ Pc(m) = "scan" /\ Look(m, agMgr[m].op = "force", "auth", "stop")
    \/ Pc(m) = "look" /\ Look(m, FALSE, "auth", "stop")
Rescan(m) ==
    \/ Pc(m) = "rescan" /\ Look(m, agMgr[m].op = "force", "cleanup", "restop")
    \/ Pc(m) = "relook" /\ Look(m, FALSE, "cleanup", "restop")

\* A stopped job lets go of the Agent; a start that has bound it has yet to return.
Stopped(u) ==
    IF UsePc(u) = "bound" THEN [agUse[u] EXCEPT !.pc = "leaving"]
    ELSE IF Live(u) THEN IdleUse ELSE agUse[u]
\* stopJobsForAgentDeletion: every job of the list is stopped and waited for.
StopJobs(m) ==
    /\ Pc(m) \in {"stop", "restop"}
    /\ LET list == agMgr[m].list IN
       \/ /\ list # {}
          /\ \E u \in list :
                /\ agUse' = [agUse EXCEPT ![u] = Stopped(u)]
                /\ agMgr' = [agMgr EXCEPT ![m].list = @ \ {u}]
       \/ list # {} /\ UNCHANGED agUse /\ agMgr' = [agMgr EXCEPT ![m].pc = "restore", ![m].list = {}]
       \/ list = {} /\ UNCHANGED agUse /\ Goto(m, IF Pc(m) = "stop" THEN "look" ELSE "relook")
    /\ UNCHANGED <<agLife, agOwned, agClosed, agReserved, agSeen>>

\* restoreCustomAgentActive, unless the cleanup had begun.
RestoreActive(m) ==
    /\ Pc(m) = "restore"
    /\ IF agMgr[m].found.cleanup
       THEN Goto(m, "end") /\ UNCHANGED agLife
       ELSE Mutate(m, [agLife EXCEPT !.state = "active"], "end", "end")
    /\ UNCHANGED <<agOwned, agClosed, agUse, agReserved, agSeen>>

\* CancelAgent of the authentication service; a failure leaves the Agent deleting.
CancelAgent(m) ==
    /\ Pc(m) = "auth"
    /\ Goto(m, "wait") \/ Goto(m, "end")
    /\ UNCHANGED <<agLife, agOwned, agClosed, agUse, agReserved, agSeen>>

Drained(m) == \A u \in Users : ~Leased(u)

WaitForExecutions(m) ==
    /\ Pc(m) = "wait"
    /\ Drained(m)
    /\ Goto(m, "rescan")
    /\ UNCHANGED <<agLife, agOwned, agClosed, agUse, agReserved, agSeen>>

StartCleanup(m) ==
    /\ Pc(m) = "cleanup"
    /\ \/ /\ agLife' = [agLife EXCEPT !.cleanup = TRUE]
          /\ agMgr' = [agMgr EXCEPT ![m].pc = "settings", ![m].keep = TRUE]
       \/ UNCHANGED agLife /\ Goto(m, "end")
    /\ UNCHANGED <<agOwned, agClosed, agUse, agReserved, agSeen>>

AfterClearing(k) == CASE k = "settings" -> "defaults" [] k = "defaults" -> "cache" [] k = "cache" -> "finish"

\* ClearAgentSettings, ClearAgentDefaults, InvalidateAgentAndPersist.
Clear(m) ==
    /\ Pc(m) \in Kinds
    /\ \/ agOwned' = agOwned \ {Pc(m)} /\ Goto(m, AfterClearing(Pc(m)))
       \/ UNCHANGED agOwned /\ Goto(m, "end")
    /\ UNCHANGED <<agLife, agClosed, agUse, agReserved, agSeen>>

FinishDelete(m) ==
    /\ Pc(m) = "finish"
    /\ Mutate(m, [agLife EXCEPT !.state = "deleted"], "end", "end")
    /\ UNCHANGED <<agOwned, agClosed, agUse, agReserved, agSeen>>

\* Mutant: the reservation is given back first, the gate left for later.
UnreservedEnd(m) ==
    IF agReserved = m
    THEN agReserved' = "none" /\ UNCHANGED <<agClosed, agMgr>>
    ELSE /\ agClosed' = IF agMgr[m].token THEN agMgr[m].keep ELSE agClosed
         /\ agMgr' = [agMgr EXCEPT ![m] = IdleMgr]
         /\ UNCHANGED agReserved
\* The deferred calls, last first: endDelete, then the reservation.
End(m) ==
    /\ agClosed' = IF agMgr[m].token THEN agMgr[m].keep ELSE agClosed
    /\ agMgr' = [agMgr EXCEPT ![m] = IdleMgr]
    /\ agReserved' = "none"

ManageEnds(m) ==
    /\ Pc(m) = "end"
    /\ End(m)
    /\ UNCHANGED <<agLife, agOwned, agUse, agSeen>>

\* upsertExistingCustomAgent: a restoration stages the environment first.
ReadForUpsert(m) ==
    /\ Pc(m) = "read"
    /\ LET wanted == IF agMgr[m].op = "restore" THEN "deleted" ELSE "active"
       IN \/ Goto(m, "end")
          \/ /\ agLife.state = wanted
             /\ Goto(m, IF agMgr[m].op = "restore" THEN "stage" ELSE "publish")
    /\ UNCHANGED <<agLife, agOwned, agClosed, agUse, agReserved, agSeen>>

\* StageACPEnvVars; .keep remembers that there was an environment before.
StageEnv(m) ==
    /\ Pc(m) = "stage"
    /\ \/ Goto(m, "end") /\ UNCHANGED agOwned
       \/ /\ agOwned' = agOwned \cup {"settings"}
          /\ agMgr' = [agMgr EXCEPT ![m].pc = "publish", ![m].keep = "settings" \in agOwned]
    /\ UNCHANGED <<agLife, agClosed, agUse, agReserved, agSeen>>

Publish(m) ==
    /\ Pc(m) = "publish"
    /\ Mutate(m, [state |-> "active", cleanup |-> FALSE], "register",
              IF agMgr[m].op = "restore" THEN "rollback" ELSE "end")
    /\ UNCHANGED <<agOwned, agClosed, agUse, agReserved, agSeen>>

\* RestoreACPEnvState.
RollbackEnv(m) ==
    /\ Pc(m) = "rollback"
    /\ Goto(m, "end")
    /\ \/ agOwned' = (IF agMgr[m].keep THEN agOwned ELSE agOwned \ {"settings"}) /\ UNCHANGED agSeen
       \/ UNCHANGED agOwned /\ agSeen' = [agSeen EXCEPT !.unrolled = TRUE]
    /\ UNCHANGED <<agLife, agClosed, agUse, agReserved>>

\* registerAgentRuntimeBinding and allow; without the first the gate stays as it is.
Register(m) ==
    /\ Pc(m) = "register"
    /\ Goto(m, "end")
    /\ \/ agClosed' = FALSE /\ agSeen' = [agSeen EXCEPT !.unregistered = FALSE]
       \/ UNCHANGED agClosed /\ agSeen' = [agSeen EXCEPT !.unregistered = TRUE]
    /\ UNCHANGED <<agLife, agOwned, agUse, agReserved>>

---------------------------------------------------------------------------
(* Restart: reconcileOrphanedAgentSettings and reconcileDeletingAgents run    *)
(* before any request is served.                                              *)

ResumeCleanup ==
    /\ agClosed' = TRUE
    /\ \E done \in {{}, {"settings"}, {"settings", "defaults"}, Kinds} :
          /\ agOwned' = agOwned \ (done \cup {"settings"})
          /\ \/ UNCHANGED agLife
             \/ done = Kinds /\ agLife' = [agLife EXCEPT !.state = "deleted"]

Restart ==
    /\ ~agSeen.restarted
    /\ agSeen' = [restarted |-> TRUE, unregistered |-> FALSE, unrolled |-> FALSE]
    /\ agUse' = [u \in Users |-> IdleUse]
    /\ agMgr' = [m \in Managers |-> IdleMgr]
    /\ agReserved' = "none"
    /\ CASE agLife.state = "active" -> agClosed' = FALSE /\ UNCHANGED <<agLife, agOwned>>
         [] agLife.state = "deleted" -> agClosed' = FALSE /\ agOwned' = agOwned \ {"settings"} /\ UNCHANGED agLife
         [] agLife.state = "deleting" /\ agLife.cleanup -> ResumeCleanup
         [] OTHER -> /\ agClosed' = FALSE
                     /\ UNCHANGED agOwned
                     /\ agLife' = [agLife EXCEPT !.state = "active"] \/ UNCHANGED agLife

Next ==
    \/ \E u \in Users :
          \/ TurnBegins(u) \/ TurnAcquires(u) \/ TurnRuns(u)
          \/ GraphChecks(u) \/ GraphAcquires(u) \/ GraphBinds(u) \/ GraphReleases(u)
          \/ GraphTurn(u) \/ GraphTurnRuns(u) \/ GraphTurnEnds(u)
          \/ WriteBegins(u) \/ WriteEnds(u) \/ UseEnds(u)
    \/ \E m \in Managers :
          \/ ManageBegins(m) \/ BeginDelete(m) \/ FindAgent(m) \/ MarkDeleting(m)
          \/ Scan(m) \/ Rescan(m) \/ StopJobs(m) \/ RestoreActive(m) \/ CancelAgent(m)
          \/ WaitForExecutions(m) \/ StartCleanup(m) \/ Clear(m) \/ FinishDelete(m) \/ ManageEnds(m)
          \/ ReadForUpsert(m) \/ StageEnv(m) \/ Publish(m) \/ RollbackEnv(m) \/ Register(m)
    \/ Restart

Spec == Init /\ [][Next]_agVars

---------------------------------------------------------------------------
(* Properties                                                               *)

CleaningUp == agLife.state = "deleting" /\ agLife.cleanup

\* From the moment the destructive cleanup is on disk nobody holds the Agent, no
\* turn runs on it, and no graph run that was started or resumed refers to it; and
\* what the cleanup has cleared is not written again before the Agent is restored
\* (or the process is restarted, when the gate forgets).
CleanupExclusive ==
    /\ CleaningUp => \A u \in Users : /\ ~Leased(u)
                                      /\ UsePc(u) = "graph" => agUse[u].edited
    /\ agLife.state = "deleted" /\ ~agSeen.restarted /\ ~agSeen.unrolled
       /\ (\A m \in Managers : agMgr[m].op # "restore" \/ Pc(m) \in {"read", "end"}) => agOwned = {}

\* Also when a graph run was given a new version that refers to the Agent.
SnapshotHoldsLease == CleaningUp => \A u \in Users : UsePc(u) # "graph"

\* No request leaves the gate against the lifecycle: closed on an active Agent,
\* which nobody could run any more, or open on one that is half deleted.
GateFollowsLifecycle ==
    /\ (\A m \in Managers : Pc(m) = "idle") /\ agLife.state = "active" /\ ~agSeen.unregistered => ~agClosed
    /\ CleaningUp => agClosed
=============================================================================
