--------------------------- MODULE GraphScheduler ---------------------------
(* The DAG scheduler of a GraphRun (services/graph/scheduler.go, loop.go,     *)
(* control.go, resume.go): one goroutine that owns every instance, edge and   *)
(* loop scope of the run, a bounded pool of workers that report to it, the    *)
(* control signals it takes between two results, and the resume that rebuilds *)
(* its memory from what it persisted.                                         *)
(*                                                                            *)
(* The goroutine's calls are synchronous and deeply recursive: resolveEdge    *)
(* decides a node, which may start a loop, which resolves edges.  The stack   *)
(* "todo" holds what the calls in progress still have to do, the innermost    *)
(* first; one action is one such call.  A failure returns through all of      *)
(* them, so it empties the stack.                                             *)
(*                                                                            *)
(* Every exit of the scheduler persists its memory, and GraphRun models the   *)
(* crash that loses it; here the memory and the files are one.  The values of *)
(* variables and progress counters do not decide what runs, except through    *)
(* conditions: a condition has any outcome.                                   *)
EXTENDS GraphValidate, Functions

CONSTANTS
    Workflows,  \* the graphs a run may have, see GraphValidate
    Limit,      \* RunConfig.ConcurrencyLimit
    Most(_),    \* the bounds on a run of a workflow: its failing nodes and conditions
                \* (err), its control signals and job timeouts (ctrl), ResumeRun and
                \* ContinueRun (resume), STOP_LOOP and STOP_WORKFLOW (signal)
    Editions,   \* the edits of a run: pairs of a graph and what it may be edited to
    EditAlone   \* no run is resumed while an edit of it is prepared

Main == <<>>    \* the main scope; a loop's scope is its container's key
ASSUME SchedulerAssumption ==
    /\ \A w \in Workflows \cup {d[2] : d \in Editions} : Valid(w)
    /\ Limit \in Nat \ {0} /\ EditAlone \in BOOLEAN
    /\ \A w \in Workflows : Most(w) \in [{"err", "ctrl", "resume", "signal"} -> Nat]

VARIABLES
    wf,         \* the run's workflow
    draft,      \* the edit of a run at rest that is prepared, on what was read of run.json
    status,     \* run.Status
    alive,      \* the scheduler goroutine runs
    todo,       \* the calls it is inside of
    inst,       \* instances: their status by instance key
    edge,       \* edges: their status by source, target and rounds
    rem,        \* inRemaining
    ready,      \* the ready queue
    busy,       \* the workers at each instance
    loop,       \* the loop scopes by container key
    stop,       \* stepStop or sessionStop
    batch,      \* the members of the frozen batch
    flags,      \* endReached, stopScheduling, awaitingInput, failed
    hookFired,  \* the main ends whose hook this scheduler takes as fired
    snap,       \* Resume.LoopState
    carried,    \* archived interrupted prompts with a session
    seen,       \* history: hooks fired by main end, loops broken, early success,
                \*          a run that ended without an end, loops over before an edit
    used        \* how much of each bound is used

vars == <<draft, wf, status, alive, todo, inst, edge, rem, ready, busy, loop, stop,
          batch, flags, hookFired, snap, carried, seen, used>>

---------------------------------------------------------------------------
(* Nodes, scopes and instance keys                                          *)

Rounds(w, n) == [1..Len(w.path[n]) -> 0..(w.maxRound - 1)]
KeysOf(w) == UNION {{n} \X Rounds(w, n) : n \in w.nodes}
EdgesOf(w) == UNION {{<<n, m, r>> : m \in Targets(w, n), r \in Rounds(w, n)} : n \in w.nodes}
Keys == DOMAIN inst     \* those of the run's workflow
Front(s) == SubSeq(s, 1, Len(s) - 1)

NodeKind(k) == wf.kind[k[1]]
Business(k) == NodeKind(k) \notin {"start", "end"}
IsAgent(k) == NodeKind(k) \in Agents
IsMain(k) == k[2] = <<>>
Loops == {k \in Keys : NodeKind(k) = "loop"}
MainEnds(w) == {<<n, <<>>>> : n \in {m \in w.nodes : w.kind[m] = "end" /\ w.path[m] = <<>>}}

ScopeOf(k) == IF IsMain(k) THEN Main ELSE <<wf.path[k[1]][Len(k[2])], Front(k[2])>>
Prefix(sc) == IF sc = Main THEN <<>> ELSE Append(sc[2], loop[sc].iter)
PathIn(sc) == IF sc = Main THEN <<>> ELSE Append(wf.path[sc[1]], sc[1])
Entry(sc) == CHOOSE n \in wf.nodes : wf.kind[n] = "start" /\ wf.path[n] = PathIn(sc)

InEdges(k) == {e \in DOMAIN edge : e[2] = k[1] /\ e[3] = k[2]}
InDegree(k) == Cardinality(InEdges(k))
AnyActive(k) == \E e \in InEdges(k) : edge[e] = "active"
Decided == {"succeeded", "skipped"}

\* runLimitError: the instances recorded so far against RunConfig.InstanceLimit.
OverLimit(is) == Cardinality({k \in DOMAIN is : is[k] # "none"}) > wf.limit

NoLoop == [on |-> FALSE, iter |-> 0, live |-> 0, stopReq |-> FALSE]
NoDraft == [on |-> FALSE]
NoFlags == [endReached |-> FALSE, stopSched |-> FALSE, awaiting |-> FALSE, failed |-> FALSE]

\* The calls: resolve the edges of n, decide, account for a unit that is done.
Resolve(sc, n, Act(_)) ==
    [i \in DOMAIN wf.out[n] |-> [op |-> "edge", sc |-> sc, from |-> n,
                                 to |-> wf.out[n][i].to, act |-> Act(wf.out[n][i])]]
ResolveAll(sc, n) == Resolve(sc, n, LAMBDA o : TRUE)
PruneAll(sc, n) == Resolve(sc, n, LAMBDA o : FALSE)
Call(op, sc) == <<[op |-> op, sc |-> sc]>>
Round(sc) == ResolveAll(sc, Entry(sc)) \o Call("quiesce", sc)
\* Order does not matter to the code: it ranges over a map.
Each(op, ks) == IF ks = {} THEN <<>> ELSE <<[op |-> op, sc |-> Main, keys |-> ks]>>

---------------------------------------------------------------------------
Init ==
    /\ wf \in Workflows
    /\ draft = NoDraft
    /\ status = "running"
    /\ alive = TRUE
    /\ inst = [k \in KeysOf(wf) |-> "none"]
    /\ edge = [e \in EdgesOf(wf) |-> "none"]
    /\ rem = [k \in Keys |-> InDegree(k)]
    /\ ready = <<>>
    /\ busy = [k \in Keys |-> 0]
    /\ loop = [k \in Loops |-> NoLoop]
    /\ stop = "none"
    /\ batch = {}
    /\ flags = NoFlags
    /\ hookFired = {}
    /\ snap = <<>>
    /\ carried = {}
    /\ seen = [hooks |-> [e \in MainEnds(wf) |-> 0], broke |-> {}, early |-> FALSE, noEnd |-> FALSE, over |-> {}]
    /\ used = [err |-> 0, ctrl |-> 0, resume |-> 0, signal |-> 0]
    /\ todo = ResolveAll(Main, Entry(Main))     \* seedFresh

---------------------------------------------------------------------------
(* The calls of the scheduler goroutine                                     *)

Calling(op) == alive /\ todo # <<>> /\ Head(todo).op = op
Return(calls) == todo' = calls \o Tail(todo)

\* markFailed: every caller returns, the loop leaves at its head.
Fail ==
    /\ flags' = [flags EXCEPT !.failed = TRUE]
    /\ status' = "failed"
    /\ todo' = <<>>
Error ==
    /\ used.err < Most(wf).err
    /\ used' = [used EXCEPT !.err = @ + 1]
    /\ Fail

\* Mutant: a join fires on its last in-edge but one.
HastyResolveEdge ==
    /\ Calling("edge")
    /\ LET c == Head(todo)
           t == <<c.to, Prefix(c.sc)>>
       IN /\ edge' = [edge EXCEPT ![<<c.from, c.to, Prefix(c.sc)>>] =
                          IF c.act THEN "active" ELSE "pruned"]
          /\ rem' = [rem EXCEPT ![t] = @ - 1]
          /\ Return(IF rem'[t] > 1 THEN <<>> ELSE <<[op |-> "decide", sc |-> c.sc, key |-> t]>>)
    /\ UNCHANGED <<draft, wf, status, alive, inst, ready, busy, loop, stop, batch, flags,
                   hookFired, snap, carried, seen, used>>

ResolveEdge ==
    /\ Calling("edge")
    /\ LET c == Head(todo)
           t == <<c.to, Prefix(c.sc)>>
       IN /\ edge' = [edge EXCEPT ![<<c.from, c.to, Prefix(c.sc)>>] =
                          IF c.act THEN "active" ELSE "pruned"]
          /\ rem' = [rem EXCEPT ![t] = @ - 1]
          /\ Return(IF rem'[t] > 0 THEN <<>> ELSE <<[op |-> "decide", sc |-> c.sc, key |-> t]>>)
    /\ UNCHANGED <<draft, wf, status, alive, inst, ready, busy, loop, stop, batch, flags,
                   hookFired, snap, carried, seen, used>>

Deciding(kinds) ==
    /\ Calling("decide")
    /\ inst[Head(todo).key] \notin Decided
    /\ AnyActive(Head(todo).key)
    /\ NodeKind(Head(todo).key) \in kinds

\* decide's idempotence: a reliable terminal is never decided again.
DecideAgain ==
    /\ Calling("decide")
    /\ inst[Head(todo).key] \in Decided
    /\ Return(<<>>)
    /\ UNCHANGED <<draft, wf, status, alive, inst, edge, rem, ready, busy, loop, stop, batch,
                   flags, hookFired, snap, carried, seen, used>>

PruneNode ==
    /\ Calling("decide")
    /\ LET k == Head(todo).key IN
       /\ inst[k] \notin Decided
       /\ ~AnyActive(k)
       /\ inst' = IF Business(k) THEN [inst EXCEPT ![k] = "skipped"] ELSE inst
       /\ IF Business(k) /\ OverLimit(inst')
          THEN Fail
          ELSE Return(PruneAll(Head(todo).sc, k[1])) /\ UNCHANGED <<flags, status>>
    /\ UNCHANGED <<draft, wf, alive, edge, rem, ready, busy, loop, stop, batch,
                   hookFired, snap, carried, seen, used>>

\* An end of a loop's subgraph only contributes its variables to the round.
ReachEnd ==
    /\ Deciding({"end"})
    /\ LET k == Head(todo).key IN
       IF IsMain(k)
       THEN /\ flags' = [flags EXCEPT !.endReached = TRUE]
            /\ hookFired' = hookFired \cup {k}
            /\ seen' = IF k \in hookFired THEN seen ELSE [seen EXCEPT !.hooks[k] = @ + 1]
       ELSE UNCHANGED <<flags, hookFired, seen>>
    /\ Return(<<>>)
    /\ UNCHANGED <<draft, wf, status, alive, inst, edge, rem, ready, busy, loop, stop, batch,
                   snap, carried, used>>

DecideIfElse ==
    /\ Deciding({"ifelse"})
    /\ LET k == Head(todo).key IN
       \/ /\ inst' = [inst EXCEPT ![k] = "succeeded"]
          /\ IF OverLimit(inst')
             THEN Fail
             ELSE /\ \E chosen \in {"yes", "no"} :
                        Return(Resolve(Head(todo).sc, k[1], LAMBDA o : o.port = chosen))
                  /\ UNCHANGED <<flags, status>>
          /\ UNCHANGED used
       \/ /\ inst' = [inst EXCEPT ![k] = "failed"]
          /\ Error
    /\ UNCHANGED <<draft, wf, alive, edge, rem, ready, busy, loop, stop, batch, hookFired,
                   snap, carried, seen>>

Live(sc, d) == IF sc = Main THEN loop ELSE [loop EXCEPT ![sc].live = @ + d]

Enqueue ==
    /\ Deciding(Agents \cup {"shell"})
    /\ LET k == Head(todo).key IN
       IF flags.stopSched
       THEN /\ Return(<<>>)
            /\ UNCHANGED <<inst, ready, loop, flags, status>>
       ELSE /\ inst' = [inst EXCEPT ![k] = "running"]
            /\ IF OverLimit(inst')
               THEN Fail /\ UNCHANGED <<ready, loop>>
               ELSE /\ ready' = Append(ready, k)
                    /\ loop' = Live(Head(todo).sc, 1)
                    /\ Return(<<>>)
                    /\ UNCHANGED <<flags, status>>
    /\ UNCHANGED <<draft, wf, alive, edge, rem, busy, stop, batch, hookFired, snap, carried,
                   seen, used>>

StartLoop ==
    /\ Deciding({"loop"})
    /\ LET k == Head(todo).key IN
       /\ inst' = [inst EXCEPT ![k] = "running"]
       /\ IF OverLimit(inst')
          THEN Fail /\ UNCHANGED loop
          ELSE /\ loop' = [Live(Head(todo).sc, 1) EXCEPT ![k] = [NoLoop EXCEPT !.on = TRUE]]
               /\ Return(IF wf.mode[k[1]] = "fixed" /\ wf.rounds[k[1]] = 0
                         THEN Call("finish", k)
                         ELSE Round(k))
               /\ UNCHANGED <<flags, status>>
    /\ UNCHANGED <<draft, wf, alive, edge, rem, ready, busy, stop, batch, hookFired, snap,
                   carried, seen, used>>

\* Mutant: a round ends with its first unit.
HastyIdle(sc) == flags.stopSched \/ stop = "step"

\* onScopeQuiesced.
Idle(sc) == loop[sc].live > 0 \/ flags.stopSched \/ stop = "step"

StayOpen ==
    /\ Calling("quiesce")
    /\ Idle(Head(todo).sc)
    /\ Return(<<>>)
    /\ UNCHANGED <<draft, wf, status, alive, inst, edge, rem, ready, busy, loop, stop, batch,
                   flags, hookFired, snap, carried, seen, used>>

\* A fixed loop after its last round, an until loop at its backstop.
LastRound(sc) == loop[sc].iter + 1 >= wf.rounds[sc[1]]

FinishIteration ==
    /\ Calling("quiesce")
    /\ LET sc == Head(todo).sc
           untilLoop == wf.mode[sc[1]] = "until"
       IN /\ ~Idle(sc)
          /\ \/ /\ loop[sc].stopReq \/ untilLoop \/ LastRound(sc)
                /\ Return(Call("finish", sc))
                /\ UNCHANGED loop
             \/ /\ ~loop[sc].stopReq /\ ~LastRound(sc)
                /\ loop' = [loop EXCEPT ![sc].iter = @ + 1, ![sc].live = 0]
                /\ Return(Round(sc))
    /\ UNCHANGED <<draft, wf, status, alive, inst, edge, rem, ready, busy, stop, batch,
                   flags, hookFired, snap, carried, seen, used>>

\* failLoopNode: the until condition cannot be evaluated.
FailLoopNode ==
    /\ Calling("quiesce")
    /\ LET sc == Head(todo).sc IN
       /\ ~Idle(sc)
       /\ wf.mode[sc[1]] = "until" /\ ~loop[sc].stopReq
       /\ loop' = [loop EXCEPT ![sc].on = FALSE]
       /\ inst' = [inst EXCEPT ![sc] = "failed"]
    /\ Error
    /\ UNCHANGED <<draft, wf, alive, edge, rem, ready, busy, stop, batch, hookFired, snap,
                   carried, seen>>

FinishLoop ==
    /\ Calling("finish")
    /\ LET sc == Head(todo).sc
           parent == ScopeOf(sc)
       IN /\ loop' = [loop EXCEPT ![sc].on = FALSE]
          /\ inst' = [inst EXCEPT ![sc] = "succeeded"]
          /\ Return((IF flags.stopSched THEN <<>> ELSE ResolveAll(parent, sc[1]))
                    \o Call("done", parent))
    /\ UNCHANGED <<draft, wf, status, alive, edge, rem, ready, busy, stop, batch, flags,
                   hookFired, snap, carried, seen, used>>

\* One unit of the scope is done (scope.live--), which may end its round.
UnitDone ==
    /\ Calling("done")
    /\ LET sc == Head(todo).sc IN
       /\ loop' = Live(sc, -1)
       /\ Return(IF sc = Main THEN <<>> ELSE Call("quiesce", sc))
    /\ UNCHANGED <<draft, wf, status, alive, inst, edge, rem, ready, busy, stop, batch,
                   flags, hookFired, snap, carried, seen, used>>

\* The frontier of a resume, the rounds it finds complete, and the rounds a
\* released stop held: one of them next.
TakeOne ==
    /\ alive /\ todo # <<>>
    /\ Head(todo).op \in {"frontier", "nudge", "release"}
    /\ \E k \in Head(todo).keys :
          LET op == Head(todo).op
              more == Each(op, Head(todo).keys \ {k})
          IN CASE op = "frontier" ->
                     Return(<<[op |-> "decide", sc |-> ScopeOf(k), key |-> k]>> \o more)
               [] op = "nudge" ->
                     /\ \A l \in Head(todo).keys : Len(k[2]) <= Len(l[2])
                     /\ Return(Call("quiesce", k) \o more)
               [] op = "release" ->
                     Return((IF loop[k].on THEN Call("quiesce", k) ELSE <<>>) \o more)
    /\ UNCHANGED <<draft, wf, status, alive, inst, edge, rem, ready, busy, loop, stop, batch,
                   flags, hookFired, snap, carried, seen, used>>

---------------------------------------------------------------------------
(* The session a node runs on                                               *)

\* pickInflowSession: of the upstreams that have one, the greatest node id's.
PickSession(ups) ==
    LET having == {u \in ups : u[2] # "none"}
    IN IF having = {} THEN "none"
       ELSE (CHOOSE u \in having : \A v \in having : wf.rank[v[1]] <= wf.rank[u[1]])[2]

\* What flows out of an instance, a session named after the instance that opened
\* it: an agent's own, the last round's of a loop, else what flowed in.  A round
\* starts with what the round before it ended with.
Outflow ==
    LET Active(k) == {<<e[1], e[3]>> : e \in {d \in InEdges(k) : edge[d] = "active"}}
        Ends(c, r) == {k \in Keys : /\ ~IsMain(k) /\ ScopeOf(k) = c /\ k[2][Len(k[2])] = r
                                    /\ NodeKind(k) = "end" /\ Active(k) # {}}
        Flow[k \in Keys] ==
            LET Inflow(m) == PickSession({<<u[1], Flow[u]>> : u \in Active(m)})
                RoundEnd[r \in -1..(wf.maxRound - 1), c \in Keys] ==
                    CASE r = -1 -> Inflow(c)
                      [] r >= 0 /\ Ends(c, r) = {} -> RoundEnd[r - 1, c]
                      [] OTHER -> PickSession({<<m[1], Inflow(m)>> : m \in Ends(c, r)})
            IN CASE NodeKind(k) \in {"prompt", "clarify"} -> k
                 [] NodeKind(k) = "loop" -> RoundEnd[loop[k].iter, k]
                 [] NodeKind(k) = "start" ->
                        IF IsMain(k) THEN "none"
                        ELSE RoundEnd[k[2][Len(k[2])] - 1, ScopeOf(k)]
                 [] OTHER -> Inflow(k)
    IN Flow

\* openNodeSession: a node that continues a session appends to the one flowing in.
SessionOf(k) == Outflow[k]
NoSession(k) == NodeKind(k) \in Continues /\ SessionOf(k) = "none"

---------------------------------------------------------------------------
(* The main loop: dispatch, results, controls, exits                        *)

AtLoopHead == alive /\ todo = <<>> /\ ~flags.failed

CanDispatch(k) ==
    CASE stop = "step" -> k \in batch
      [] stop = "session" /\ IsAgent(k) -> NodeKind(k) \in Continues \/ k \in carried
      [] OTHER -> TRUE

InFlight == SumFunction(busy)
Dispatchable == {i \in DOMAIN ready : CanDispatch(ready[i])}
Slots == Limit - InFlight
MayDispatch == Dispatchable # {} /\ Slots > 0

RemoveIndices(s, is) ==
    LET kept == (DOMAIN s) \ is
        Rank(i) == Cardinality({j \in kept : j <= i})
    IN [n \in 1..Cardinality(kept) |-> s[CHOOSE i \in kept : Rank(i) = n]]

\* The inner dispatch loop: the first dispatchable items, while a slot is free.
Dispatch ==
    /\ AtLoopHead
    /\ MayDispatch
    /\ LET go == {i \in Dispatchable : Cardinality({j \in Dispatchable : j < i}) < Slots}
       IN /\ busy' = [k \in Keys |-> busy[k] + Cardinality({i \in go : ready[i] = k})]
          /\ ready' = RemoveIndices(ready, go)
    /\ UNCHANGED <<draft, wf, status, alive, todo, inst, edge, rem, loop, stop, batch, flags,
                   hookFired, snap, carried, seen, used>>

\* handleResult.
Reported(k) ==
    /\ AtLoopHead
    /\ ~MayDispatch
    /\ busy[k] > 0
    /\ busy' = [busy EXCEPT ![k] = @ - 1]

ResultOK(k) ==
    /\ Reported(k)
    /\ NodeKind(k) \notin Clarify /\ ~NoSession(k)
    /\ inst' = [inst EXCEPT ![k] = "succeeded"]
    /\ todo' = (IF flags.stopSched THEN <<>> ELSE ResolveAll(ScopeOf(k), k[1]))
               \o Call("done", ScopeOf(k))
    /\ UNCHANGED <<draft, wf, status, alive, edge, rem, ready, loop, stop, batch, flags,
                   hookFired, snap, carried, seen, used>>

\* A clarify node parks: its out-edges are held for the discussion.
ResultAwaiting(k) ==
    /\ Reported(k)
    /\ NodeKind(k) \in Clarify /\ ~NoSession(k)
    /\ inst' = [inst EXCEPT ![k] = "awaitingInput"]
    /\ flags' = [flags EXCEPT !.awaiting = TRUE]
    /\ UNCHANGED <<draft, wf, status, alive, todo, edge, rem, ready, loop, stop, batch,
                   hookFired, snap, carried, seen, used>>

Signalled ==
    /\ used.signal < Most(wf).signal
    /\ used' = [used EXCEPT !.signal = @ + 1]

ResultStopWorkflow(k) ==
    /\ Reported(k)
    /\ NodeKind(k) = "shell"
    /\ Signalled
    /\ inst' = [inst EXCEPT ![k] = "succeeded"]
    /\ flags' = [flags EXCEPT !.stopSched = TRUE, !.endReached = TRUE]
    /\ ready' = <<>>
    /\ loop' = Live(ScopeOf(k), -1)
    /\ seen' = [seen EXCEPT !.early = TRUE]
    /\ UNCHANGED <<draft, wf, status, alive, todo, edge, rem, stop, batch, hookFired, snap,
                   carried>>

\* STOP_LOOP outside a loop is an ordinary success.
ResultStopLoop(k) ==
    /\ Reported(k)
    /\ NodeKind(k) = "shell" /\ ~IsMain(k)
    /\ Signalled
    /\ inst' = [inst EXCEPT ![k] = "succeeded"]
    /\ loop' = [loop EXCEPT ![ScopeOf(k)].stopReq = TRUE]
    /\ todo' = PruneAll(ScopeOf(k), k[1]) \o Call("done", ScopeOf(k))
    /\ seen' = [seen EXCEPT !.broke = @ \cup {<<ScopeOf(k), loop[ScopeOf(k)].iter>>}]
    /\ UNCHANGED <<draft, wf, status, alive, edge, rem, ready, stop, batch, flags, hookFired,
                   snap, carried>>

\* failInstance.
ResultFailed(k) ==
    /\ Reported(k)
    /\ inst' = [inst EXCEPT ![k] = "failed"]
    /\ Error
    /\ UNCHANGED <<draft, wf, alive, edge, rem, ready, loop, stop, batch, hookFired, snap,
                   carried, seen>>

ResultNoSession(k) ==
    /\ Reported(k)
    /\ NoSession(k)
    /\ inst' = [inst EXCEPT ![k] = "failed"]
    /\ Fail
    /\ UNCHANGED <<draft, wf, alive, edge, rem, ready, loop, stop, batch, hookFired, snap,
                   carried, seen, used>>

---------------------------------------------------------------------------
(* Controls                                                                 *)

Controlled ==
    /\ AtLoopHead
    /\ used.ctrl < Most(wf).ctrl
    /\ used' = [used EXCEPT !.ctrl = @ + 1]

\* releaseStoppedLoops.
Release == todo' = Each("release", {k \in Loops : loop[k].on /\ loop[k].live = 0})

\* applyGracefulSignal, with freezeCurrentBatch.
StepStop ==
    /\ Controlled
    /\ stop # "step"
    /\ stop' = "step"
    /\ status' = "stepStopping"
    /\ batch' = {k \in Keys : inst[k] = "running" /\ Business(k)}
    /\ UNCHANGED <<draft, wf, alive, todo, inst, edge, rem, ready, busy, loop, flags,
                   hookFired, snap, carried, seen>>

SessionStop ==
    /\ Controlled
    /\ stop # "session"
    /\ stop' = "session"
    /\ status' = "sessionStopping"
    /\ batch' = {}
    /\ Release
    /\ UNCHANGED <<draft, wf, alive, inst, edge, rem, ready, busy, loop, flags, hookFired,
                   snap, carried, seen>>

\* cancelGracefulSignal.
CancelStop ==
    /\ Controlled
    /\ stop # "none"
    /\ stop' = "none"
    /\ status' = "running"
    /\ batch' = {}
    /\ Release
    /\ UNCHANGED <<draft, wf, alive, inst, edge, rem, ready, busy, loop, flags, hookFired,
                   snap, carried, seen>>

---------------------------------------------------------------------------
(* The exits                                                                *)

\* drain: the results of the workers still out are dropped.
Exit ==
    /\ alive' = FALSE
    /\ busy' = [k \in Keys |-> 0]
    /\ ready' = <<>>
    /\ UNCHANGED <<draft, wf, todo, edge, rem, loop, stop, batch, hookFired, carried>>

\* Mutant: every recorded instance is interrupted.
AllInterrupted == [k \in Keys |-> IF inst[k] # "none" THEN "interrupted" ELSE inst[k]]
Interrupted == [k \in Keys |-> IF inst[k] = "running" THEN "interrupted" ELSE inst[k]]
\* rollbackUndispatched.
RolledBack == [k \in Keys |-> IF inst[k] = "running" /\ \E i \in DOMAIN ready : ready[i] = k
                              THEN "none" ELSE inst[k]]
\* Mutant: the loop, but not its round.
FirstRoundLoopState == [k \in {l \in Loops : loop[l].on} |-> 0]
\* snapshotLoopState: the round of every active loop.
LoopState == LET on == {k \in Loops : loop[k].on} IN [k \in on |-> loop[k].iter]

FailExit ==
    /\ alive /\ flags.failed
    /\ Exit
    /\ inst' = Interrupted
    /\ snap' = LoopState
    /\ UNCHANGED <<status, flags, seen, used>>

\* ctrlHardStop with finishStopped, and the job timeout: finishForContextError.
HardStop ==
    /\ Controlled
    /\ Exit
    /\ \E st \in {"stopped", "timedOut"} : status' = st
    /\ inst' = Interrupted
    /\ snap' = LoopState
    /\ UNCHANGED <<flags, seen>>

\* Mutant: waits for the held items as well.
StuckQuiet == AtLoopHead /\ InFlight = 0 /\ ready = <<>>
Quiet == AtLoopHead /\ InFlight = 0 /\ Dispatchable = {}
Held == stop = "step" \/ (stop = "session" /\ ready # <<>>)

FinishGraceful ==
    /\ Quiet
    /\ Held
    /\ Exit
    /\ status' = IF stop = "session" THEN "sessionStopped" ELSE "stepStopped"
    /\ inst' = RolledBack
    /\ snap' = LoopState
    /\ UNCHANGED <<flags, seen, used>>

FinishAwaiting ==
    /\ Quiet
    /\ ~Held
    /\ flags.awaiting
    /\ Exit
    /\ status' = "awaitingInput"
    /\ inst' = RolledBack
    /\ snap' = LoopState
    /\ UNCHANGED <<flags, seen, used>>

\* Neither the instances nor the loop state are touched on this failure.
NoEndReached ==
    /\ Quiet
    /\ ~Held
    /\ ~flags.awaiting /\ ~flags.endReached
    /\ Exit
    /\ status' = "failed"
    /\ flags' = [flags EXCEPT !.failed = TRUE]
    /\ seen' = [seen EXCEPT !.noEnd = TRUE]
    /\ UNCHANGED <<inst, snap, used>>

\* Mutant: a reached end outranks a parked discussion.
EagerComplete ==
    /\ Quiet
    /\ ~Held
    /\ flags.endReached
    /\ Exit
    /\ status' = "completed"
    /\ UNCHANGED <<inst, snap, flags, seen, used>>

Complete ==
    /\ Quiet
    /\ ~Held
    /\ ~flags.awaiting /\ flags.endReached
    /\ Exit
    /\ status' = "completed"
    /\ UNCHANGED <<inst, snap, flags, seen, used>>

---------------------------------------------------------------------------
(* Resume                                                                   *)

Resumable == {"failed", "stepStopped", "sessionStopped", "stopped", "timedOut",
              "awaitingInput"}
Resettable == {"failed", "interrupted", "running"}

\* The containers of the loops around k, the outermost first.
Around(k) == {<<wf.path[k[1]][i], SubSeq(k[2], 1, i - 1)>> : i \in 1..Len(k[2])}

\* computeResetSet: a loop without a snapshot is reset as a whole, every instance
\* in it and its container.  Its start nodes are none, so their edges stay.
ResetSet ==
    LET alone == {k \in Keys : inst[k] \in Resettable /\ k \notin DOMAIN snap}
        whole == {wf.path[k[1]][1] :
                      k \in {l \in alone : ~IsMain(l) /\ ~Around(l) \subseteq DOMAIN snap}}
    IN alone \cup {k \in Keys : inst[k] # "none" /\ ~IsMain(k) /\ wf.path[k[1]][1] \in whole}
             \cup {<<n, <<>>>> : n \in whole}

\* finalizeAwaitingClarify, after resetResettable.
KeptInst == [k \in Keys |-> IF k \in ResetSet THEN "none"
                            ELSE IF inst[k] = "awaitingInput" THEN "succeeded" ELSE inst[k]]
KeptEdge == [e \in DOMAIN edge |-> IF <<e[1], e[3]>> \in ResetSet THEN "none"
                                   ELSE IF inst[<<e[1], e[3]>>] = "awaitingInput" THEN "active"
                                   ELSE edge[e]]

\* rebuildLoopScopes.
Alive(k) == k \in DOMAIN snap /\ KeptInst[k] \notin Decided \cup {"none"}
InRound(k, c) == k[2][Len(c[2]) + 1] = snap[c]
Rebuilt == {k \in DOMAIN snap : Alive(k) /\ \A c \in Around(k) : Alive(c) /\ InRound(k, c)}
RebuiltLoop ==
    [k \in Loops |->
        IF k \in Rebuilt
        THEN [on |-> TRUE, iter |-> snap[k], stopReq |-> FALSE,
              live |-> Cardinality({c \in Rebuilt : ScopeOf(c) = k})]
        ELSE NoLoop]

\* The targets whose in-edges are resolved, in a scope that goes on; those decided
\* already are left out, since deciding them again does nothing.
Frontier ==
    {k \in Keys :
        /\ rem'[k] <= 0
        /\ \E e \in InEdges(k) : KeptEdge[e] # "none"
        /\ k \notin Rebuilt
        /\ KeptInst[k] \notin Decided
        /\ IsMain(k) \/ (ScopeOf(k) \in Rebuilt /\ InRound(k, ScopeOf(k)))}

\* Mutant: a scheduler takes no hook as fired before it.
ForgottenHooks == {}
\* The main ends a surviving edge activates: reached, and their hook taken as fired.
ReachedEnds == {k \in MainEnds(wf) : rem'[k] <= 0 /\ \E e \in InEdges(k) : KeptEdge[e] = "active"}
FiredBefore == ReachedEnds

Resume ==
    /\ ~alive
    /\ status \in Resumable
    /\ EditAlone => ~draft.on
    /\ used.resume < Most(wf).resume
    /\ used' = [used EXCEPT !.resume = @ + 1]
    /\ alive' = TRUE
    /\ status' = "running"
    /\ inst' = [k \in Keys |-> IF k \in Rebuilt THEN "running" ELSE KeptInst[k]]
    /\ edge' = KeptEdge
    /\ rem' = [k \in Keys |-> Cardinality(InEdges(k) \cap EdgesOf(wf))
                               - Cardinality({e \in InEdges(k) : KeptEdge[e] # "none"})]
    /\ flags' = [NoFlags EXCEPT !.endReached = (ReachedEnds # {})]
    /\ hookFired' = FiredBefore
    /\ loop' = RebuiltLoop
    /\ stop' = "none"
    /\ batch' = {}
    /\ \E opened \in SUBSET {k \in ResetSet : inst[k] = "interrupted" /\ NodeKind(k) = "prompt"} :
          carried' = (carried \ ResetSet) \cup opened
    /\ todo' = Each("frontier", Frontier) \o Each("nudge", Rebuilt)
    /\ UNCHANGED <<draft, wf, ready, busy, snap, seen>>

---------------------------------------------------------------------------
(* A new version of the graph, while the run goes on or is stopped            *)

NodesIn(statuses) == {k[1] : k \in {l \in Keys : inst[l] \in statuses}}
SameConfig(w, n) ==
    /\ w.kind[n] = wf.kind[n] /\ w.path[n] = wf.path[n] /\ w.writes[n] = wf.writes[n]
    /\ n \in DOMAIN wf.mode => w.mode[n] = wf.mode[n]

\* validateVersionEdit: a node that has run or runs stays, as it was unless it is in
\* a loop (the number of a loop's rounds may change), and so do the edges of one
\* that is decided.
MayEdit(w) ==
    /\ \A n \in NodesIn(Decided \cup {"running"}) :
          n \in w.nodes /\ (w.path[n] # <<>> \/ SameConfig(w, n))
    /\ \A n \in wf.nodes : \A m \in Targets(wf, n) :
          {n, m} \cap NodesIn(Decided) # {} => m \in Targets(w, n)

\* What there is of the graph as it now is, and is not yet for what is new.
Carried(f, keys, new) == [x \in keys |-> IF x \in DOMAIN f THEN f[x] ELSE new]

\* A join some of whose edges are resolved keeps its count; the others take theirs
\* from the new graph.
NewVersion(w) ==
    LET resolved == {e \in DOMAIN edge : edge[e] # "none"}
        into(k) == {e \in EdgesOf(w) : e[2] = k[1] /\ e[3] = k[2]}
    IN /\ wf' = w
       /\ inst' = Carried(inst, KeysOf(w), "none")
       /\ busy' = Carried(busy, KeysOf(w), 0)
       /\ edge' = Carried(edge, EdgesOf(w) \cup resolved, "none")
       /\ rem' = [k \in KeysOf(w) |-> IF InEdges(k) \cap resolved # {} THEN rem[k]
                                       ELSE Cardinality(into(k))]
       /\ loop' = Carried(loop, {k \in KeysOf(w) : w.kind[k[1]] = "loop"}, NoLoop)
       /\ seen' = [seen EXCEPT !.hooks = Carried(@, MainEnds(w), 0),
                               !.over = @ \cup {k \in Loops : inst[k] = "succeeded"}]

\* applyVersionUpdate, between two results.
EditRunning ==
    /\ AtLoopHead
    /\ \E d \in Editions : d[1] = wf /\ MayEdit(d[2]) /\ NewVersion(d[2])
    /\ UNCHANGED <<draft, status, alive, todo, ready, stop, batch, flags, hookFired, snap, carried, used>>

\* UpdateRunVersion of a run at rest: prepared without the lifecycle's lock, on a
\* copy of run.json, and saved under it when the run rests on the same version.
PrepareEdit ==
    /\ ~alive /\ status \in Resumable /\ ~draft.on
    /\ \E d \in Editions :
          /\ d[1] = wf /\ MayEdit(d[2])
          /\ draft' = [on |-> TRUE, old |-> wf, new |-> d[2], status |-> status, snap |-> snap,
                       carried |-> carried]
    /\ UNCHANGED <<wf, status, alive, todo, inst, edge, rem, ready, busy, loop, stop, batch,
                   flags, hookFired, snap, carried, seen, used>>

CommitEdit ==
    /\ draft.on
    /\ draft' = NoDraft
    /\ IF ~alive /\ status \in Resumable /\ wf = draft.old
       THEN /\ NewVersion(draft.new)
            /\ status' = draft.status /\ snap' = draft.snap /\ carried' = draft.carried
       ELSE UNCHANGED <<wf, status, inst, edge, rem, busy, loop, snap, carried, seen>>
    /\ UNCHANGED <<alive, todo, ready, stop, batch, flags, hookFired, used>>

Edit == EditRunning \/ PrepareEdit \/ CommitEdit

---------------------------------------------------------------------------
Calls == ResolveEdge \/ DecideAgain \/ PruneNode \/ ReachEnd \/ DecideIfElse \/ Enqueue
         \/ StartLoop \/ StayOpen \/ FinishIteration \/ FailLoopNode \/ FinishLoop
         \/ UnitDone \/ TakeOne
Settle == FailExit \/ FinishGraceful \/ FinishAwaiting \/ NoEndReached \/ Complete
Control == StepStop \/ SessionStop \/ CancelStop \/ HardStop
Result(k) == ResultOK(k) \/ ResultAwaiting(k) \/ ResultStopWorkflow(k) \/ ResultStopLoop(k)
             \/ ResultFailed(k) \/ ResultNoSession(k)

Next == Calls \/ Dispatch \/ (\E k \in Keys : Result(k)) \/ Control \/ Settle \/ Resume \/ Edit

\* The goroutine runs, and a node that executes ends: its agent answers, fails, or
\* meets its timeout.
Fairness == WF_vars(Calls \/ Dispatch \/ Settle) /\ WF_vars(\E k \in Keys : Result(k))
Spec == Init /\ [][Next]_vars /\ Fairness

---------------------------------------------------------------------------
(* Properties                                                               *)

InstStatus == Decided \cup {"none", "running", "failed", "interrupted", "awaitingInput"}
RunStatus == Resumable \cup {"running", "stepStopping", "sessionStopping", "completed"}

\* The types of the scheduler's state; no more workers than the limit.
TypeOK ==
    /\ wf \in Workflows \cup {d[2] : d \in Editions}
    /\ status \in RunStatus
    /\ inst \in [KeysOf(wf) -> InstStatus]
    /\ EdgesOf(wf) \subseteq DOMAIN edge /\ \A e \in DOMAIN edge : edge[e] \in {"none", "active", "pruned"}
    /\ rem \in [Keys -> Int]
    /\ \A i \in DOMAIN ready : inst[ready[i]] = "running"
    /\ InFlight <= Limit
    /\ loop \in [Loops -> [on : BOOLEAN, iter : 0..(wf.maxRound - 1), live : Nat, stopReq : BOOLEAN]]
    /\ stop \in {"none", "step", "session"}

\* A node is not started before its last in-edge is resolved, and not without an
\* active one: joins wait, across every stop and resume (resolveEdge, seedResume).
JoinWaits ==
    \A k \in Keys : inst[k] \in {"running", "succeeded", "failed", "awaitingInput"} =>
        /\ \A e \in InEdges(k) : edge[e] # "none"
        /\ AnyActive(k)

\* The invariant resume.go builds its reset on: what activated a surviving
\* instance has itself survived, so an edge is kept exactly with its source.
SurvivorsClosed ==
    \A e \in DOMAIN edge : edge[e] = "active" =>
        wf.kind[e[1]] = "start" \/ inst[<<e[1], e[3]>>] = "succeeded"

\* Nothing is executed twice, whatever was stopped and resumed: a key is queued or
\* at a worker, once, exactly while it is running, and the hook of an end is fired
\* once.  It excepts what RoundsInOrder excepts.
OneExecution ==
    /\ alive /\ ~flags.failed /\ ~flags.stopSched =>
          \A k \in Keys \ Loops :
              busy[k] + Cardinality({i \in DOMAIN ready : ready[i] = k})
                  = IF inst[k] = "running" THEN 1 ELSE 0
    /\ \A e \in MainEnds(wf) : seen.hooks[e] <= 1

\* A reliable terminal is final: nothing that succeeded or was skipped runs again,
\* in this generation of the scheduler or in a later one.  It excepts what
\* RoundsInOrder excepts; the reset of a whole loop after a crash is not reached.
DecidedIsFinal == [][\A k \in Keys : inst[k] \in Decided => inst'[k] = inst[k]]_vars

InnerKeys(c, r) == {k \in Keys : ~IsMain(k) /\ ScopeOf(k) = c /\ k[2][Len(k[2])] = r /\ Business(k)}

\* A round of a loop starts when every node of the round before it is decided.  It
\* does not hold of a round whose entry leads, before another branch, to a loop of
\* no rounds: that loop is over before startIteration has resolved the other edge,
\* finds nothing else alive in the round, and ends it (loop.go:88-99, 134).
RoundsInOrder ==
    \A c \in Loops : \A r \in 1..(wf.maxRound - 1) :
        (\E k \in InnerKeys(c, r) : inst[k] # "none") =>
            \A k \in InnerKeys(c, r - 1) : inst[k] \in Decided

\* Nothing is left behind by joins, stops or resumes: a run that completes has
\* decided every node of its main graph, unless a node asked for early success; a
\* fixed loop that succeeded has decided every node of each of its rounds, unless
\* a node of it asked for its end (or it was over when its count was edited).  It
\* excepts what RoundsInOrder excepts, and a run that loses a branch does not
\* complete (AlwaysReachesEnd).
NothingLeftBehind ==
    /\ status = "completed" /\ ~seen.early =>
          \A k \in Keys : IsMain(k) /\ Business(k) => inst[k] \in Decided
    /\ \A c \in Loops \ seen.over :
          inst[c] = "succeeded" /\ wf.mode[c[1]] = "fixed" /\ ~(\E r \in 0..wf.maxRound : <<c, r>> \in seen.broke)
          => \A r \in 0..(wf.rounds[c[1]] - 1) : \A k \in InnerKeys(c, r) : inst[k] \in Decided

\* A validated graph always reaches an end: the failure "no end reached" tells of
\* a lost branch.
AlwaysReachesEnd == seen.noEnd => seen.early

\* A completed run has fired the hook of every end that was reached.
EndHookFired ==
    status = "completed" => \A e \in MainEnds(wf) : AnyActive(e) => seen.hooks[e] = 1

\* Once a node has broken its loop, no further round of the loop starts.
StopLoopHolds ==
    \A b \in seen.broke : \A k \in Keys :
        ~IsMain(k) /\ ScopeOf(k) = b[1] /\ k[2][Len(k[2])] > b[2] => inst[k] = "none"

\* A settled run can be resumed from its files alone: what still is running is a
\* loop whose round was recorded.
SettledResumable ==
    ~alive /\ status \in Resumable /\ ~seen.early =>
        \A k \in Keys : inst[k] = "running" => k \in DOMAIN snap

\* A resume takes every loop up in the round it was stopped in, however the run
\* was stopped: a failure, a timeout, a hard, step or session stop, a discussion.
ResumeKeepsRound ==
    [][~alive /\ alive' /\ ~seen.early =>
           \A c \in Loops : loop[c].on => loop'[c].on /\ loop'[c].iter = loop[c].iter]_vars

\* An edit never brings back what a run has left behind while it was prepared
\* (UpdateRunVersion reads the run again before it saves).
EditSeesTheRun ==
    [][draft.on /\ wf' # wf => <<status', snap', carried'>> = <<status, snap, carried>>]_vars

\* Every scheduler settles: no join, loop, stop or parked node keeps it waiting.
Settles == alive ~> ~alive

\* Two nodes at work never share a session: their turns would cancel each other.
\* validateParallelSessionReuse is to keep this from every graph it accepts.
NoSharedTurn ==
    \A a, b \in {k \in Keys : busy[k] > 0 /\ IsAgent(k)} :
        a # b /\ SessionOf(a) # "none" => SessionOf(a) # SessionOf(b)

\* A node of the main graph that continues a session has one to continue, whatever
\* conditions routed around (validateFirstAgentNewSession).
InheritHasSession == \A k \in Keys : IsMain(k) /\ busy[k] > 0 => ~NoSession(k)

\* Two nodes of a scope at work never write the same variable, so that no join has
\* to choose between their values (validateOutputConflicts).
NoParallelWriters ==
    \A a, b \in {k \in Keys : busy[k] > 0} :
        a # b /\ ScopeOf(a) = ScopeOf(b) => wf.writes[a[1]] \cap wf.writes[b[1]] = {}

=============================================================================
