---------------------------- MODULE GraphValidate ----------------------------
(* The save-time check of a workflow graph (services/graph/validate.go).      *)
(*                                                                            *)
(* A workflow is a record:                                                    *)
(*   nodes, kind   the node ids and the kind of each; "inherit" is a prompt   *)
(*                 and "followup" a clarify node that continue the session    *)
(*                 flowing in, "prompt" and "clarify" open one                *)
(*   path          the loops around a node, the outermost first (parentId)    *)
(*   out           its out-edges in order: target and port                    *)
(*   mode, rounds  of a loop: "fixed" or "until", FixedCount or the backstop  *)
(*   writes        the output variables a node declares                       *)
(*   rank          the order of the node ids                                  *)
(*   maxRound, limit   defaultLoopMaxIters and instanceLimit                  *)
(* Names, expressions, time-outs and the texts of the errors are left out.    *)
EXTENDS Integers, Sequences, FiniteSets

Kind == {"start", "end", "shell", "prompt", "inherit", "clarify", "followup", "ifelse", "loop"}
Clarify == {"clarify", "followup"}
Continues == {"inherit", "followup"}
Agents == {"prompt", "clarify"} \cup Continues
BusinessKinds == Kind \ {"start", "end"}

Parent(w, n) == IF w.path[n] = <<>> THEN "main" ELSE w.path[n][Len(w.path[n])]
LoopNodes(w) == {n \in w.nodes : w.kind[n] = "loop"}
Scopes(w) == {"main"} \cup LoopNodes(w)
In(w, sc, kinds) == {n \in w.nodes : Parent(w, n) = sc /\ w.kind[n] \in kinds}

Edges(w) == UNION {{n} \X DOMAIN w.out[n] : n \in w.nodes}
Target(w, e) == w.out[e[1]][e[2]].to
Port(w, e) == w.out[e[1]][e[2]].port
Targets(w, n) == {Target(w, e) : e \in {d \in Edges(w) : d[1] = n}}
Sources(w, n) == {e[1] : e \in {d \in Edges(w) : Target(w, d) = n}}

\* A breadth-first search that does not take the edges in cut.
ReachableFrom(w, from, cut) ==
    LET kept == Edges(w) \ cut
        Found[i \in 0..Cardinality(w.nodes)] ==
            IF i = 0 THEN from
            ELSE LET found == Found[i - 1] IN
                 found \cup {Target(w, e) : e \in {d \in kept : d[1] \in found}}
    IN Found[Cardinality(w.nodes)]

Below(w, n) == ReachableFrom(w, Targets(w, n), {})

---------------------------------------------------------------------------
ScopesOK(w) ==
    \A n \in w.nodes :
        /\ w.kind[n] \in Kind
        /\ w.kind[n] \in Clarify => Parent(w, n) = "main"
        /\ Parent(w, n) # "main" =>
              /\ Parent(w, n) \in LoopNodes(w)
              /\ w.path[Parent(w, n)] = SubSeq(w.path[n], 1, Len(w.path[n]) - 1)
        /\ \A m \in Targets(w, n) : m \in w.nodes /\ w.path[m] = w.path[n]

LoopConfigOK(w) ==
    /\ w.maxRound \in 1..1000 /\ w.limit \in Nat
    /\ \A n \in LoopNodes(w) :
          /\ w.mode[n] \in {"fixed", "until"}
          /\ w.rounds[n] \in 0..w.maxRound

PortsOK(w) ==
    \A n \in w.nodes :
        LET ports == {Port(w, e) : e \in {d \in Edges(w) : d[1] = n}} IN
        IF w.kind[n] = "ifelse" THEN ports = {"yes", "no"} /\ Len(w.out[n]) = 2
                                ELSE ports \subseteq {"none"}

DegreesOK(w) ==
    \A n \in w.nodes :
        /\ (Sources(w, n) = {}) = (w.kind[n] = "start")
        /\ (Targets(w, n) = {}) = (w.kind[n] = "end")

\* checkCanReachEnd: no implicit terminal.
PathsEnd(w, sc) ==
    /\ In(w, sc, {"end"}) # {}
    /\ \A n \in In(w, sc, BusinessKinds) : Below(w, n) \cap In(w, sc, {"end"}) # {}

StructureOK(w) ==
    /\ In(w, "main", {"start"}) # {}
    /\ In(w, "main", BusinessKinds) # {}
    /\ DegreesOK(w)
    /\ \A sc \in Scopes(w) :
          /\ In(w, sc, Kind \ {"start"}) \subseteq
                ReachableFrom(w, In(w, sc, {"start"}), {})
          /\ PathsEnd(w, sc)

AcyclicOK(w) == \A n \in w.nodes : n \notin Below(w, n)

LoopSubgraphsOK(w) == \A n \in LoopNodes(w) : Cardinality(In(w, n, {"start"})) = 1

---------------------------------------------------------------------------
(* Sessions and variables: what may run in parallel                         *)

\* Mutant: the search stops at a condition as well.
FirstAgentStopsAtRoute(w) ==
    LET stops == {e \in Edges(w) : w.kind[e[1]] \in Agents \cup {"ifelse"}} IN
    \A n \in ReachableFrom(w, In(w, "main", {"start"}), stops) : w.kind[n] \notin Continues

\* The first agent on every way from a start opens a session.
FirstAgentNewSession(w) ==
    LET stops == {e \in Edges(w) : w.kind[e[1]] \in Agents} IN
    \A n \in ReachableFrom(w, In(w, "main", {"start"}), stops) : w.kind[n] \notin Continues

\* branchDominators: what only the given out-edge of a condition leads to.
OnlyThrough(w, sc, e) ==
    ReachableFrom(w, In(w, sc, {"start"}), {}) \ ReachableFrom(w, In(w, sc, {"start"}), {e})

\* Mutant: reachable through the two branches is enough.
LooselyExclusive(w, sc, a, b) ==
    \E c \in In(w, sc, {"ifelse"}) : \E e, d \in Edges(w) :
        /\ e[1] = c /\ Port(w, e) = "yes" /\ d[1] = c /\ Port(w, d) = "no"
        /\ {a, b} \subseteq Below(w, c)

MutuallyExclusive(w, sc, a, b) ==
    \E c \in In(w, sc, {"ifelse"}) : \E e, d \in Edges(w) :
        /\ e[1] = c /\ Port(w, e) = "yes" /\ d[1] = c /\ Port(w, d) = "no"
        /\ \/ a \in OnlyThrough(w, sc, e) /\ b \in OnlyThrough(w, sc, d)
           \/ b \in OnlyThrough(w, sc, e) /\ a \in OnlyThrough(w, sc, d)

MayMeet(w, sc, a, b) ==
    /\ a # b
    /\ b \notin Below(w, a) /\ a \notin Below(w, b)
    /\ ~MutuallyExclusive(w, sc, a, b)

\* Mutant: only declarations of agents are compared.
AgentOutputsOK(w) ==
    \A sc \in Scopes(w) : \A a, b \in In(w, sc, Agents) :
        MayMeet(w, sc, a, b) => w.writes[a] \cap w.writes[b] = {}

OutputConflictsOK(w) ==
    \A sc \in Scopes(w) : \A a, b \in In(w, sc, BusinessKinds) :
        w.writes[a] \cap w.writes[b] # {} => ~MayMeet(w, sc, a, b)

\* The nodes whose session may flow into n and, unless n opens one, out of it.
SessionSources(w, sc) ==
    LET Flow[n \in In(w, sc, Kind)] ==
            CASE w.kind[n] = "start" -> IF sc = "main" THEN {} ELSE {<<"inflow", sc>>}
              [] w.kind[n] \in {"prompt", "clarify"} -> {n}
              [] OTHER -> UNION {Flow[m] : m \in Sources(w, n)}
    IN Flow

ParallelSessionsOK(w) ==
    \A sc \in Scopes(w) : \A a, b \in In(w, sc, Agents) :
        SessionSources(w, sc)[a] \cap SessionSources(w, sc)[b] # {} => ~MayMeet(w, sc, a, b)

\* validateConfig reports no error.
Valid(w) ==
    /\ ScopesOK(w) /\ LoopConfigOK(w) /\ PortsOK(w) /\ StructureOK(w)
    /\ AcyclicOK(w) /\ LoopSubgraphsOK(w)
    /\ FirstAgentNewSession(w) /\ OutputConflictsOK(w) /\ ParallelSessionsOK(w)
=============================================================================
