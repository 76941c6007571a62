-------------------------- MODULE MCServicesProofs --------------------------
(* What is proved of a component holds of it among the others. *)
EXTENDS MCServices, FiniteSets, TLAPS

AgentInv == focus = "agent" => C!GateSafe
SchedInv == focus = "schedule" => S!ScheduleInv
OutboxInv == focus = "outbox" => S!Inv
CacheInv == focus = "cache" => C!Inv
BuilderInv == focus = "history" => R!RoundInv
ProbesInv == focus = "probe" => C!ProbeInv
NodesInv == focus = "node" => G!NodeInv
StreamsInv == focus = "events" => G!StreamInv
LibraryInv == focus = "library" => G!LibInv
AccountInv == focus = "accounts" => S!AccountsInv

\* A deleted Agent is cleaned up while nobody executes or edits it, also among the others.
THEOREM AgentCleanupIsExclusive ==
  ASSUME "none" \notin Managers
  PROVE  Spec => []CleanupExclusive
<1>1. Init => AgentInv
  BY C!GateInitInv DEF Init, AgentInv
<1>2. AgentInv /\ [Next]_<<focus, v1, v2, v3, v4, v5, v6, v7, v8, v9, v10, v11>> => AgentInv'
  <2> SUFFICES ASSUME AgentInv, focus' = "agent",
                      [Next]_<<focus, v1, v2, v3, v4, v5, v6, v7, v8, v9, v10, v11>>
               PROVE  C!GateSafe'
    BY DEF AgentInv
  <2>1. focus = "agent" /\ C!GateSafe
    BY DEF AgentInv, Next
  <2>2. C!Gate!Next \/ UNCHANGED C!Gate!agVars
    BY <2>1 DEF Next, C!Gate!agVars
  <2> QED
    BY <2>1, <2>2, C!GateNextInv
<1>3. AgentInv => CleanupExclusive
  BY C!GateInvHolds DEF AgentInv, CleanupExclusive
<1> QED
  BY <1>1, <1>2, <1>3, PTL DEF Spec

\* The chunks of every recipient of the outbox arrive in order.
THEOREM OutboxDeliversInOrder == Spec => []DeliveredInOrder
<1>1. S!ChunkAssumption
  BY DEF S!ChunkAssumption
<1>2. Init => OutboxInv
  BY <1>1, S!InitInv DEF Init, OutboxInv
<1>3. OutboxInv /\ [Next]_<<focus, v1, v2, v3, v4, v5, v6, v7, v8, v9, v10, v11>> => OutboxInv'
  <2> SUFFICES ASSUME OutboxInv, focus' = "outbox",
                      [Next]_<<focus, v1, v2, v3, v4, v5, v6, v7, v8, v9, v10, v11>>
               PROVE  S!Inv'
    BY DEF OutboxInv
  <2>1. focus = "outbox" /\ S!Inv
    BY DEF OutboxInv, Next
  <2>2. S!Next \/ UNCHANGED S!obVars
    BY <2>1 DEF Next, S!obVars
  <2> QED
    BY <1>1, <2>1, <2>2, S!NextInv
<1>4. OutboxInv => DeliveredInOrder
  BY <1>1, S!InvHolds DEF OutboxInv, DeliveredInOrder
<1> QED
  BY <1>2, <1>3, <1>4, PTL DEF Spec

\* The slots of a schedule are its runs, and what is recorded of them stays.
THEOREM SchedulesAreKept ==
  ASSUME "none" \notin Names
  PROVE  Spec => []SchedulesKept
<1>1. S!NameAssumption
  BY DEF S!NameAssumption
<1>2. Init => SchedInv
  BY S!ScheduleInitInv DEF Init, SchedInv
<1>3. SchedInv /\ [Next]_<<focus, v1, v2, v3, v4, v5, v6, v7, v8, v9, v10, v11>> => SchedInv'
  <2> SUFFICES ASSUME SchedInv, focus' = "schedule",
                      [Next]_<<focus, v1, v2, v3, v4, v5, v6, v7, v8, v9, v10, v11>>
               PROVE  S!ScheduleInv'
    BY DEF SchedInv
  <2>1. focus = "schedule" /\ S!ScheduleInv
    BY DEF SchedInv, Next
  <2>2. S!Sched!Next \/ UNCHANGED S!Sched!schVars
    BY <2>1 DEF Next, S!Sched!schVars
  <2> QED
    BY <1>1, <2>1, <2>2, S!ScheduleNextInv
<1>4. SchedInv => SchedulesKept
  BY S!ScheduleInvHolds DEF SchedInv, SchedulesKept
<1> QED
  BY <1>2, <1>3, <1>4, PTL DEF Spec

LEMMA CacheKept ==
  ASSUME IsFiniteSet(Names), Names \cap Managers = {}
  PROVE  /\ Init => CacheInv
         /\ CacheInv /\ [Next]_<<focus, v1, v2, v3, v4, v5, v6, v7, v8, v9, v10, v11>> => CacheInv'
<1>1. C!NameAssumption
  BY DEF C!NameAssumption, C!IsFiniteSet, IsFiniteSet
<1>2. Init => CacheInv
  BY <1>1, C!InitInv DEF Init, CacheInv
<1>3. CacheInv /\ [Next]_<<focus, v1, v2, v3, v4, v5, v6, v7, v8, v9, v10, v11>> => CacheInv'
  <2> SUFFICES ASSUME CacheInv, focus' = "cache",
                      [Next]_<<focus, v1, v2, v3, v4, v5, v6, v7, v8, v9, v10, v11>>
               PROVE  C!Inv'
    BY DEF CacheInv
  <2>1. focus = "cache" /\ C!Inv
    BY DEF CacheInv, Next
  <2>2. C!Next \/ UNCHANGED C!acVars
    BY <2>1 DEF Next, C!acVars
  <2> QED
    BY <1>1, <2>1, <2>2, C!NextInv, C!StutterInv
<1> QED
  BY <1>2, <1>3

\* No eviction, no deletion and no flight closes an Agent that is leased, only a late release.
THEOREM AgentsClosedUnleased ==
  ASSUME IsFiniteSet(Names), Names \cap Managers = {}
  PROVE  Spec => ClosedUnleased
<1>1. C!NameAssumption
  BY DEF C!NameAssumption, C!IsFiniteSet, IsFiniteSet
<1>2. CacheInv /\ [Next]_<<focus, v1, v2, v3, v4, v5, v6, v7, v8, v9, v10, v11>>
        => [focus = "cache" => C!ClosesUnleased]_<<focus, v1, v2, v3, v4, v5, v6, v7>>
  <2> SUFFICES ASSUME CacheInv, Next, focus = "cache"
               PROVE  C!ClosesUnleased
    OBVIOUS
  <2>1. C!Inv /\ C!Next
    BY DEF CacheInv, Next
  <2> QED
    BY <1>1, <2>1, C!ClosesHold
<1> QED
  BY <1>2, CacheKept, PTL DEF Spec, ClosedUnleased

\* No Agent and no subprocess of the cache leaks, and a Run's subprocess is its own and stays.
LEMMA CacheLeaksNothing ==
  ASSUME IsFiniteSet(Names), Names \cap Managers = {}
  PROVE  Spec => [](focus = "cache" => C!NothingLeaks /\ C!UseUndisturbed)
<1>1. CacheInv => (focus = "cache" => C!NothingLeaks /\ C!UseUndisturbed)
  BY C!InvHolds DEF CacheInv
<1> QED
  BY <1>1, CacheKept, PTL DEF Spec

\* No Agent and no subprocess leaks, and what is known of an Agent is of its environment and what
\* its user selected.
THEOREM AgentsAreKept ==
  ASSUME IsFiniteSet(Names), Names \cap Managers = {}
  PROVE  Spec => []AgentsKept
<1>1. C!ProbeAssumption
  BY DEF C!ProbeAssumption
<1>2. Init => ProbesInv
  BY <1>1, C!ProbeInitInv DEF Init, ProbesInv
<1>3. ProbesInv /\ [Next]_<<focus, v1, v2, v3, v4, v5, v6, v7, v8, v9, v10, v11>> => ProbesInv'
  <2> SUFFICES ASSUME ProbesInv, focus' = "probe",
                      [Next]_<<focus, v1, v2, v3, v4, v5, v6, v7, v8, v9, v10, v11>>
               PROVE  C!ProbeInv'
    BY DEF ProbesInv
  <2>1. focus = "probe" /\ C!ProbeInv
    BY DEF ProbesInv, Next
  <2>2. C!Probe!Next \/ UNCHANGED C!Probe!pbVars
    BY <2>1 DEF Next, C!Probe!pbVars
  <2> QED
    BY <1>1, <2>1, <2>2, C!ProbeNextInv
<1>4. ProbesInv => (focus = "probe" => C!Probe!ProbeKept)
  BY C!ProbeInvHolds DEF ProbesInv
<1> QED
  BY <1>2, <1>3, <1>4, CacheLeaksNothing, PTL DEF Spec, AgentsKept

\* An administrator remains, memory is what a start would load, and who is revoked is out.
THEOREM AccountsAreKept == Spec => []AccountsKept
<1>1. S!AccountsAssumption
  <2>1. NeverSetUp \in S!Files
    BY S!NoRecords DEF S!Files, NeverSetUp, S!Acct!None
  <2>2. Account("a") \in S!User /\ Account("b") \in S!User
    BY DEF Account, S!User, S!Roles
  <2>3. <<Account("a"), Account("b")>> \in [{1, 2} -> S!User]
    BY <2>2
  <2>4. [r \in {"r"} |-> [manages |-> TRUE, ver |-> 1]] \in [{"r"} -> S!Role]
    BY DEF S!Role
  <2>5. TwoAdmins \in S!Files
    BY <2>3, <2>4 DEF S!Files, S!UserRecords, S!RoleRecords, TwoAdmins
  <2> QED
    BY <2>1, <2>5 DEF S!AccountsAssumption
<1>2. Init => AccountInv
  BY <1>1, S!AccountsInitInv DEF Init, AccountInv
<1>3. AccountInv /\ [Next]_<<focus, v1, v2, v3, v4, v5, v6, v7, v8, v9, v10, v11>> => AccountInv'
  <2> SUFFICES ASSUME AccountInv, focus' = "accounts",
                      [Next]_<<focus, v1, v2, v3, v4, v5, v6, v7, v8, v9, v10, v11>>
               PROVE  S!AccountsInv'
    BY DEF AccountInv
  <2>1. focus = "accounts" /\ S!AccountsInv
    BY DEF AccountInv, Next
  <2>2. S!Acct!Next \/ UNCHANGED S!Acct!accVars
    BY <2>1 DEF Next, S!Acct!accVars
  <2> QED
    BY <1>1, <2>1, <2>2, S!AccountsNextInv
<1>4. AccountInv => AccountsKept
  BY DEF AccountInv, AccountsKept, S!AccountsInv, S!Acct!AccountsKept, S!RevokeInv
<1> QED
  BY <1>2, <1>3, <1>4, PTL DEF Spec, AccountsKept

\* The history of an ACP Agent is paired, its prompts are kept, and a success is on disk.
THEOREM HistoryIsKept ==
  ASSUME MaxRuns \in Nat
  PROVE  Spec => []HistoryKept
<1>1. Init => BuilderInv
  BY R!RoundInit DEF Init, BuilderInv
<1>2. BuilderInv /\ [Next]_<<focus, v1, v2, v3, v4, v5, v6, v7, v8, v9, v10, v11>> => BuilderInv'
  <2> SUFFICES ASSUME BuilderInv, focus' = "history",
                      [Next]_<<focus, v1, v2, v3, v4, v5, v6, v7, v8, v9, v10, v11>>
               PROVE  R!RoundInv'
    BY DEF BuilderInv
  <2>1. focus = "history" /\ R!RoundInv
    BY DEF BuilderInv, Next
  <2>2. R!Next \/ UNCHANGED R!rbVars
    BY <2>1 DEF Next, R!rbVars
  <2> QED
    BY <2>1, <2>2, R!RoundStep
<1>3. BuilderInv => HistoryKept
  BY R!RoundSafe DEF BuilderInv, HistoryKept, R!HistorySafe
<1> QED
  BY <1>1, <1>2, <1>3, PTL DEF Spec

LEMMA NodesInvKept ==
  /\ Init => NodesInv
  /\ NodesInv /\ [Next]_<<focus, v1, v2, v3, v4, v5, v6, v7, v8, v9, v10, v11>> => NodesInv'
<1>1. G!NodesAssumption
  BY DEF G!NodesAssumption, GraphNodes, GraphNode
<1>2. Init => NodesInv
  BY <1>1, G!NodeInitInv DEF Init, NodesInv
<1>3. NodesInv /\ [Next]_<<focus, v1, v2, v3, v4, v5, v6, v7, v8, v9, v10, v11>> => NodesInv'
  <2> SUFFICES ASSUME NodesInv, focus' = "node",
                      [Next]_<<focus, v1, v2, v3, v4, v5, v6, v7, v8, v9, v10, v11>>
               PROVE  G!NodeInv'
    BY DEF NodesInv
  <2>1. focus = "node" /\ G!NodeInv
    BY DEF NodesInv, Next
  <2>2. G!Next \/ UNCHANGED G!nrVars
    BY <2>1 DEF Next, G!nrVars
  <2> QED
    BY <1>1, <2>1, <2>2, G!NodeNextInv
<1> QED
  BY <1>2, <1>3

LEMMA StreamsInvKept ==
  /\ Init => StreamsInv
  /\ StreamsInv /\ [Next]_<<focus, v1, v2, v3, v4, v5, v6, v7, v8, v9, v10, v11>> => StreamsInv'
<1>1. G!BatchAssumption
  BY DEF G!BatchAssumption
<1>2. Init => StreamsInv
  BY <1>1, G!StreamInitInv DEF Init, StreamsInv
<1>3. StreamsInv /\ [Next]_<<focus, v1, v2, v3, v4, v5, v6, v7, v8, v9, v10, v11>> => StreamsInv'
  <2> SUFFICES ASSUME StreamsInv, focus' = "events",
                      [Next]_<<focus, v1, v2, v3, v4, v5, v6, v7, v8, v9, v10, v11>>
               PROVE  G!StreamInv'
    BY DEF StreamsInv
  <2>1. focus = "events" /\ G!StreamInv
    BY DEF StreamsInv, Next
  <2>2. G!Ev!Next \/ UNCHANGED G!Ev!vars
    BY <2>1 DEF Next, G!Ev!vars
  <2> QED
    BY <1>1, <2>1, <2>2, G!StreamNextInv
<1> QED
  BY <1>2, <1>3

LEMMA LibraryInvKept ==
  ASSUME "none" \notin Names
  PROVE  /\ Init => LibraryInv
         /\ LibraryInv /\ [Next]_<<focus, v1, v2, v3, v4, v5, v6, v7, v8, v9, v10, v11>> => LibraryInv'
<1>1. G!ClientAssumption
  BY DEF G!ClientAssumption
<1>2. Init => LibraryInv
  BY <1>1, G!LibInitInv DEF Init, LibraryInv
<1>3. LibraryInv /\ [Next]_<<focus, v1, v2, v3, v4, v5, v6, v7, v8, v9, v10, v11>> => LibraryInv'
  <2> SUFFICES ASSUME LibraryInv, focus' = "library",
                      [Next]_<<focus, v1, v2, v3, v4, v5, v6, v7, v8, v9, v10, v11>>
               PROVE  G!LibInv'
    BY DEF LibraryInv
  <2>1. focus = "library" /\ G!LibInv
    BY DEF LibraryInv, Next
  <2>2. G!Lib!Next \/ UNCHANGED G!Lib!vars
    BY <2>1 DEF Next, G!Lib!vars
  <2> QED
    BY <1>1, <2>1, <2>2, G!LibNextInv
<1> QED
  BY <1>2, <1>3

\* A node's Agent hears its prompt and its turns are counted; no reader of a run misses an event;
\* no edit of a workflow is lost, and a repeated launch starts one run.
THEOREM GraphIsKept ==
  ASSUME "none" \notin Names
  PROVE  Spec => []GraphKept
<1>1. NodesInv /\ StreamsInv /\ LibraryInv => GraphKept
  BY G!NodeInvHolds, G!StreamInvHolds DEF NodesInv, StreamsInv, LibraryInv, G!LibInv, GraphKept
<1> QED
  BY <1>1, NodesInvKept, StreamsInvKept, LibraryInvKept, PTL DEF Spec
=============================================================================
