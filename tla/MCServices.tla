------------------------------ MODULE MCServices ------------------------------
(* Small components with no state in common, checked side by side: a          *)
(* behaviour follows one of them, its focus. They are never at work together, *)
(* so that they share the variables v1 to v11.                                *)
EXTENDS Naturals, TLC

CONSTANTS
    Names,              \* the runs of a schedule, the tool calls of an Agent's
                        \* history, the callers of the cache or the recipients of the outbox:
                        \* one set, so that the symmetry group stays small
    Managers,           \* of a custom Agent; or the sessions of the cache
    MaxRuns, MaxUpdates, MaxFails, MaxStops    \* of an ACP Agent's history

VARIABLES
    focus,      \* the component this behaviour is about
    v1, v2, v3, v4, v5, v6, v7, v8, v9, v10, v11

R == INSTANCE RoundBuilderProofs WITH Tools <- Names,
        MaxUpdates <- [n \in 1..MaxRuns |-> IF n = 1 THEN MaxUpdates ELSE MaxUpdates - 1],
        bld <- v1, disk <- v2, live <- v3, disp <- v4, run <- v5, closer <- v6, turn <- v7,
        rbSeen <- v8
C == INSTANCE AgentProofs WITH Callers <- Names, Keys <- Managers, Types <- {1, 2}, Capacity <- 1,
        MaxAgents <- 2, MaxConns <- 2, MaxAsks <- 2, MaxFaults <- 1, MaxEvents <- 1,
        agents <- v1, conns <- v2, actor <- v3, dropping <- v4, maint <- v5, poolClosing <- v6,
        acSeen <- v7,
        Models <- {1, 2}, ProbeAsks <- 2, ProbeEvents <- 2,
        Picks <- {<<"model", 2, 1>>, <<"level", 1, 2>>},
        env <- v1, sess <- v2, valid <- v3, file <- v4, flight <- v5, who <- v6, cooling <- v7,
        pbSeen <- v8,
        Users <- {1},
        agLife <- v1, agOwned <- v2, agClosed <- v3, agUse <- v4, agReserved <- v5, agMgr <- v6,
        agSeen <- v7
UsageMonths == <<1, 1, 2>>
U == INSTANCE UsageStats WITH Months <- {1, 2}, Cached <- 1, Turns <- 1 .. 3,
        MonthOf <- UsageMonths, Aliased <- {1}, MaxRecords <- 2, MaxReads <- 1, MaxFaults <- 1,
        disk <- v1, months <- v2, order <- v3, dirty <- v4, flush <- v5, rec <- v6,
        reader <- v7, last <- v8, usSeen <- v9

\* A chat of the IM gateway.
Chat(messages, kinds, faults, web) ==
    [in |-> [d \in DOMAIN messages |-> [message |-> messages[d], kind |-> kinds[d]]],
     faults |-> faults, web |-> web]
Chats == {Chat(<<1, 2>>, <<"text", "text">>, 1, 0), Chat(<<1, 1>>, <<"text", "text">>, 1, 0),
          Chat(<<1, 2>>, <<"text", "new">>, 1, 0), Chat(<<1, 2>>, <<"stranger", "text">>, 0, 1),
          Chat(<<1, 2, 3>>, <<"text", "text", "text">>, 0, 0)}
I == INSTANCE ImGateway WITH Workers <- {1, 2}, MaxDepth <- 1,
        chat <- v1, disp <- v2, owner <- v3, entering <- v4, mapping <- v5, commands <- v6,
        queues <- v7, procs <- v8, jobs <- v9, replies <- v10, imSeen <- v11

\* A node of a graph run: its type, whether it inherits the session, whether it has a prompt, and
\* the versions of the workflow that know its Agent.
GraphNode(type, inherit, prompt, bound) ==
    [type |-> type, inherit |-> inherit, prompt |-> prompt, bound |-> bound]
GraphNodes == {GraphNode("prompt", FALSE, TRUE, {1, 2}), GraphNode("prompt", TRUE, TRUE, {1, 2}),
               GraphNode("clarify", FALSE, FALSE, {1}), GraphNode("shell", FALSE, TRUE, {})}
G == INSTANCE GraphPartsProofs WITH Nodes <- GraphNodes, MaxTransient <- 1, MaxRate <- 1,
        MaxRuns <- 2, MaxAttempts <- 2, MaxFaults <- 1,
        node <- v1, run <- v2, inst <- v3, past <- v4, work <- v5, sess <- v6, notes <- v7,
        usage <- v8, nrSeen <- v9,
        Conns <- {1}, Hardcap <- 2, GapLimit <- 2, Batch <- 2, MaxEvents <- 3, MaxResumes <- 1,
        StreamFaults <- 1,
        evb <- v1, log <- v2, lines <- v3, stRun <- v4, hook <- v5, conn <- v6, holes <- v7,
        Clients <- Names, Payloads <- {1, 2}, MaxVersions <- 3, MaxStarts <- 2, LibFaults <- 1,
        wf <- v1, author <- v2, job <- v3, start <- v4, glSeen <- v5

E == INSTANCE EinoRun WITH Prompts <- {1, 2}, MaxAnswers <- 2, MaxCompacts <- 2, MaxEvents <- 1,
        Race <- FALSE,
        disk <- v1, summary <- v2, prm <- v3, runtimes <- v4, cur <- v5, meta <- v6, erSeen <- v7

\* The session starts with a model and a thought level; the user changes one of them.
Selected == [model |-> 1, mode |-> 0, thought |-> 1]
P == INSTANCE AcpSession WITH MaxRuns <- 2, MaxSwitches <- 1, MaxFaults <- 1,
        Colds <- {"kept", "zero"}, Recorded <- {Selected},
        Switches <- {<<"model", 2>>, <<"thought", 1>>},
        proc <- v1, agent <- v2, store <- v3, run <- v4, sw <- v5, stops <- v6, apSeen <- v7

\* A service that was never set up, or two administrators and a role that manages.
Account(name) == [name |-> name, roles |-> {"admin"}, status |-> "active", must |-> FALSE, ver |-> 1]
NeverSetUp == [system |-> FALSE, builtin |-> FALSE, users |-> <<>>, roles |-> <<>>, sessions |-> {}]
TwoAdmins == [system |-> TRUE, builtin |-> TRUE, users |-> <<Account("a"), Account("b")>>,
              roles |-> [r \in {"r"} |-> [manages |-> TRUE, ver |-> 1]], sessions |-> {}]
S == INSTANCE ServiceProofs WITH Recipients <- Names, Chunks <- 2, MaxRequests <- 3,
        MaxFaults <- 2,
        tasks <- v1, request <- v2, worker <- v3, resting <- v4, obSeen <- v5,
        Runs <- Names,
        schDef <- v1, schState <- v2, slots <- v3, trig <- v4, graphJob <- v5, mark <- v6,
        taskLock <- v7, held <- v8, notified <- v9, ask <- v10, schSeen <- v11,
        Clients <- Names, Ids <- {1, 2}, Usernames <- {"a", "b"}, Custom <- {"r"},
        Starts <- {NeverSetUp, TwoAdmins}, MaxChanges <- 2, MaxSessions <- 2, AccFaults <- 1,
        accDisk <- v1, accMem <- v2, browser <- v3, acSeen <- v4

F == INSTANCE JobFields WITH Writers <- Names, MaxOps <- 3, MaxFaults <- 1,
        disk <- v1, mem <- v2, shard <- v3, op <- v4, list <- v5, jfSeen <- v6
J == INSTANCE JobPaging WITH Jobs <- 1 .. 3, Pages <- {1, 2}, MaxChanges <- 2,
        job <- v1, now <- v2, page <- v3

\* The Codex accounts: two sign-ins of one identity and one of another, and what a client asks of
\* the store they leave.
Identity == ("a" :> 1) @@ ("b" :> 2) @@ ("c" :> 1)
SignedIn(s, cfg) == [who |-> Identity[s], auth |-> [s |-> s, g |-> 1], cfg |-> cfg]
CodexStart(accts, active, applied, s, asks) ==
    [store |-> [rev |-> 1, accts |-> accts, active |-> active, applied |-> applied,
                backup |-> <<>>, pending |-> <<>>, ops |-> <<>>],
     live |-> [auth |-> [s |-> s, g |-> 1], cfg |-> "x"], asks |-> asks]
TwoAccounts(asks) == CodexStart(<<SignedIn("a", "x"), SignedIn("b", "y")>>, 1, TRUE, "a", asks)
CodexStarts ==
    {TwoAccounts({"activate", "restore"}), TwoAccounts({"update"}),
     TwoAccounts({"sign in"}),
     CodexStart(<<SignedIn("a", "x")>>, 0, FALSE, "b",
                {"import", "capture", "login", "delete", "sign in"})}
X == INSTANCE CodexAccounts WITH Sessions <- {"a", "b", "c"}, IdentityOf <- Identity,
        Configs <- {"y"}, Ids <- {11, 12}, Starts <- CodexStarts, MaxGeneration <- 2,
        MaxFaults <- 1,
        store <- v1, live <- v2, svc <- v3, client <- v4, attempt <- v5, cxSeen <- v6

\* The two WeChat bots: what their servers send, and what happens to them.
Inbox(id, user, kind) == [id |-> id, user |-> user, kind |-> kind]
Text(id, user) == Inbox(id, user, "text")
BotCase(inbox, first, scanned, leaves, faults, replies) ==
    [inbox |-> inbox, first |-> first, scanned |-> scanned, leaves |-> leaves, faults |-> faults,
     replies |-> replies]
BotCases ==
    {BotCase(<<<<Text(1, "u"), Text(2, "v")>>, <<>>>>, {1}, {1}, {}, 1, FALSE),
     BotCase(<<<<Text(1, "u")>>, <<Text(2, "u")>>>>, {1}, {2}, {1}, 0, TRUE),
     BotCase(<<<<Text(1, "u"), Text(2, "v"), Inbox(3, "u", "refresh")>>, <<>>>>, {1}, {}, {}, 1, TRUE),
     BotCase(<<<<Text(1, "u")>>, <<Text(2, "v")>>>>, {2}, {1}, {1}, 1, FALSE)}
T == INSTANCE WechatListener WITH Cases <- BotCases, Bots <- {1, 2}, Users <- {"u", "v"},
        Handlers <- {1}, Listeners <- {1, 2},
        files <- v1, server <- v2, lis <- v3, rep <- v4, web <- v5, reply <- v6, wlSeen <- v7

\* The workspaces there are at first, their default Agent, what is asked, how often, and the faults.
SpaceCase(first, agent, asks, n, faults) ==
    [first |-> first, agent |-> agent, asks |-> asks, n |-> n, faults |-> faults]
SpaceCases ==
    {SpaceCase({1, 2}, "", {"patch", "reorder"}, 2, 1),
     SpaceCase({1, 2}, "", {"reorder"}, 1, 2),
     SpaceCase({1, 2}, "", {"colors", "delete", "favorite"}, 2, 1),
     SpaceCase({1}, "", {"delete", "job", "create"}, 3, 1),
     SpaceCase({1}, "", {"delete"}, 1, 2),
     SpaceCase({1}, "x", {"delete", "agent", "patch"}, 3, 1),
     SpaceCase({1, 2}, "", {"presets", "delete", "rebind", "orphan"}, 3, 1),
     SpaceCase({1, 2}, "", {"presets", "delete", "rebind", "orphan"}, 4, 0)}
D == INSTANCE Workspaces WITH Clients <- Names, Spaces <- {1, 2}, Cases <- SpaceCases,
        disk <- v1, mem <- v2, op <- v3, agent <- v4, jobs <- v5, presets <- v6, view <- v7,
        wsSeen <- v8

K == INSTANCE JobFeed WITH Jobs <- {"j", "g"}, Graphs <- {"g"}, Old <- {"j"}, Clients <- {1},
        Journal <- 2, Page <- 1, MaxChanges <- 3, MaxFaults <- 1,
        job <- v1, disk <- v2, op <- v3, feed <- v4, client <- v5, jfSeen <- v6

From10 == v10 = 0 /\ v11 = 0
From9 == v9 = 0 /\ From10
From8 == v8 = 0 /\ From9
From7 == v7 = 0 /\ From8
From6 == v6 = 0 /\ From7
From5 == v5 = 0 /\ From6
From4 == v4 = 0 /\ From5

Init ==
    \/ focus = "schedule" /\ S!Sched!Init
    \/ focus = "agent" /\ C!Gate!Init /\ From8
    \/ focus = "history" /\ R!Init /\ From9
    \/ focus = "cache" /\ C!Init /\ From8
    \/ focus = "outbox" /\ S!Init /\ From6
    \/ focus = "usage" /\ U!Init /\ From10
    \/ focus = "chat" /\ I!Init
    \/ focus = "node" /\ G!Init /\ From10
    \/ focus = "eino" /\ E!Init /\ From8
    \/ focus = "acp" /\ P!Init /\ From8
    \/ focus = "accounts" /\ S!Acct!Init /\ From5
    \/ focus = "probe" /\ C!Probe!Init /\ From9
    \/ focus = "events" /\ G!Ev!Init /\ From8
    \/ focus = "library" /\ G!Lib!Init /\ From6
    \/ focus = "fields" /\ F!Init /\ From7
    \/ focus = "paging" /\ J!Init /\ From4
    \/ focus = "codex" /\ X!Init /\ From7
    \/ focus = "wechat" /\ T!Init /\ From8
    \/ focus = "spaces" /\ D!Init /\ From9
    \/ focus = "feed" /\ K!Init /\ From7

Next ==
    /\ UNCHANGED focus
    /\ \/ focus = "schedule" /\ S!Sched!Next
       \/ focus = "agent" /\ C!Gate!Next /\ UNCHANGED <<v8, v9, v10, v11>>
       \/ focus = "history" /\ R!Next /\ UNCHANGED <<v9, v10, v11>>
       \/ focus = "cache" /\ C!Next /\ UNCHANGED <<v8, v9, v10, v11>>
       \/ focus = "outbox" /\ S!Next /\ UNCHANGED <<v6, v7, v8, v9, v10, v11>>
       \/ focus = "usage" /\ U!Next /\ UNCHANGED <<v10, v11>>
       \/ focus = "chat" /\ I!Next
       \/ focus = "node" /\ G!Next /\ UNCHANGED <<v10, v11>>
       \/ focus = "eino" /\ E!Next /\ UNCHANGED <<v8, v9, v10, v11>>
       \/ focus = "acp" /\ P!Next /\ UNCHANGED <<v8, v9, v10, v11>>
       \/ focus = "accounts" /\ S!Acct!Next /\ UNCHANGED <<v5, v6, v7, v8, v9, v10, v11>>
       \/ focus = "probe" /\ C!Probe!Next /\ UNCHANGED <<v9, v10, v11>>
       \/ focus = "events" /\ G!Ev!Next /\ UNCHANGED <<v8, v9, v10, v11>>
       \/ focus = "library" /\ G!Lib!Next /\ UNCHANGED <<v6, v7, v8, v9, v10, v11>>
       \/ focus = "fields" /\ F!Next /\ UNCHANGED <<v7, v8, v9, v10, v11>>
       \/ focus = "paging" /\ J!Next /\ UNCHANGED <<v4, v5, v6, v7, v8, v9, v10, v11>>
       \/ focus = "codex" /\ X!Next /\ UNCHANGED <<v7, v8, v9, v10, v11>>
       \/ focus = "wechat" /\ T!Next /\ UNCHANGED <<v8, v9, v10, v11>>
       \/ focus = "spaces" /\ D!Next /\ UNCHANGED <<v9, v10, v11>>
       \/ focus = "feed" /\ K!Next /\ UNCHANGED <<v7, v8, v9, v10, v11>>

Spec == Init /\ [][Next]_<<focus, v1, v2, v3, v4, v5, v6, v7, v8, v9, v10, v11>>

Sym == Permutations(Names) \cup Permutations(Managers)

\* The running count of a schedule is the number of its runs, and what a trigger, an end or a
\* toggle writes to its state file is not undone by another of them.
SchedulesKept == focus = "schedule" => S!Sched!SlotsMatchRuns /\ S!Sched!ResultsAndTogglesMerge
\* A deleted Agent is cleaned up while nobody executes or edits it, and the gate agrees with the
\* lifecycle in the catalog.
CleanupExclusive == focus = "agent" => C!Gate!CleanupExclusive /\ C!Gate!GateFollowsLifecycle
\* Every call in the history has its result, once; a prompt that was taken is in it; and a Run that
\* reports success has all of its history on disk.
HistoryKept == focus = "history" => R!HistoryPaired /\ R!PromptsKept /\ R!SuccessIsSettled
\* No step but the last release closes an Agent that is leased.
ClosedUnleased ==
    [][focus = "cache" => C!ClosesUnleased]_<<focus, v1, v2, v3, v4, v5, v6, v7>>
\* No Agent or subprocess is left open that nobody can reach, and none is taken from under a Run;
\* an Agent is offered for its own environment, and what a user selected of it stays.
AgentsKept ==
    /\ focus = "cache" => C!NothingLeaks /\ C!UseUndisturbed
    /\ focus = "probe" => C!Probe!ProbeKept
\* The chunks of a recipient arrive in order, again only after a failure.
DeliveredInOrder == focus = "outbox" => S!DeliveredInOrder
\* No turn is lost or counted twice between memory and file, and a migration does not come undone;
\* the fields of a Job that two requests change at once are both kept, a withdrawn link is gone and
\* a given one opens it; who pages through the Jobs misses none, and who follows their journal;
\* a workspace's version stands for its content, its deletion takes its Jobs and not its presets;
\* of a Codex account the newest credentials are kept, and what is applied is what Codex reads.
\* What a component excepts (a record that failed or was raced, a file that came back late) its own
\* properties say.
RecordsKept ==
    /\ focus = "usage" => U!CountsKept /\ U!DirtyIsTended /\ U!MigrationSticks
    /\ focus = "fields" => F!JobFieldsKept
    /\ focus = "paging" => J!NobodySkipped
    /\ focus = "feed" => K!JobFeedKept
    /\ focus = "spaces" => D!WorkspacesKept
    /\ focus = "codex" => X!CodexKept
\* The messages of a chat are executed in order, and each is answered, in hand, or dropped by a
\* panic, never answered twice; that the answer tells of the message's own run is not part of it
\* (ReplyIsOwn).  Every message that a WeChat bot's server sent is handed on, in hand, or lost
\* with the listener or the process that had it, by one listener once; its token is filed under
\* the bot that was written to.
ChatKept ==
    /\ focus = "chat" => I!ChatKept
    /\ focus = "wechat" => T!ListenerKept
\* A node's Agent hears its prompt, its turns are counted, its sessions listed, its binding kept.
\* A reader of a run's event stream misses nothing and is not left waiting; a change of a workflow
\* builds on the version its author saw, and a repeated launch starts one run.
GraphKept ==
    /\ focus = "node" => G!NodeKept
    /\ focus = "events" => G!Ev!GraphEventsKept
    /\ focus = "library" => G!Lib!GraphLibraryKept
\* A session of the Eino CLI: its history is paired, its summary stands for the rows it was made
\* of, a prompt is heard, a turn that ended is on disk, a Run can be cancelled, usage only grows.
\* A session of an ACP subprocess is prompted with the options on record and restored after a
\* cancellation, and what it uses is counted once.
SessionsKept == (focus = "eino" => E!EinoKept) /\ (focus = "acp" => P!AcpSessionKept)
\* An administrator remains, memory is what the files say, and who is revoked is out.
AccountsKept == focus = "accounts" => S!Acct!AccountsKept
=============================================================================
