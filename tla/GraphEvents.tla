------------------------------ MODULE GraphEvents ------------------------------
(* The event stream of one graph run: the buffer in memory, the structural     *)
(* events on disk, and the web clients that read either (services/graph/       *)
(* event_buffer.go, event_buffer_reader.go, the event functions of service.go  *)
(* and runtime.go, JobGraphRunEvents in cmd/web/handler/graph.go).             *)
(* An event's id on the wire is its place in the buffer, or its line on disk.  *)
EXTENDS Naturals, Sequences, FiniteSetsExt

CONSTANTS
    Conns,          \* the clients
    Hardcap,        \* graphBufferHardcap
    GapLimit,       \* graphReplayGapLimit
    Batch,          \* graphSSEReadBatchSize
    MaxEvents, MaxResumes,
    MaxFaults       \* crashes and broken connections

VARIABLES
    evb,        \* the buffer: made?, headSeq, terminal, suspension, last reader left, cursors
    log,        \* the events published to it, in order
    lines,      \* events.jsonl
    run,        \* the run: its scheduler, its artifacts, the Job's link and the counters of bounds
    hook,       \* a hook that runs beside the scheduler: the number of its event, or 0
    client,     \* each client's connection and what it remembers
    holes       \* some stream had a hole or a repetition

vars == <<evb, log, lines, run, hook, client, holes>>

NoBuffer == [made |-> FALSE, inc |-> 0, head |-> 0, term |-> FALSE, susp |-> "no",
             left |-> "never", cur |-> <<>>]
Readers(b) == DOMAIN b.cur
Offline == [pc |-> "off", mem |-> [n |-> 0, inc |-> 0], start |-> 0, at |-> 0, hi |-> 0,
            retried |-> FALSE]

Init ==
    /\ evb = NoBuffer /\ log = <<>> /\ lines = <<>> /\ hook = 0
    /\ run = [life |-> "claimed", resumed |-> FALSE, mid |-> 0, linked |-> TRUE, located |-> TRUE,
              events |-> 0, incs |-> 0, resumes |-> 0, faults |-> 0]
    /\ client = [c \in Conns |-> Offline]
    /\ holes = FALSE

----------------------------------------------------------------------------
\* The buffer.

Slowest(b) == Min({b.cur[c] : c \in Readers(b)})
Crossed(b, tail) == IF Readers(b) = {} THEN tail ELSE Min({tail, Slowest(b)})
Cut(b, tail) == [b EXCEPT !.head = Max({b.head, Crossed(b, tail)})]

\* A reader's departure or a resumption holds the collector back for a while, below the cap.
Deferred(b, tail) ==
    \/ b.term
    \/ /\ Readers(b) = {} /\ tail - b.head <= Hardcap
       /\ b.susp = "fresh" \/ b.left = "fresh"

\* What every reader has crossed is released before the cap is looked at, so that the forced
\* release finds nothing and over the cap it is always a reader that goes.
Collections(b, tail) ==
    LET c == IF b.susp = "old" THEN [b EXCEPT !.susp = "no"] ELSE b IN
    IF Deferred(b, tail) THEN {b}
    ELSE IF tail - c.head > Hardcap /\ Readers(c) # {}
         THEN {Cut([c EXCEPT !.cur = [r \in Readers(c) \ {s} |-> c.cur[r]]], tail) :
                   s \in {r \in Readers(c) : c.cur[r] = Slowest(c)}}
         ELSE {Cut(c, tail)}

Publish(e) ==
    IF ~evb.made THEN UNCHANGED <<evb, log>>
    ELSE log' = Append(log, e) /\ evb' \in Collections(evb, Len(log) + 1)

MarkTerminal == evb' = IF evb.made THEN [evb EXCEPT !.term = TRUE] ELSE evb
Resumed(b) == [b EXCEPT !.term = FALSE, !.susp = IF Readers(b) = {} THEN "fresh" ELSE @]
eventBuffer == IF evb.made THEN evb ELSE [NoBuffer EXCEPT !.made = TRUE, !.inc = run.incs + 1]

SuspensionExpires ==
    /\ evb.made /\ evb.susp = "fresh" /\ evb' = [evb EXCEPT !.susp = "old"]
    /\ UNCHANGED <<log, lines, run, hook, client, holes>>
GraceExpires ==
    /\ evb.made /\ evb.left = "fresh" /\ evb' = [evb EXCEPT !.left = "old"]
    /\ UNCHANGED <<log, lines, run, hook, client, holes>>

----------------------------------------------------------------------------
\* The run's scheduler and its events.

\* A generation enters runGraph; a resumed one lets the collector work again.
Launch ==
    /\ run.life = "claimed"
    /\ evb' = IF run.resumed THEN Resumed(eventBuffer) ELSE eventBuffer
    /\ run' = [run EXCEPT !.life = "working", !.incs = evb'.inc]
    /\ UNCHANGED <<log, lines, hook, client, holes>>

\* The resumption fails before its generation is launched, or the run cannot be read in it.
LaunchFails ==
    /\ run.life = "claimed" /\ run.resumed
    /\ run' = [run EXCEPT !.life = "rest"]
    /\ MarkTerminal \/ UNCHANGED evb
    /\ UNCHANGED <<log, lines, hook, client, holes>>

ResumeRun ==
    /\ run.life = "rest" /\ run.resumes < MaxResumes
    /\ run' = [run EXCEPT !.life = "claimed", !.resumed = TRUE, !.located = TRUE,
                       !.resumes = @ + 1]
    /\ UNCHANGED <<evb, log, lines, hook, client, holes>>

\* The scheduler waits for its hooks (hookWG) before it gives up the control.
completeControl ==
    /\ run.life = "working" /\ run.mid = 0 /\ hook = 0
    /\ run' = [run EXCEPT !.life = "rest"]
    /\ MarkTerminal
    /\ UNCHANGED <<log, lines, hook, client, holes>>

\* A delta of an Agent goes to the buffer only.
Delta ==
    /\ run.life = "working" /\ run.mid = 0 /\ run.events < MaxEvents
    /\ run' = [run EXCEPT !.events = @ + 1]
    /\ Publish(run.events + 1)
    /\ UNCHANGED <<lines, hook, client, holes>>

\* AppendEvent of the repository knows the file from the run's location.
Stored(e) == IF run.located THEN Append(lines, e) ELSE lines

\* A structural event is appended to the file, whose error is ignored, and then published.
appendEvent ==
    /\ run.life = "working" /\ run.mid = 0 /\ run.events < MaxEvents
    /\ run' = [run EXCEPT !.events = @ + 1, !.mid = run.events + 1]
    /\ lines' \in {lines, Stored(run.events + 1)}
    /\ UNCHANGED <<evb, log, hook, client, holes>>
PublishEvent ==
    /\ run.mid # 0
    /\ run' = [run EXCEPT !.mid = 0]
    /\ Publish(run.mid)
    /\ UNCHANGED <<lines, hook, client, holes>>

\* A node's hook runs on its own, beside the scheduler. Its line needs the run's location.
\* (No step of a client tells the moment between the line and the publication apart.)
HookStarts ==
    /\ run.life = "working" /\ hook = 0 /\ run.events < MaxEvents
    /\ hook' = run.events + 1 /\ run' = [run EXCEPT !.events = @ + 1]
    /\ UNCHANGED <<evb, log, lines, client, holes>>
appendHookEvent ==
    /\ hook # 0 /\ hook' = 0
    /\ lines' = Stored(hook)
    /\ Publish(hook)
    /\ UNCHANGED <<run, client, holes>>

\* The artifacts go first, then the buffer with its readers, then the Job's link.
DeleteRun ==
    /\ run.life = "rest"
    /\ run' = [run EXCEPT !.life = "gone", !.located = FALSE]
    /\ lines' = <<>> /\ evb' = NoBuffer /\ log' = <<>>
    /\ UNCHANGED <<hook, client, holes>>
ClearLinkage ==
    /\ run.life = "gone" /\ run.linked
    /\ run' = [run EXCEPT !.linked = FALSE]
    /\ UNCHANGED <<evb, log, lines, hook, client, holes>>

Crash ==
    /\ run.faults < MaxFaults /\ run.life # "gone"
    /\ run' = [run EXCEPT !.faults = @ + 1, !.life = "rest", !.mid = 0, !.located = FALSE]
    /\ evb' = NoBuffer /\ log' = <<>> /\ hook' = 0
    /\ client' = [c \in Conns |-> [Offline EXCEPT !.mem = client[c].mem]]
    /\ UNCHANGED <<lines, holes>>

----------------------------------------------------------------------------
\* The clients.

Goes(c, rec) == client' = [client EXCEPT ![c] = rec]
Forgets(c) == Goes(c, Offline)
Hangs(c) == Goes(c, [Offline EXCEPT !.mem = client[c].mem])

\* resolveJobGraphRun finds the Job's run ...
Resolve(c) ==
    /\ client[c].pc = "off" /\ run.linked
    /\ Goes(c, [client[c] EXCEPT !.pc = "resolved", !.start = client[c].mem.n])
    /\ UNCHANGED <<evb, log, lines, run, hook, holes>>
\* ... and registers its location, whatever became of the run since; a fresh client starts at the
\* tail of the buffer.
Register(c) ==
    /\ client[c].pc = "resolved"
    /\ run' = [run EXCEPT !.located = TRUE]
    /\ IF run.life = "gone" THEN Forgets(c)
       ELSE Goes(c, [client[c] EXCEPT !.pc = "snap",
                         !.start = IF @ = 0 /\ evb.made THEN Len(log) ELSE @])
    /\ UNCHANGED <<evb, log, lines, hook, holes>>

AcceptsCollected(s) == s <= Len(log) /\ Len(log) - s <= GapLimit
Accepts(s) == s >= evb.head /\ s <= Len(log) /\ Len(log) - s <= GapLimit
Subscribe(c) ==
    LET me == client[c] fresh == me.mem.n = 0 IN
    /\ me.pc = "snap" /\ evb.made
    /\ IF Accepts(me.start)
       THEN /\ evb' = [evb EXCEPT !.cur = [r \in Readers(evb) \cup {c} |->
                                               IF r = c THEN me.start ELSE evb.cur[r]],
                                  !.left = "never", !.susp = "no"]
            /\ Goes(c, [me EXCEPT !.pc = "live", !.at = 0])
       ELSE /\ UNCHANGED evb
            /\ IF fresh /\ ~me.retried
               THEN Goes(c, [me EXCEPT !.start = Len(log), !.retried = TRUE])
               ELSE Forgets(c)      \* 410: the client reconciles and connects afresh
    /\ UNCHANGED <<log, lines, run, hook, holes>>

ListReplayEvents(start) == SubSeq(lines, start + 1, Len(lines))
\* Without a buffer the lines after the client's are sent, then the connection idles.
Replay(c) ==
    LET me == client[c] IN
    /\ me.pc = "snap" /\ ~evb.made
    /\ Goes(c, [me EXCEPT !.pc = "idle",
                    !.mem = IF ListReplayEvents(me.start) = <<>> THEN @
                            ELSE [n |-> Len(lines), inc |-> 0]])
    /\ UNCHANGED <<evb, log, lines, run, hook, holes>>

\* One batch after the cursor; a reader that was evicted, or whose buffer is closed, ends.
Holds(c) == evb.made /\ c \in Readers(evb)
Read(c) ==
    LET me == client[c] IN
    /\ me.pc = "live" /\ me.at = 0
    /\ IF Holds(c)
       THEN /\ evb.cur[c] < Len(log)
            /\ Goes(c, [me EXCEPT !.at = Max({evb.cur[c], evb.head}) + 1,
                            !.hi = Min({Len(log), Max({evb.cur[c], evb.head}) + Batch})])
       ELSE Hangs(c)
    /\ UNCHANGED <<evb, log, lines, run, hook, holes>>

\* A client that has an event of this buffer gets another one than the next.
Skips(c, s) ==
    LET m == client[c].mem IN m.n # 0 /\ m.inc = run.incs /\ s # m.n + 1

AckedTo(c, s) ==
    IF Holds(c)
    THEN Collections([evb EXCEPT !.cur[c] = Max({@, s})], Len(log))
    ELSE {evb}
Write(c) ==
    LET me == client[c] IN
    /\ me.pc = "live" /\ me.at # 0
    /\ Goes(c, [me EXCEPT !.mem = [n |-> me.at, inc |-> run.incs],
                          !.at = IF @ = me.hi THEN 0 ELSE @ + 1])
    /\ evb' \in AckedTo(c, me.at)
    /\ holes' = (holes \/ Skips(c, me.at))
    /\ UNCHANGED <<log, lines, run, hook>>

Closed(c) ==
    IF ~Holds(c) THEN {evb}
    ELSE LET rest == [r \in Readers(evb) \ {c} |-> evb.cur[r]]
             left == IF DOMAIN rest = {} /\ ~evb.term THEN "fresh" ELSE evb.left
         IN  Collections([evb EXCEPT !.cur = rest, !.left = left], Len(log))
\* The connection breaks, with the event being written delivered or not.
Drop(c) ==
    LET me == client[c] IN
    /\ me.pc \in {"live", "idle"} /\ run.faults < MaxFaults
    /\ run' = [run EXCEPT !.faults = @ + 1]
    /\ evb' \in Closed(c)
    /\ \/ Hangs(c) /\ UNCHANGED holes
       \/ /\ me.at # 0
          /\ Goes(c, [Offline EXCEPT !.mem = [n |-> me.at, inc |-> run.incs]])
          /\ holes' = (holes \/ Skips(c, me.at))
    /\ UNCHANGED <<log, lines, hook>>

----------------------------------------------------------------------------
Next ==
    \/ SuspensionExpires \/ GraceExpires
    \/ Launch \/ LaunchFails \/ ResumeRun \/ completeControl
    \/ Delta \/ appendEvent \/ PublishEvent
    \/ HookStarts \/ appendHookEvent
    \/ DeleteRun \/ ClearLinkage \/ Crash
    \/ \E c \in Conns :
           \/ Resolve(c) \/ Register(c) \/ Subscribe(c) \/ Replay(c)
           \/ Read(c) \/ Write(c) \/ Drop(c)

Spec == Init /\ [][Next]_vars

----------------------------------------------------------------------------
\* A client that returns with an event of the present buffer gets the next one, each once and in
\* order, whatever was collected, evicted or refused in between.
NoHole == ~holes

\* The collector works while a generation does and rests with the run, also when a resumption
\* fails: a late refresh still finds the tail.
TerminalAtRest ==
    evb.made => (evb.term <=> run.life \in {"rest", "claimed"} /\ (run.resumed \/ run.life = "rest"))

\* No reader is left in a buffer that nobody publishes to.
ReadersAreServed == \A c \in Readers(evb) : client[c].pc = "live"

\* A deleted run leaves neither lines nor a buffer behind: no hook outlives its generation.
DeletedIsGone == run.life = "gone" => lines = <<>> /\ ~evb.made

GraphEventsKept == NoHole /\ TerminalAtRest /\ ReadersAreServed /\ DeletedIsGone

(* What the code does not ensure (see the README). *)
\* Buffer places and file lines are one numbering: a client that returns with the one is not
\* served by the other.
OneNumbering ==
    [][\A c \in Conns : client[c].mem.n # 0 /\ Subscribe(c) /\ client'[c].pc = "live"
            => client[c].mem.inc = run.incs]_vars
\* Only a reader that is behind is evicted.
EvictedIsBehind ==
    [][\A c \in Conns : Holds(c) /\ evb'.made /\ c \notin DOMAIN evb'.cur /\ ~Drop(c)
            => evb.cur[c] < Len(log)]_vars
\* "No new events can arrive" on a connection that was served from disk.
IdleIsRight == \A c \in Conns : client[c].pc = "idle" => run.life # "working"
=============================================================================
