----------------------------- MODULE EventBuffer -----------------------------
(***************************************************************************)
(* The event buffer of one job (services/job/event_buffer*.go), the run    *)
(* that publishes into it, and the SSE connections that read from it       *)
(* (JobEvents in cmd/web/handler/job_lifecycle.go), each for a client that *)
(* keeps the number of the last event it received and reconnects with it.  *)
(*                                                                         *)
(* Every method of the buffer is one critical section of b.mu and one      *)
(* action here; gcLocked is the operator Collect.  The slice of events,    *)
(* ordered by its sequence numbers, is a set of events.  A round is named  *)
(* by the number of its first event, 0 meaning no round.  A reader is the  *)
(* current connection of a client.  Timers have expired or not.  Transient *)
(* events carry no number and are left out.                                *)
(***************************************************************************)
EXTENDS Integers, Sequences, FiniteSets

CONSTANTS
  Client,       (* clients, each with at most one connection                  *)
  Hardcap,      (* bufferHardcap                                              *)
  ReplayLimit,  (* replayGapLimit                                             *)
  Slack,        (* clampSlack                                                 *)
  BatchSize,    (* sseReadBatchSize                                           *)
  MaxSeq        (* bound: how many events are published                       *)

ASSUME BufferAssumption ==
  /\ Hardcap \in Nat \ {0} /\ ReplayLimit \in Nat \ {0} /\ BatchSize \in Nat \ {0}
  /\ Slack \in 0 .. ReplayLimit
  /\ MaxSeq \in Nat

VARIABLES
  buf,    (* the buffer                                                       *)
  phase,  (* the run that publishes                                           *)
  pc,     (* the connection of each client                                    *)
  last,   (* the Last-Event-ID of each client                                 *)
  fresh,  (* the sequence a retried subscription was told                     *)
  at,     (* history: how many events there were when fresh was read          *)
  batch   (* the numbers of the events a connection has read and not written  *)

vars == <<buf, phase, pc, last, fresh, at, batch>>

Event == [seq : Nat, classB : BOOLEAN, round : Nat, released : BOOLEAN]
Round == [start : Nat, end : Nat]

Buffer ==
  [events : SUBSET Event, nextSeq : Nat, headSeq : Nat, rounds : SUBSET Round, open : Nat,
   readers : SUBSET Client, cursor : [Client -> Nat], closed : BOOLEAN,
   terminal : BOOLEAN, suspended : BOOLEAN, grace : BOOLEAN,
   passed : SUBSET Client]  \* history: whose connection lost a late event to the hard cap

Phase == {"idle", "ready", "round", "ended"}
ConnPc == {"off", "retry", "resub", "live", "write", "ack", "closing", "gone"}

\* Every variable has its type.
TypeOK ==
  /\ buf \in Buffer
  /\ phase \in Phase
  /\ pc \in [Client -> ConnPc]
  /\ last \in [Client -> Nat] /\ fresh \in [Client -> Nat] /\ at \in [Client -> Nat]
  /\ batch \in [Client -> Seq(Nat)]

Init ==
  /\ buf = [events |-> {}, nextSeq |-> 0, headSeq |-> 0, rounds |-> {}, open |-> 0,
            readers |-> {}, cursor |-> [c \in Client |-> 0], closed |-> FALSE,
            terminal |-> FALSE, suspended |-> FALSE, grace |-> FALSE, passed |-> {}]
  /\ phase = "idle"
  /\ pc = [c \in Client |-> "off"]
  /\ last = [c \in Client |-> 0] /\ fresh = [c \in Client |-> 0]
  /\ at = [c \in Client |-> 0]
  /\ batch = [c \in Client |-> <<>>]

(***************************************************************************)
(* gcLocked.                                                               *)
(***************************************************************************)
\* Every reader's cursor has crossed s (minCursorLocked; with no reader, any s).
Crossed(b, s) == \A r \in b.readers : b.cursor[r] >= s

\* First pass: state events outside a round go when crossed, a round as a whole.
Releasable(b, e) ==
  /\ Crossed(b, e.seq)
  /\ IF e.round = 0
     THEN e.classB
     ELSE \E r \in b.rounds : r.start = e.round /\ r.end # 0 /\ Crossed(b, r.end)

Marked(b) ==
  [b EXCEPT !.events = {[e EXCEPT !.released = @ \/ Releasable(b, e)] : e \in @}]

\* A late event, a chunk of no round, is never released by the first pass: what is
\* released behind it stays, until the hard cap releases the late event as well.
Late(e) == e.round = 0 /\ ~e.classB

Forced(b) == \E e \in b.events : Late(e) /\ ~e.released /\ Crossed(b, e.seq)

\* Over the hard cap everything the readers have crossed goes, or else ...
Consumed(b) ==
  [b EXCEPT !.events = {[e EXCEPT !.released = @ \/ Crossed(b, e.seq)] : e \in @},
            !.passed = IF Forced(b) THEN @ \cup b.readers ELSE @]

\* ... a reader that is furthest behind is closed.
Stuck(b) == {r \in b.readers : \A s \in b.readers : b.cursor[r] <= b.cursor[s]}

Evicted(b, r) == [b EXCEPT !.readers = @ \ {r}]

Relieved(b) ==
  IF Cardinality(b.events) <= Hardcap THEN {b}
  ELSE IF \E e \in b.events : ~e.released /\ Crossed(b, e.seq) THEN {Consumed(b)}
  ELSE IF b.readers = {} THEN {b}
  ELSE {Consumed(Evicted(b, r)) : r \in Stuck(b)}

\* Second pass: only a released prefix is dropped.
Prefix(b) == {e \in b.events : \A f \in b.events : f.seq <= e.seq => f.released}

Forgotten(b) ==
  {r \in b.rounds : r.end # 0 /\ \E e \in Prefix(b) : e.round = r.start /\ e.seq = r.end}

Cut(b) ==
  [b EXCEPT !.events = @ \ Prefix(b),
            !.rounds = @ \ Forgotten(b),
            !.headSeq = IF Prefix(b) = {} THEN @
                        ELSE CHOOSE s \in {e.seq : e \in Prefix(b)} :
                               \A e \in Prefix(b) : e.seq <= s]

\* GC is off after a terminal event, until a reader comes back after a resume, and
\* for a while after the last reader left.
Deferred(b) ==
  \/ b.terminal
  \/ b.readers = {} /\ (b.suspended \/ b.grace) /\ Cardinality(b.events) <= Hardcap

Collect(b) == IF Deferred(b) THEN {b} ELSE {Cut(r) : r \in Relieved(Marked(b))}

(***************************************************************************)
(* Publishing.  classifyEvent tells round starts, chunks of a round        *)
(* (A-class), round ends, terminal events and other state events apart.    *)
(***************************************************************************)
ClassB(kind) == kind # "chunk"

Appended(b, kind) ==
  LET seq   == b.nextSeq + 1
      round == IF kind = "start" THEN seq ELSE b.open
      event == [seq |-> seq, classB |-> ClassB(kind), round |-> round, released |-> FALSE]
  IN  [b EXCEPT !.nextSeq = seq,
                !.events = @ \cup {event},
                !.rounds = CASE kind = "start" -> @ \cup {[start |-> seq, end |-> 0]}
                             [] kind = "end" -> {[r EXCEPT !.end = IF r.start = round THEN seq ELSE @]
                                                 : r \in @}
                             [] OTHER -> @,
                !.open = CASE kind = "start" -> seq [] kind = "end" -> 0 [] OTHER -> @,
                !.terminal = @ \/ kind = "terminal"]

Publish(kind) ==
  /\ ~buf.closed /\ buf.nextSeq < MaxSeq
  /\ \E b \in Collect(Appended(buf, kind)) : buf' = b
  /\ UNCHANGED <<pc, last, fresh, at, batch>>

\* SendMessage resumes the collector before the run publishes; resumeGC does nothing
\* while the job's buffer has not been created.
ResumeGC ==
  /\ phase = "idle" /\ ~buf.closed
  /\ phase' = "ready"
  /\ \/ buf' = [buf EXCEPT !.terminal = FALSE, !.suspended = @ \/ buf.readers = {}]
     \/ buf.nextSeq = 0 /\ UNCHANGED buf
  /\ UNCHANGED <<pc, last, fresh, at, batch>>

\* executeAgentTurn opens the round, publishRunOutcome or closePanicRound ends it.
RunStarted == phase = "ready" /\ phase' = "round" /\ Publish("start")
Chunk == phase = "round" /\ UNCHANGED phase /\ Publish("chunk")
RunOutcome == phase = "round" /\ phase' = "ended" /\ Publish("end")

\* publishTerminalEvent; a run that fails early has no round.
JobTerminal == phase \in {"ready", "ended"} /\ phase' = "idle" /\ Publish("terminal")

\* Titles, queue changes, usage: at any time.
State == UNCHANGED phase /\ Publish("state")

\* lateTerminalStitch keeps its handler across an unlock and a disk write: its
\* event may come after the round's end.
Stitched ==
  /\ phase = "ended" \/ (phase = "idle" /\ buf.terminal)
  /\ UNCHANGED phase
  /\ Publish("chunk")

\* The job is deleted.
CloseBuffer ==
  /\ ~buf.closed
  /\ buf' = [buf EXCEPT !.closed = TRUE, !.events = {}]
  /\ UNCHANGED <<phase, pc, last, fresh, at, batch>>

SuspensionExpires ==
  /\ buf.suspended
  /\ buf' = [buf EXCEPT !.suspended = FALSE]
  /\ UNCHANGED <<phase, pc, last, fresh, at, batch>>

GraceExpires ==
  /\ buf.grace
  /\ buf' = [buf EXCEPT !.grace = FALSE]
  /\ UNCHANGED <<phase, pc, last, fresh, at, batch>>

(***************************************************************************)
(* Subscribing.                                                            *)
(***************************************************************************)
Larger(m, n) == IF m < n THEN n ELSE m

\* Mutant of SnapshotSeq: the clamp leaves no slack.
SnapshotSeqTight(b) ==
  IF b.open # 0 /\ \E r \in b.rounds : r.start = b.open
  THEN LET start == b.open - 1
           seq == IF b.nextSeq - start > ReplayLimit THEN b.nextSeq - ReplayLimit ELSE start
       IN  Larger(seq, b.headSeq)
  ELSE b.nextSeq

SnapshotSeq(b) ==
  IF b.open # 0 /\ \E r \in b.rounds : r.start = b.open
  THEN LET start == b.open - 1
           seq == IF b.nextSeq - start > ReplayLimit - Slack
                  THEN b.nextSeq - ReplayLimit + Slack
                  ELSE start
       IN  Larger(seq, b.headSeq)
  ELSE b.nextSeq

\* Mutant of Accepts: the head of the buffer is not looked at.
AcceptsGone(b, s) ==
  /\ ~b.closed
  /\ s <= b.nextSeq
  /\ b.nextSeq - s <= ReplayLimit

Accepts(b, s) ==
  /\ ~b.closed
  /\ b.headSeq <= s /\ s <= b.nextSeq
  /\ b.nextSeq - s <= ReplayLimit

Subscribe(c, s) ==
  /\ Accepts(buf, s)
  /\ buf' = [buf EXCEPT !.readers = @ \cup {c}, !.cursor[c] = s,
                        !.suspended = FALSE, !.grace = FALSE, !.passed = @ \ {c}]
  /\ pc' = [pc EXCEPT ![c] = "live"]

\* The client fetches the snapshot: on a first visit and after 410.
Reload(c) ==
  /\ pc[c] \in {"off", "gone"} /\ ~buf.closed
  /\ last' = [last EXCEPT ![c] = SnapshotSeq(buf)]
  /\ pc' = [pc EXCEPT ![c] = "off"]
  /\ UNCHANGED <<buf, phase, fresh, at, batch>>

Connect(c) ==
  /\ pc[c] = "off" /\ ~buf.closed
  /\ \/ Subscribe(c, last[c])
     \/ /\ ~Accepts(buf, last[c])
        /\ pc' = [pc EXCEPT ![c] = IF last[c] > 0 THEN "retry" ELSE "gone"]
        /\ UNCHANGED buf
  /\ UNCHANGED <<phase, last, fresh, at, batch>>

\* The handler retries a rejected subscription once, with the current sequence.
RetrySeq(c) ==
  /\ pc[c] = "retry"
  /\ fresh' = [fresh EXCEPT ![c] = SnapshotSeq(buf)]
  /\ at' = [at EXCEPT ![c] = buf.nextSeq]
  /\ pc' = [pc EXCEPT ![c] = "resub"]
  /\ UNCHANGED <<buf, phase, last, batch>>

Resubscribe(c) ==
  /\ pc[c] = "resub"
  /\ \/ Subscribe(c, fresh[c])
     \/ ~Accepts(buf, fresh[c]) /\ pc' = [pc EXCEPT ![c] = "gone"] /\ UNCHANGED buf
  /\ fresh' = [fresh EXCEPT ![c] = 0] /\ at' = [at EXCEPT ![c] = 0]
  /\ UNCHANGED <<phase, last, batch>>

(***************************************************************************)
(* A connection's loop: Read copies events out, each is written to the     *)
(* client and then acknowledged.                                           *)
(***************************************************************************)
Held(b) == {e.seq : e \in b.events}

\* Mutant of FirstOf: the newest n numbers of S.
NewestOf(S, n) ==
  LET rank(s) == Cardinality({t \in S : t >= s})
      m == IF Cardinality(S) < n THEN Cardinality(S) ELSE n
  IN  [k \in 1 .. m |-> CHOOSE s \in S : rank(s) = m + 1 - k]

\* The first n numbers of S in order.
FirstOf(S, n) ==
  LET rank(s) == Cardinality({t \in S : t <= s})
      m == IF Cardinality(S) < n THEN Cardinality(S) ELSE n
  IN  [k \in 1 .. m |-> CHOOSE s \in S : rank(s) = k]

Readable(c) == buf.cursor[c] < buf.nextSeq

Read(c) ==
  /\ pc[c] = "live"
  /\ c \in buf.readers /\ ~buf.closed
  /\ Readable(c)
  /\ LET rest == {s \in Held(buf) : s > buf.cursor[c]}
     IN  IF rest # {}
         THEN /\ batch' = [batch EXCEPT ![c] = FirstOf(rest, BatchSize)]
              /\ pc' = [pc EXCEPT ![c] = "write"]
              /\ UNCHANGED buf
         ELSE /\ buf' = [buf EXCEPT !.cursor[c] = buf.nextSeq]
              /\ UNCHANGED <<batch, pc>>
  /\ UNCHANGED <<phase, last, fresh, at>>

Write(c) ==
  /\ pc[c] = "write"
  /\ last' = [last EXCEPT ![c] = Head(batch[c])]
  /\ pc' = [pc EXCEPT ![c] = "ack"]
  /\ UNCHANGED <<buf, phase, fresh, at, batch>>

\* A write that fails or times out may still reach the client.
WriteFails(c) ==
  /\ pc[c] = "write"
  /\ \/ last' = [last EXCEPT ![c] = Head(batch[c])]
     \/ UNCHANGED last
  /\ batch' = [batch EXCEPT ![c] = <<>>]
  /\ pc' = [pc EXCEPT ![c] = "closing"]
  /\ UNCHANGED <<buf, phase, fresh, at>>

\* Mutant of AckedTo: the whole batch is acknowledged with its first event.
AckedToBatch(c) == batch[c][Len(batch[c])]

AckedTo(c) == Head(batch[c])

Ack(c) ==
  /\ pc[c] = "ack"
  /\ \E b \in Collect([buf EXCEPT !.cursor[c] = Larger(@, AckedTo(c))]) : buf' = b
  /\ batch' = [batch EXCEPT ![c] = Tail(@)]
  /\ pc' = [pc EXCEPT ![c] = IF Len(batch[c]) = 1 THEN "live" ELSE "write"]
  /\ UNCHANGED <<phase, last, fresh, at>>

\* Read returns closed: the reader was evicted or the buffer is gone.
ReadClosed(c) ==
  /\ pc[c] = "live"
  /\ c \notin buf.readers \/ buf.closed
  /\ pc' = [pc EXCEPT ![c] = "closing"]
  /\ UNCHANGED <<buf, phase, last, fresh, at, batch>>

\* The client goes away.
Disconnect(c) ==
  /\ pc[c] = "live"
  /\ pc' = [pc EXCEPT ![c] = "closing"]
  /\ UNCHANGED <<buf, phase, last, fresh, at, batch>>

CloseReader(c) ==
  /\ pc[c] = "closing"
  /\ IF c \in buf.readers
     THEN LET rest == buf.readers \ {c}
              left == [buf EXCEPT !.readers = rest,
                                  !.grace = @ \/ (rest = {} /\ ~buf.terminal)]
          IN  \E b \in Collect(left) : buf' = b
     ELSE UNCHANGED buf
  /\ pc' = [pc EXCEPT ![c] = "off"]
  /\ UNCHANGED <<phase, last, fresh, at, batch>>

----------------------------------------------------------------------------
Connection(c) ==
  \/ RetrySeq(c) \/ Resubscribe(c)
  \/ Read(c) \/ Write(c) \/ WriteFails(c) \/ Ack(c) \/ ReadClosed(c) \/ CloseReader(c)

Publisher ==
  \/ ResumeGC \/ RunStarted \/ Chunk \/ RunOutcome \/ JobTerminal \/ State \/ Stitched
  \/ CloseBuffer

Timer == SuspensionExpires \/ GraceExpires

Next ==
  \/ Publisher
  \/ Timer
  \/ \E c \in Client : Connection(c) \/ Reload(c) \/ Connect(c) \/ Disconnect(c)

Spec == Init /\ [][Next]_vars

\* A handler goroutine runs on; clients, the agent and the timers need not.
FairSpec == Spec /\ \A c \in Client : WF_vars(Connection(c))

(***************************************************************************)
(* Properties.                                                             *)
(***************************************************************************)
\* gcLocked never drops an event that a connected reader has not acknowledged, but for
\* the readers connected while the hard cap forced a late event out: what a reader before
\* them had released behind it goes with it.
LiveReaderNotOvertaken ==
  \A r \in buf.readers \ buf.passed : buf.headSeq <= buf.cursor[r]

\* What a connection is about to write continues what it has acknowledged, with no
\* event missing and none twice, whatever the collector did since it was read, with the
\* same exception.
StreamComplete ==
  \A c \in Client \ buf.passed :
    \A k \in DOMAIN batch[c] : batch[c][k] = buf.cursor[c] + k

\* A sequence from SnapshotSeq is good for Subscribe while at most clampSlack events
\* are published and none is collected past it.
SlackSuffices ==
  \A c \in Client :
    /\ pc[c] = "resub" /\ ~buf.closed
    /\ buf.nextSeq - at[c] <= Slack
    /\ buf.headSeq <= fresh[c]
    => Accepts(buf, fresh[c])

\* A client that resumes with its Last-Event-ID receives the next event, or is told
\* that it is gone: no gap looks like a resumption.
NoSilentGap ==
  [][\A c \in Client : pc[c] = "write" /\ last'[c] # last[c] => last'[c] = last[c] + 1]_vars

\* The handler has just written event n to client c.
Sent(c, n) == pc[c] = "ack" /\ last[c] = n

\* Every event published after what a connected client has acknowledged is written to
\* that client, or its connection ends, also when late results leave holes among the
\* released events; not to a reader connected while the hard cap forced a late one out.
EventDelivered ==
  \A c \in Client, n \in 1 .. MaxSeq :
    (c \in buf.readers /\ buf.cursor[c] < n /\ n <= buf.nextSeq)
      ~> (Sent(c, n) \/ c \notin buf.readers \/ c \in buf.passed \/ buf.closed)
=============================================================================
