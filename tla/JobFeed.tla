-------------------------------- MODULE JobFeed --------------------------------
(* What clients learn of the lifecycle of all Jobs (services/job/observation):  *)
(* a journal of changes with a sequence number, which each change of a Job      *)
(* joins under the Job's persistence lock, and polls that answer with the Jobs  *)
(* that are active now and a page of the changes after the client's cursor.     *)
EXTENDS Naturals, Sequences, TLC

CONSTANTS
    Jobs, Graphs, Old,  \* the Jobs, those of them that run a graph, those there are at first
    Clients,
    Journal, Page,      \* the changes the journal holds, and those in an answer
    MaxChanges, MaxFaults

VARIABLES
    job, disk,      \* by Job, its state in memory and in job.json
    op,             \* by Job, who has its persistence lock and how far it is
    feed,           \* the tracker: epoch, sequence, fingerprints and journal
    client,         \* by client, its cursor and what it believes of each Job
    jfSeen          \* the Jobs that were made, the changes so far, what failed and what was undone

jfVars == <<job, disk, op, feed, client, jfSeen>>

-----------------------------------------------------------------------------
None == <<>>
Gone == [status |-> "gone", run |-> 0]
Unknown == [status |-> "unknown", run |-> 0]
State(status, run) == [status |-> status, run |-> run]
Active(s) == s # None /\ s.status \in {"pending", "running"}
Tracker(epoch) ==
    [epoch |-> epoch, seq |-> 0, started |-> FALSE, prints |-> [j \in Jobs |-> None], events |-> <<>>]

Init ==
    /\ job = [j \in Jobs |-> IF j \in Old THEN State("completed", 0) ELSE None]
    /\ jfSeen = [made |-> Old, changes |-> 0, faults |-> 0, odd |-> {}]
    /\ disk = job
    /\ op = [j \in Jobs |-> None]
    /\ feed = Tracker(1)
    /\ client = [c \in Clients |-> None]

MayFail == jfSeen.faults < MaxFaults
Faulty == [jfSeen EXCEPT !.faults = @ + 1]

(* persistLock: one change of a Job at a time.                                 *)
Changes(j) ==
    /\ op[j] = None /\ jfSeen.changes < MaxChanges
Changed == [jfSeen EXCEPT !.changes = @ + 1]
Does(j, r) == op' = [op EXCEPT ![j] = r]
Saved(j, s) == disk' = [disk EXCEPT ![j] = s]
Holds(j, s) == job' = [job EXCEPT ![j] = s]

-----------------------------------------------------------------------------
(* A Job is created on disk, in memory and then in the journal.                *)
Create(j) ==
    /\ Changes(j) /\ j \notin jfSeen.made
    /\ Saved(j, State("pending", 0)) /\ Holds(j, State("pending", 0))
    /\ Does(j, [at |-> "record", new |-> State("pending", 0)])
    /\ jfSeen' = [Changed EXCEPT !.made = @ \cup {j}]
    /\ UNCHANGED <<feed, client>>

(* SendMessage: running in memory, then on disk; a failing save takes it back. *)
Start(j) ==
    /\ Changes(j) /\ j \notin Graphs /\ job[j] # None /\ job[j].status # "running"
    /\ Holds(j, State("running", jfSeen.changes + 1))
    /\ Does(j, [at |-> "start", prior |-> job[j]])
    /\ jfSeen' = Changed
    /\ UNCHANGED <<disk, feed, client>>

StartSaved(j) ==
    /\ op[j] # None /\ op[j].at = "start"
    /\ \/ /\ Saved(j, job[j]) /\ Does(j, [at |-> "record", new |-> job[j]])
          /\ UNCHANGED <<job, jfSeen>>
       \/ /\ MayFail /\ jfSeen' = [Faulty EXCEPT !.odd = @ \cup {j}]
          /\ Holds(j, op[j].prior) /\ Does(j, None) /\ disk' = disk
    /\ UNCHANGED <<feed, client>>

(* A Run ends: the journal hears of it although every save of it failed.       *)
Finish(j) ==
    /\ Changes(j) /\ j \notin Graphs /\ job[j] # None /\ job[j].status = "running"
    /\ Holds(j, State("completed", job[j].run))
    /\ Does(j, [at |-> "finish"])
    /\ jfSeen' = Changed
    /\ UNCHANGED <<disk, feed, client>>

FinishSaved(j) ==
    /\ op[j] # None /\ op[j].at = "finish"
    /\ \/ Saved(j, job[j]) /\ jfSeen' = jfSeen
       \/ MayFail /\ jfSeen' = Faulty /\ disk' = disk
    /\ Does(j, [at |-> "record", new |-> job[j]])
    /\ UNCHANGED <<job, feed, client>>

(* A save that is about something else, of the Job as it is.                   *)
Resave(j) ==
    /\ Changes(j) /\ j \notin Graphs /\ job[j] # None
    /\ Saved(j, job[j]) /\ Does(j, [at |-> "record", new |-> job[j]])
    /\ jfSeen' = Changed
    /\ UNCHANGED <<job, feed, client>>

(* SetGraphRunState: on disk, then in memory, then in the journal; an end that *)
(* cannot be saved goes to the journal all the same.                           *)
SetGraphRunState(j, s) ==
    /\ Changes(j) /\ j \in Graphs /\ job[j] # None
    /\ \/ Saved(j, s) /\ Does(j, [at |-> "apply", new |-> s]) /\ jfSeen' = Changed
       \/ /\ MayFail /\ disk' = disk
          /\ IF Active(s)
             THEN op' = op /\ jfSeen' = [Changed EXCEPT !.faults = @ + 1]
             ELSE /\ Does(j, [at |-> "record", new |-> s])
                  /\ jfSeen' = [Changed EXCEPT !.faults = @ + 1, !.odd = @ \cup {j}]
    /\ UNCHANGED <<job, feed, client>>

GraphStates(j) ==
    IF ~Active(job[j]) THEN {State("running", jfSeen.changes + 1)}
    ELSE {State(s, job[j].run) : s \in {"running", "stopped", "completed"}}

GraphApplied(j) ==
    /\ op[j] # None /\ op[j].at = "apply"
    /\ Holds(j, op[j].new) /\ Does(j, [at |-> "record", new |-> op[j].new])
    /\ UNCHANGED <<disk, feed, client, jfSeen>>

(* A deleted Job is in no answer, and its deletion is not in the journal.      *)
MarkDeleted(j) ==
    /\ Changes(j) /\ job[j] # None
    /\ Holds(j, None) /\ Saved(j, None) /\ jfSeen' = Changed
    /\ UNCHANGED <<op, feed, client>>

-----------------------------------------------------------------------------
(* What the journal has on record of the Job already is not repeated; the      *)
(* oldest change goes when it is full.                                         *)
Appended(j, s) ==
    LET new == Append(feed.events, [seq |-> feed.seq + 1, j |-> j, s |-> s, prev |-> feed.prints[j]]) IN
    [feed EXCEPT !.seq = @ + 1, !.prints[j] = s,
                 !.events = IF Len(new) > Journal THEN Tail(new) ELSE new]

Record(j) ==
    /\ op[j] # None /\ op[j].at = "record"
    /\ Does(j, None)
    /\ IF feed.prints[j] = op[j].new
       THEN UNCHANGED <<feed, jfSeen>>
       ELSE /\ feed' = Appended(j, op[j].new)
            /\ jfSeen' = IF job[j] = op[j].new THEN [jfSeen EXCEPT !.odd = @ \ {j}] ELSE jfSeen
    /\ UNCHANGED <<job, disk, client>>

(* The first poll puts what is active on record without a change.              *)
Started ==
    IF feed.started THEN feed
    ELSE [feed EXCEPT !.started = TRUE,
                      !.prints = [j \in Jobs |->
                          IF @[j] = None /\ Active(job[j]) THEN job[j] ELSE @[j]]]

Expired(seq) == feed.events # <<>> /\ seq + 1 < feed.events[1].seq
Covered(c) ==
    /\ client[c] # None /\ client[c].epoch = feed.epoch
    /\ client[c].seq <= feed.seq /\ ~Expired(client[c].seq)

\* What a client believes after an answer: what is active is as listed, and nothing else is active.
Believes(j, before) == IF Active(job[j]) THEN job[j] ELSE IF Active(before) THEN Gone ELSE before

(* ObserveJobs: the active Jobs and the cursor are of one moment. A cursor the *)
(* journal does not cover starts over.                                         *)
Reset(c) ==
    /\ ~Covered(c)
    /\ feed' = Started
    /\ client' = [client EXCEPT ![c] =
                    [epoch |-> feed.epoch, seq |-> feed.seq, told |-> 0, from |-> feed.seq,
                     view |-> [j \in Jobs |-> Believes(j, Unknown)], then |-> job]]
    /\ UNCHANGED <<job, disk, op, jfSeen>>

Poll(c) ==
    LET after == SelectSeq(feed.events, LAMBDA e : e.seq > client[c].seq)
        page == IF Len(after) > Page THEN SubSeq(after, 1, Page) ELSE after
        Last(j) == LET at == {i \in DOMAIN page : page[i].j = j} IN
                   IF at = {} THEN client[c].view[j]
                   ELSE page[CHOOSE i \in at : \A k \in at : k <= i].s
    IN
    /\ Covered(c)
    /\ client' = [client EXCEPT ![c] =
                    [@ EXCEPT !.epoch = feed.epoch,
                              !.seq = IF page = <<>> THEN feed.seq ELSE page[Len(page)].seq,
                              !.told = @ + Len(page),
                              !.view = [j \in Jobs |-> Believes(j, Last(j))]]]
    /\ UNCHANGED <<job, disk, op, feed, jfSeen>>

(* The journal is in memory; interrupted Runs fail when the Jobs are loaded.   *)
Restart ==
    /\ MayFail /\ jfSeen' = [Faulty EXCEPT !.odd = {}]
    /\ job' = [j \in Jobs |-> IF disk[j] # None /\ disk[j].status = "running"
                              THEN State("failed", disk[j].run) ELSE disk[j]]
    /\ disk' = job'
    /\ op' = [j \in Jobs |-> None]
    /\ feed' = Tracker(feed.epoch + 1)
    /\ UNCHANGED client

Next ==
    \/ \E j \in Jobs :
          \/ Create(j) \/ Start(j) \/ StartSaved(j) \/ Finish(j) \/ FinishSaved(j) \/ Resave(j)
          \/ (\E s \in GraphStates(j) : SetGraphRunState(j, s)) \/ GraphApplied(j)
          \/ MarkDeleted(j) \/ Record(j)
    \/ \E c \in Clients : Reset(c) \/ Poll(c)
    \/ Restart

Spec == Init /\ [][Next]_jfVars

-----------------------------------------------------------------------------
Current(c) == client[c] # None /\ client[c].epoch = feed.epoch /\ client[c].seq = feed.seq

(* A client whose cursor is at the end of the journal knows every Job that     *)
(* rests: it has its state, or never heard of it and nothing has happened to   *)
(* it. A start or an end that could not be saved is apart until the next       *)
(* change of its Job.                                                          *)
FeedTrue ==
    \A c \in Clients, j \in Jobs \ jfSeen.odd :
       Current(c) /\ op[j] = None /\ job[j] # None =>
          \/ client[c].view[j] = job[j]
          \/ client[c].view[j] = Unknown /\ client[c].then[j] = job[j]

(* Between two resets a client is told of every change, and of each once.      *)
EveryChangeOnce ==
    \A c \in Clients : client[c] # None => client[c].told = client[c].seq - client[c].from

(* No change of a Job is in the journal twice, and each names the one before.  *)
ChangesFollow ==
    \A i, k \in DOMAIN feed.events :
       /\ i < k /\ feed.events[i].j = feed.events[k].j
       /\ \A n \in (i + 1) .. (k - 1) : feed.events[n].j # feed.events[k].j
       => feed.events[k].prev = feed.events[i].s /\ feed.events[k].s # feed.events[i].s

JobFeedKept == FeedTrue /\ EveryChangeOnce /\ ChangesFollow
=============================================================================
